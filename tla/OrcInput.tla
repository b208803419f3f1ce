------------------------------ MODULE OrcInput ------------------------------
(***************************************************************************)
(* Reading ORC tables: the master of OrcAssigner and the workers' side,    *)
(* ORCTableReader::read_data over ORCInputFormat and ORCFileSplitter.      *)
(*                                                                         *)
(* Every worker thread runs the same program, a sequence of read_data      *)
(* calls, each with an input format of its own.  husky::load calls next    *)
(* until it returns false; nothing makes the workers wait for each other,  *)
(* so one may be in its second load while another is in its first.         *)
(* next returns the buffered row, or, with the buffer used up, asks the    *)
(* master for a block and waits for the answer.                            *)
(***************************************************************************)
EXTENDS OrcAssigner, FiniteSets

CONSTANTS
    Worker,         \* the worker threads
    Program,        \* the urls read_data is called with, in order
    StripeEnd       \* [File -> [Nat -> Nat]]: end of the stripe a row is in

ASSUME WorkerAssumption ==
    /\ IsFiniteSet(Worker)
    /\ num_workers_alive = Cardinality(Worker)

ASSUME ProgramAssumption == Program \in Seq(Url) /\ Program # <<>>

ASSUME StripeAssumption ==
    \A f \in File : \A r \in 0 .. NumRows[f] :
        StripeEnd[f][r] \in Nat /\ StripeEnd[f][r] > r

ASSUME NamesAssumption == "" \notin File

VARIABLES
    pc,         \* "next", "waiting", "answered", "done" or "crashed"
    load,       \* index in Program of the read_data call the worker is in
    reply,      \* the master's last answer to the worker
    buffer,     \* cur_fn_ and the rows of it still buffered: l .. end - 1
    raw_data    \* the rows given to read_line in all loads, as a bag

workerVars == <<pc, load, reply, buffer, raw_data>>
vars == <<masterVars, workerVars>>

\* The rows of a file, and of all files.
RowsOfFile(f) == {f} \X {r \in 0 .. NumRows[f] : r < NumRows[f]}
Row == UNION {RowsOfFile(f) : f \in File}

NewInputFormat == [fn |-> "", l |-> 0, end |-> 0]

Init ==
    /\ MasterInit
    /\ pc = [w \in Worker |-> "next"]
    /\ load = [w \in Worker |-> 1]
    /\ reply = [w \in Worker |-> NoBlock]
    /\ buffer = [w \in Worker |-> NewInputFormat]
    /\ raw_data = [w \in Worker |-> [x \in Row |-> 0]]

-----------------------------------------------------------------------------
Setup == MasterSetupHandler /\ UNCHANGED workerVars

\* next() has a whole row buffered and gives it to read_line.
NextRow(w) ==
    /\ pc[w] = "next"
    /\ buffer[w].l < buffer[w].end
    /\ raw_data' = [raw_data EXCEPT ![w][<<buffer[w].fn, buffer[w].l>>] = @ + 1]
    /\ buffer' = [buffer EXCEPT ![w].l = @ + 1]
    /\ UNCHANGED <<masterVars, pc, load, reply>>

\* next() finds its buffer used up, and fetch_block sends the question.
AskMaster(w) ==
    /\ pc[w] = "next"
    /\ buffer[w].l = buffer[w].end
    /\ pc' = [pc EXCEPT ![w] = "waiting"]
    /\ UNCHANGED <<masterVars, load, reply, buffer, raw_data>>

\* The master takes one worker's question, answers, and sends the answer.
Answered(w, ret) ==
    /\ pc' = [pc EXCEPT ![w] = "answered"]
    /\ reply' = [reply EXCEPT ![w] = ret]
    /\ UNCHANGED <<load, buffer, raw_data>>

\* A mutant of MasterMainHandler: no answer when nothing is left.
MasterMainHandler_SilentAtTheEnd(w) ==
    LET url == Program[load[w]]
    IN  /\ pc[w] = "waiting"
        /\ fs = "ok"
        /\ \E files \in FilesOf(url) :
              AnswerBlock(url, files) /\ Answered(w, Block(files))

MasterMainHandler(w) ==
    LET url == Program[load[w]]
    IN  /\ pc[w] = "waiting"
        /\ \/ fs = "null" /\ Answered(w, NoBlock) /\ UNCHANGED masterVars
           \/ /\ fs = "ok"
              /\ \E files \in FilesOf(url) :
                    \/ AnswerBlock(url, files) /\ Answered(w, Block(files))
                    \/ AnswerFinished(url, files) /\ Answered(w, NoBlock)

-----------------------------------------------------------------------------
\* fetch_block returned nothing: next() returns false, husky::load ends, and
\* the worker goes on to the next read_data of its program.
LoadEnds(w) ==
    /\ load' = [load EXCEPT ![w] = @ + 1]
    /\ pc' = [pc EXCEPT ![w] = IF load[w] = Len(Program) THEN "done" ELSE "next"]
    /\ buffer' = [buffer EXCEPT ![w] = NewInputFormat]

\* A mutant of EndOfBatch: the batch is not limited to kOrcRowBatchSize rows.
EndOfBatch_WholeStripe(f, offset) ==
    IF offset >= NumRows[f] THEN offset
    ELSE IF StripeEnd[f][offset] < NumRows[f] THEN StripeEnd[f][offset] ELSE NumRows[f]

\* One RowReader::next after seekToRow(offset): a batch at most, and never
\* across the end of a stripe or of the file.
EndOfBatch(f, offset) ==
    LET stripe == IF StripeEnd[f][offset] < NumRows[f]
                  THEN StripeEnd[f][offset] ELSE NumRows[f]
    IN  IF offset >= NumRows[f] THEN offset
        ELSE IF stripe < offset + kOrcRowBatchSize THEN stripe
        ELSE offset + kOrcRowBatchSize

\* read_by_batch: an exception while the batch is read or printed leaves
\* the rows printed so far.
ReadByBatch(f, offset) ==
    IF "read" \in Faults
    THEN offset .. EndOfBatch(f, offset)
    ELSE {EndOfBatch(f, offset)}

FetchNothing(w) ==
    /\ pc[w] = "answered"
    /\ reply[w].filename = ""
    /\ LoadEnds(w)
    /\ UNCHANGED <<masterVars, reply, raw_data>>

FetchBlock(w) ==
    LET f == reply[w].filename
        offset == reply[w].offset
    IN  /\ pc[w] = "answered"
        /\ f # ""
        /\ \E end \in ReadByBatch(f, offset) :
              \/ end = offset /\ LoadEnds(w)
              \/ /\ end # offset
                 /\ pc' = [pc EXCEPT ![w] = "next"]
                 /\ buffer' = [buffer EXCEPT ![w] = [fn |-> f, l |-> offset, end |-> end]]
                 /\ UNCHANGED load
        /\ UNCHANGED <<masterVars, reply, raw_data>>

\* Opening a file other than the current one is outside read_by_batch's try
\* block: an exception there ends the process the worker runs in.
OpenFails(w) ==
    /\ "open" \in Faults
    /\ pc[w] = "answered"
    /\ reply[w].filename \notin {"", buffer[w].fn}
    /\ pc' = [pc EXCEPT ![w] = "crashed"]
    /\ UNCHANGED <<masterVars, load, reply, buffer, raw_data>>

WorkerStep(w) ==
    NextRow(w) \/ AskMaster(w) \/ FetchNothing(w) \/ FetchBlock(w) \/ OpenFails(w)

Next == Setup \/ \E w \in Worker : WorkerStep(w) \/ MasterMainHandler(w)

Spec == Init /\ [][Next]_vars

\* Threads are scheduled and the master serves every question it receives.
FairSpec ==
    /\ Spec
    /\ WF_vars(Setup)
    /\ \A w \in Worker : WF_vars(WorkerStep(w)) /\ WF_vars(MasterMainHandler(w))
-----------------------------------------------------------------------------
TypeOK ==
    /\ fs \in {"unset", "ok", "null"}
    /\ DOMAIN files_dict \subseteq DOMAIN finish_dict
    /\ DOMAIN finish_dict \subseteq Url
    /\ files_dict \in [DOMAIN files_dict -> Seq(OrcFileDesc)]
    /\ finish_dict \in [DOMAIN finish_dict -> Nat]
    /\ pc \in [Worker -> {"next", "waiting", "answered", "done", "crashed"}]
    /\ load \in [Worker -> 1 .. Len(Program) + 1]
    /\ reply \in [Worker -> [filename : File \cup {""}, offset : Nat]]
    /\ buffer \in [Worker -> [fn : File \cup {""}, l : Nat, end : Nat]]
    /\ raw_data \in [Worker -> [Row -> Nat]]

AllDone == \A w \in Worker : pc[w] = "done"

\* The rows of a url the master still has to hand out.
RowsOf(url) == UNION {RowsOfFile(PlainFiles[url][i]) : i \in 1 .. Len(PlainFiles[url])}

Pending(url) ==
    IF url \notin DOMAIN finish_dict THEN RowsOf(url)
    ELSE LET files == Get(files_dict, url, <<>>)
         IN  {x \in RowsOf(url) :
                \E i \in 1 .. Len(files) :
                    files[i].filename = x[1] /\ files[i].offset <= x[2]}

\* No row is given to read_line twice, by one worker or by two, in however
\* many loads and however the master's answers interleave.
AtMostOnce ==
    \A x \in Row : \A w \in Worker :
        /\ raw_data[w][x] <= 1
        /\ raw_data[w][x] = 1 => \A v \in Worker \ {w} : raw_data[v][x] = 0

\* When every worker went through its program, every row of every table in
\* it was given to some read_line (orc_table_reader.hpp: "Read ORC format
\* table raw data").
Complete ==
    AllDone =>
        \A k \in 1 .. Len(Program) : \A x \in RowsOf(Program[k]) :
            \E w \in Worker : raw_data[w][x] > 0

\* A worker leaves a load only when the master has no row of the url left.
LeavesAtTheEnd ==
    [][\A w \in Worker : load'[w] # load[w] => Pending(Program[load[w]]) = {}]_vars

\* The workers the master told that nothing is left of the url of load k.
Told(k) ==
    {w \in Worker : \/ load[w] > k
                    \/ load[w] = k /\ pc[w] = "answered" /\ reply[w] = NoBlock}

\* In a program that reads each url once: until every worker is told that
\* nothing is left of a url, finish_dict counts those who were told and, from
\* the first of them on, files_dict keeps the url; with the last of them it
\* goes.  What finish_dict has after that is left open.  The comment in answer
\* says that a url is not in finish_dict_ both at "the begining of the file" and
\* when "all the workers has finished reading"; the code keeps it there for
\* ever, so that a second load of the url would not browse it again.
FinishCounts ==
    \A k \in 1 .. Len(Program) :
        /\ Told(k) # Worker => Get(finish_dict, Program[k], 0) = Cardinality(Told(k))
        /\ Told(k) \notin {{}, Worker} => Program[k] \in DOMAIN files_dict
        /\ Told(k) = Worker => Program[k] \notin DOMAIN files_dict

\* Every worker ends its program, or crashed.
Terminates == <>[](\A w \in Worker : pc[w] \in {"done", "crashed"})

\* The workers take the rows as RowDistribution promises.
Distribution == INSTANCE RowDistribution WITH
    got  <- raw_data,
    done <- {w \in Worker : pc[w] = "done"}
DistributesRows == Distribution!FairSpec
-----------------------------------------------------------------------------
(***************************************************************************)
(* Why AtMostOnce holds.  A row is free while its url has not been browsed *)
(* or its file is still listed with an offset not past it; a worker holds  *)
(* it in the answer it received, in its buffer, or in its table.           *)
(***************************************************************************)
Free(x) ==
    \/ \E u \in Url \ DOMAIN finish_dict :
         \E i \in 1 .. Len(PlainFiles[u]) : PlainFiles[u][i] = x[1]
    \/ \E u \in DOMAIN files_dict :
         \E i \in 1 .. Len(files_dict[u]) :
            files_dict[u][i].filename = x[1] /\ files_dict[u][i].offset <= x[2]

Places == {"answer", "buffer", "table"}

Holds(w, place, x) ==
    \/ /\ place = "answer"
       /\ pc[w] = "answered"
       /\ reply[w].filename = x[1]
       /\ reply[w].offset <= x[2]
       /\ x[2] < reply[w].offset + kOrcRowBatchSize
    \/ /\ place = "buffer"
       /\ buffer[w].fn = x[1]
       /\ buffer[w].l <= x[2]
       /\ x[2] < buffer[w].end
    \/ /\ place = "table"
       /\ raw_data[w][x] > 0

\* The master lists, for each url, an initial part of its directory.
ListsItsFiles ==
    \A u \in DOMAIN files_dict :
        /\ Len(files_dict[u]) <= Len(PlainFiles[u])
        /\ \A i \in 1 .. Len(files_dict[u]) :
             files_dict[u][i].filename = PlainFiles[u][i]

\* A row somebody holds is never handed out again.
HeldIsNotFree ==
    \A x \in Row : \A w \in Worker : \A p \in Places :
        Holds(w, p, x) => ~Free(x)

\* A row is held in one place by one worker, and counted once.
OneHolder ==
    \A x \in Row : \A w \in Worker :
        /\ raw_data[w][x] <= 1
        /\ \A v \in Worker : \A p, q \in Places :
             Holds(w, p, x) /\ Holds(v, q, x) => w = v /\ p = q

\* A worker that is not done is in a load of its program.
LoadInProgram == \A w \in Worker : pc[w] # "done" => load[w] \in 1 .. Len(Program)

\* AtMostOnce, strengthened to hold of one more step: every place a row can be
\* on its way from the master's list to a table is counted, because a step
\* that delivers a row relies on the worker's buffer being the only one with it.
IndInv == TypeOK /\ LoadInProgram /\ ListsItsFiles /\ HeldIsNotFree /\ OneHolder
=============================================================================
