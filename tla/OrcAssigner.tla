---------------------------- MODULE OrcAssigner ----------------------------
(***************************************************************************)
(* The master's side of ORC input: ORCBlockAssigner of                     *)
(* src/husky-plugins/master/orc_assigner.cpp.  Workers that read a url ask *)
(* the master for blocks; the master lists the url once, then hands out    *)
(* <<file, first row>> pairs until nothing is left, and counts the workers *)
(* it told so.  The master is one thread: each handler is one action.      *)
(*                                                                         *)
(* A std::map is a function whose domain is the set of keys present;       *)
(* operator[] on an absent key inserts a default value, as the code's      *)
(* finish_dict_[url] and files_dict_[url] do.                              *)
(***************************************************************************)
EXTENDS Naturals, Sequences

CONSTANTS
    Url,                \* the table locations a job may read
    File,               \* the ORC files
    PlainFiles,         \* [Url -> Seq(File)]: the plain files hdfsListDirectory lists
    NumRows,            \* [File -> Nat]: getNumberOfRows()
    kOrcRowBatchSize,   \* rows per block (5000 in the code)
    num_workers_alive,  \* Context::get_worker_info().get_num_workers()
    Faults              \* which external calls may fail in this instance

(***************************************************************************)
(* Distinct urls are distinct directories, and a directory lists each of   *)
(* its files once.                                                         *)
(***************************************************************************)
ASSUME ListingAssumption ==
    /\ PlainFiles \in [Url -> Seq(File)]
    /\ \A u, v \in Url :
         \A i \in 1 .. Len(PlainFiles[u]), j \in 1 .. Len(PlainFiles[v]) :
            PlainFiles[u][i] = PlainFiles[v][j] => u = v /\ i = j

ASSUME SizeAssumption ==
    /\ NumRows \in [File -> Nat]
    /\ kOrcRowBatchSize \in Nat \ {0}
    /\ num_workers_alive \in Nat \ {0}

ASSUME FaultsAssumption ==
    Faults \subseteq {"connect", "browse", "open", "read"}

VARIABLES
    fs,             \* fs_: "unset" until the setup handler ran, then "ok" or "null"
    files_dict,     \* files_dict_: url -> vector of OrcFileDesc
    finish_dict     \* finish_dict_: url -> answers "nothing left" given

masterVars == <<fs, files_dict, finish_dict>>

OrcFileDesc == [filename : File, num_of_rows : Nat, offset : Nat]

Put(f, k, v) == [x \in DOMAIN f \cup {k} |-> IF x = k THEN v ELSE f[x]]
Erase(f, k)  == [x \in DOMAIN f \ {k} |-> f[x]]
Get(f, k, default) == IF k \in DOMAIN f THEN f[k] ELSE default

MasterInit ==
    /\ fs = "unset"
    /\ files_dict = [u \in {} |-> <<>>]
    /\ finish_dict = [u \in {} |-> 0]

\* master_setup_handler, which runs before the master serves: init_hdfs
\* connects, and leaves fs_ null when its three attempts failed.
MasterSetupHandler ==
    /\ fs = "unset"
    /\ fs' \in {"ok"} \cup (IF "connect" \in Faults THEN {"null"} ELSE {})
    /\ UNCHANGED <<files_dict, finish_dict>>

-----------------------------------------------------------------------------
\* browse_hdfs: the first n files of the listing, none of them handed out.
FirstFiles(url, n) ==
    [i \in 1 .. n |-> [filename    |-> PlainFiles[url][i],
                       num_of_rows |-> NumRows[PlainFiles[url][i]],
                       offset      |-> 0]]

\* An exception while the files are opened ends the loop and keeps the
\* entries pushed so far.  Whether the stream's constructor throws, which
\* opens the file and asks for its size, or the reader on it, is one here.
BrowseHdfs(url) ==
    {FirstFiles(url, n) : n \in IF "browse" \in Faults
                                THEN 0 .. Len(PlainFiles[url])
                                ELSE {Len(PlainFiles[url])}}

\* The vector answer() works on: browsed now if the url was never asked for.
FilesOf(url) ==
    IF url \in DOMAIN finish_dict
    THEN {Get(files_dict, url, <<>>)}
    ELSE BrowseHdfs(url)

NoBlock == [filename |-> "", offset |-> 0]

\* The block handed out comes from the back of the vector ...
Block(files) ==
    LET file == files[Len(files)]
    IN  [filename |-> file.filename, offset |-> file.offset]

\* Mutants of HandOut: the offset never moves; the file is popped after one
\* block; the offset is compared before it moves.
HandOut_StaysPut(files) == files
HandOut_OneBlockPerFile(files) == SubSeq(files, 1, Len(files) - 1)
HandOut_PastTheEnd(files) ==
    LET n == Len(files)
    IN  IF files[n].offset > files[n].num_of_rows
        THEN SubSeq(files, 1, n - 1)
        ELSE [files EXCEPT ![n].offset = @ + kOrcRowBatchSize]

\* ... whose offset moves one batch on; past the number of rows, the file
\* is popped.
HandOut(files) ==
    LET n    == Len(files)
        next == files[n].offset + kOrcRowBatchSize
    IN  IF next > files[n].num_of_rows
        THEN SubSeq(files, 1, n - 1)
        ELSE [files EXCEPT ![n].offset = next]

\* A mutant of AnswerBlock: the url is not entered in finish_dict.
AnswerBlock_NotEntered(url, files) ==
    /\ files # <<>>
    /\ files_dict' = Put(files_dict, url, HandOut(files))
    /\ UNCHANGED <<fs, finish_dict>>

\* answer(url) when the master has a file system, files \in FilesOf(url).
AnswerBlock(url, files) ==
    /\ files # <<>>
    /\ files_dict' = Put(files_dict, url, HandOut(files))
    /\ finish_dict' = Put(finish_dict, url, Get(finish_dict, url, 0))
    /\ UNCHANGED fs

\* A mutant of AnswerFinished: the count is compared before it moves.
AnswerFinished_ComparesFirst(url, files) ==
    LET finished == Get(finish_dict, url, 0)
    IN  /\ files = <<>>
        /\ finish_dict' = Put(finish_dict, url, finished + 1)
        /\ files_dict' = IF finished = num_workers_alive
                         THEN Erase(files_dict, url)
                         ELSE Put(files_dict, url, files)
        /\ UNCHANGED fs

AnswerFinished(url, files) ==
    LET finished == Get(finish_dict, url, 0) + 1
    IN  /\ files = <<>>
        /\ finish_dict' = Put(finish_dict, url, finished)
        /\ files_dict' = IF finished = num_workers_alive
                         THEN Erase(files_dict, url)
                         ELSE Put(files_dict, url, files)
        /\ UNCHANGED fs
=============================================================================
