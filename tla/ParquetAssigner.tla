-------------------------- MODULE ParquetAssigner --------------------------
(***************************************************************************)
(* PARQUETBlockAssigner, the master's side of reading Parquet files: which *)
(* row group a worker that asks is handed.  For each file the master keeps *)
(* its number of row groups, the next one, and a count of answers that     *)
(* passed over it; for each url, the number of workers told that nothing   *)
(* is left.  All three are kept by name, files and urls in the same maps,  *)
(* for local files and for HDFS.                                           *)
(***************************************************************************)
EXTENDS Naturals, Sequences, Functions

CONSTANTS
    Path,               \* the Parquet files
    Url,                \* what workers ask for; a local url may be a path
    Protocol,           \* [Path \cup Url -> STRING]: where the name lives
    Kind,               \* [Url -> STRING]: what boost::filesystem says of it
    Files,              \* [Url -> Seq(Path)]: the plain files of a directory
    RowGroups,          \* [Path -> Seq(Nat)]: the rows in each row group
    PathOrder,          \* [Path -> Nat]: the order of the names in a std::map
    num_workers_alive,  \* Context::get_worker_info().get_num_workers()
    Faults              \* which external calls may fail in this instance

IsLocal(name) == Protocol[name] \in {"nfs", "file"}

\* To boost::filesystem, a local Parquet file is a file.
ASSUME NamesAssumption ==
    /\ Protocol \in [Path \cup Url -> STRING]
    /\ Kind \in [Url -> {"file", "directory", "missing"}]
    /\ \A u \in Url : Kind[u] = "file" => u \in Path
    /\ \A u \in Url \cap Path : IsLocal(u) => Kind[u] = "file"
    /\ "" \notin Path

ASSUME FilesAssumption ==
    /\ Files \in [Url -> Seq(Path)]
    /\ \A u, v \in Url :
         \A i \in 1 .. Len(Files[u]), j \in 1 .. Len(Files[v]) :
            Files[u][i] = Files[v][j] => u = v /\ i = j
    /\ RowGroups \in [Path -> Seq(Nat)]

ASSUME OrderAssumption ==
    /\ PathOrder \in [Path -> Nat]
    /\ \A p, q \in Path : PathOrder[p] = PathOrder[q] => p = q

ASSUME CountAssumption == num_workers_alive \in Nat \ {0}

ASSUME FaultsAssumption ==
    Faults \subseteq {"connect", "browse", "open", "read"}

VARIABLES
    fs,     \* fs_: "null" (zero, the object is static) or "ok"
    dicts   \* file_size_, file_offset_ and finish_dict_

masterVars == <<fs, dicts>>

NoBlock == [filename |-> "", offset |-> 0]

Get(f, k, default) == IF k \in DOMAIN f THEN f[k] ELSE default

\* The map g with the entries of f written to it.
Write(f, g) ==
    [x \in DOMAIN f \cup DOMAIN g |-> IF x \in DOMAIN f THEN f[x] ELSE g[x]]

Zeros(S) == [x \in S |-> 0]

MasterInit ==
    /\ fs = "null"
    /\ dicts = [file_size |-> <<>>, file_offset |-> <<>>, finish_dict |-> <<>>]

-----------------------------------------------------------------------------
\* What a browse enters for the files it opened.
Enter(d, paths) ==
    [file_size   |-> Write([p \in paths |-> Len(RowGroups[p])], d.file_size),
     file_offset |-> Write(Zeros(paths), d.file_offset),
     finish_dict |-> Write(Zeros(paths), d.finish_dict)]

\* finish_url, for each name in S.
FinishUrl(d, S) ==
    [file_size   |-> Restrict(d.file_size, DOMAIN d.file_size \ S),
     file_offset |-> Restrict(d.file_offset, DOMAIN d.file_offset \ S),
     finish_dict |-> Restrict(d.finish_dict, DOMAIN d.finish_dict \ S)]

\* finish_dict_[name] += 1, for each name in S.
CountFinished(d, S) ==
    [d EXCEPT !.finish_dict = Write([s \in S |-> Get(@, s, 0) + 1], @)]

\* browse_hdfs: the plain files of the directory; an exception while one is
\* opened ends the loop and keeps those before it.
BrowseHdfs(d, url) ==
    {Enter(d, {Files[url][i] : i \in 1 .. n}) :
        n \in IF "browse" \in Faults THEN 0 .. Len(Files[url]) ELSE {Len(Files[url])}}

\* browse_local.  For a directory the code opens url, not the path of the
\* file it has reached; opening a directory throws, so no file is entered.
BrowseLocal(d, url) ==
    CASE Kind[url] = "file" ->
            {Enter(d, {url})} \cup (IF "browse" \in Faults THEN {d} ELSE {})
      [] Kind[url] = "directory" -> {[d EXCEPT !.finish_dict = Write(Zeros({url}), @)]}
      [] Kind[url] = "missing" -> {d}

-----------------------------------------------------------------------------
\* A mutant of HandOut: the offset stays.
HandOut_StaysPut(d, path) ==
    [dicts |-> d,
     ret   |-> [filename |-> path, offset |-> d.file_offset[path]]]

\* The answer is the path's next row group.
HandOut(d, path) ==
    [dicts |-> [d EXCEPT !.file_offset[path] = @ + 1],
     ret   |-> [filename |-> path, offset |-> d.file_offset[path]]]

\* A mutant of Tell: the url is never forgotten.
Tell_Keeps(d, url) == [dicts |-> CountFinished(d, {url}), ret |-> NoBlock]

\* The answer is that nothing is left; with the last worker told, the url is
\* forgotten.
Tell(d, url) ==
    LET counted == CountFinished(d, {url})
    IN  [dicts |-> IF counted.finish_dict[url] = num_workers_alive
                   THEN FinishUrl(counted, {url}) ELSE counted,
         ret   |-> NoBlock]

\* A mutant of IsPending: the last row group's successor is handed out, too.
IsPending_PastTheEnd(d, path) == Get(d.file_offset, path, 0) <= Get(d.file_size, path, 0)

IsPending(d, path) == Get(d.file_offset, path, 0) < Get(d.file_size, path, 0)

\* A mutant of Passed: the files after the next one are counted, too.
Passed_All(d, pending, next) ==
    {p \in DOMAIN d.file_size : pending = {} \/ p # next}

\* The files the loop of answer_hdfs counts before it reaches the next one.
Passed(d, pending, next) ==
    {p \in DOMAIN d.file_size : pending = {} \/ PathOrder[p] < PathOrder[next]}

\* answer_hdfs, once the url is known: drop the files that num_workers_alive
\* answers passed over, hand out the first row group left in any file.
AnswerHdfs(d, url) ==
    LET kept == FinishUrl(d, {p \in DOMAIN d.file_size :
                                 d.finish_dict[p] = num_workers_alive})
        pending == {p \in DOMAIN kept.file_size : IsPending(kept, p)}
        next == CHOOSE p \in pending : \A q \in pending : PathOrder[p] <= PathOrder[q]
        counted == CountFinished(kept, Passed(kept, pending, next))
    IN  IF pending = {} THEN Tell(counted, url) ELSE HandOut(counted, next)

\* answer for a regular file: looking its numbers up enters them.
AnswerFile(d, url) ==
    LET known == [d EXCEPT !.file_offset = Write(@, Zeros({url})),
                           !.file_size = Write(@, Zeros({url}))]
    IN  IF IsPending(known, url) THEN HandOut(known, url) ELSE Tell(known, url)

\* answer for a directory: the loop over its files, as far as they are known.
AnswerDirectory(d, url) ==
    LET known == {i \in DOMAIN Files[url] : Files[url][i] \in DOMAIN d.finish_dict}
        pending == {i \in known : IsPending(d, Files[url][i])}
        next == CHOOSE i \in pending : \A j \in pending : i <= j
        passed == {Files[url][i] : i \in {j \in known : \A k \in pending : j < k}}
        counted == CountFinished(d, passed)
        kept == FinishUrl(counted, {p \in passed :
                                       counted.finish_dict[p] = num_workers_alive})
    IN  IF pending = {} THEN Tell(kept, url) ELSE HandOut(kept, Files[url][next])

\* A url is browsed when finish_dict_ does not have it.
Known(d, url, browsed) == IF url \in DOMAIN d.finish_dict THEN {d} ELSE browsed

\* What answer may return.
LocalAnswers(url) ==
    {CASE Kind[url] = "file" -> AnswerFile(d, url)
       [] Kind[url] = "directory" -> AnswerDirectory(d, url)
       [] Kind[url] = "missing" -> Tell(d, url) :
     d \in Known(dicts, url, BrowseLocal(dicts, url))}

\* What answer_hdfs may return; the url is in finish_dict_ after the browse.
HdfsAnswers(url) ==
    {AnswerHdfs([d EXCEPT !.finish_dict = Write(@, Zeros({url}))], url) :
        d \in Known(dicts, url, BrowseHdfs(dicts, url))}

\* init_hdfs, called by master_main_handler while there is no connection.
InitHdfs ==
    fs' \in {"ok"} \cup (IF fs = "null" /\ "connect" \in Faults THEN {"null"} ELSE {})
-----------------------------------------------------------------------------
\* The maps' types, and how their keys and values go together.
DictsOK(d) ==
    /\ DOMAIN d = {"file_size", "file_offset", "finish_dict"}
    /\ DOMAIN d.file_size \subseteq Path
    /\ DOMAIN d.file_offset = DOMAIN d.file_size
    /\ DOMAIN d.file_size \subseteq DOMAIN d.finish_dict
    /\ DOMAIN d.finish_dict \subseteq Path \cup Url
    /\ \A p \in DOMAIN d.file_size : /\ d.file_size[p] \in {0, Len(RowGroups[p])}
                                     /\ d.file_offset[p] \in 0 .. d.file_size[p]
    /\ \A n \in DOMAIN d.finish_dict : d.finish_dict[n] \in Nat

\* Only files that are read up are counted, so that none is dropped early.
CountedAreOver(d) ==
    \A p \in DOMAIN d.file_size :
        d.finish_dict[p] > 0 => d.file_offset[p] = d.file_size[p]

\* Row group g of the path is still to be handed out.
Left(d, p, g) ==
    p \in DOMAIN d.file_size /\ d.file_offset[p] <= g /\ g < d.file_size[p]

\* The files that browsing for the url may enter.
Opens(url) ==
    IF ~IsLocal(url) THEN Range(Files[url])
    ELSE IF Kind[url] = "file" THEN {url} ELSE {}
=============================================================================
