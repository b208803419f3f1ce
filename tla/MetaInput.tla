----------------------------- MODULE MetaInput ------------------------------
(***************************************************************************)
(* Loading the metadata: a worker's MetaLoader reads three directories,    *)
(* one after the other, through one FileBroadcastInputFormat that keeps    *)
(* its state from one to the next.  Every worker reads all files.          *)
(***************************************************************************)
EXTENDS Naturals, Sequences, FiniteSetsExt

CONSTANTS
    Worker,
    File,       \* the files there may be
    Size,       \* [File -> Nat]: mSize, their number of bytes
    DirOf,      \* [File -> STRING]: the directory a file is in
    FileSets,   \* which files there may be together
    Faults      \* which external calls may fail, by worker, in this instance

ASSUME FileAssumption ==
    /\ Size \in [File -> Nat]
    /\ DirOf \in [File -> {"cube_desc", "model_desc", "table"}]
    /\ FileSets \subseteq SUBSET File
    /\ IsFiniteSet(File)

ASSUME FaultsAssumption == Faults \in [Worker -> SUBSET {"list", "open", "read"}]

VARIABLES
    files,      \* the files there are; nothing writes them
    pc,         \* where a worker is: "set_input", "next", "fetch", "returned" ...
    calls,      \* the directories it still has to load, the current one first
    infmt,      \* infmt_, the input format
    jsons,      \* the chunks parse_json got, by directory
    failed      \* not in the code: the directories and files that failed

metaVars == <<files, pc, calls, infmt, jsons, failed>>

Directory == {"cube_desc", "model_desc", "table"}
FilesIn(d) == {f \in files : DirOf[f] = d}
NoFile == ""
NoJsons == [d \in Directory |-> <<>>]

\* Bytes of a file, as the file and their place in it.
Bytes(f, from, to) == [i \in 1 .. to - from |-> <<f, from + i>>]
Content(f) == Bytes(f, 0, Size[f])
Whole(chunk) == chunk = Content(chunk[1][1])

\* execute: model and tables are arguments of one call, which the compiler may
\* evaluate in either order.
MetaInit ==
    /\ files \in FileSets
    /\ pc = [w \in Worker |-> "set_input"]
    /\ calls \in [Worker -> {<<"cube_desc", "model_desc", "table">>,
                             <<"cube_desc", "table", "model_desc">>}]
    /\ infmt = [w \in Worker |-> [file_sizes |-> {}, max_size |-> 0, file |-> NoFile,
                                  pos |-> 0, data |-> <<>>]]
    /\ jsons = [w \in Worker |-> NoJsons]
    /\ failed = [w \in Worker |-> {}]

Fails(w, what) == failed' = [failed EXCEPT ![w] = @ \cup {what}]

Abort(w) ==
    /\ pc' = [pc EXCEPT ![w] = "aborted"]
    /\ UNCHANGED <<calls, infmt, jsons, failed>>

\* A mutant of Listed: the buffer has room for the smallest file only.
Listed_SmallestSize(w, found) ==
    LET size == IF found = {} THEN 0 ELSE Min({Size[f] : f \in found})
    IN  [infmt[w] EXCEPT !.file_sizes = @ \cup found, !.max_size = size, !.data = <<>>]

\* What set_input makes of a listing: the files are added to those left over,
\* the buffer has room for those found.
Listed(w, found) ==
    LET size == IF found = {} THEN 0 ELSE Max({Size[f] : f \in found})
    IN  [infmt[w] EXCEPT !.file_sizes = @ \cup found, !.max_size = size, !.data = <<>>]

\* set_input; without a connection, or when the directory cannot be listed, no
\* file is found.
SetInput(w) ==
    /\ pc[w] = "set_input"
    /\ pc' = [pc EXCEPT ![w] = "next"]
    /\ \/ infmt' = [infmt EXCEPT ![w] = Listed(w, FilesIn(Head(calls[w])))] /\ UNCHANGED failed
       \/ /\ "list" \in Faults[w]
          /\ infmt' = [infmt EXCEPT ![w] = Listed(w, {})]
          /\ Fails(w, Head(calls[w]))
    /\ UNCHANGED <<files, calls, jsons>>

\* A mutant of NoFileLeft: next returns true, with an empty chunk.
NoFileLeft_GoesOn(w) ==
    /\ pc[w] = "next"
    /\ infmt[w].file_sizes = {}
    /\ UNCHANGED metaVars

\* next finds no file left: husky::load returns.
NoFileLeft(w) ==
    /\ pc[w] = "next"
    /\ infmt[w].file_sizes = {}
    /\ pc' = [pc EXCEPT ![w] = "returned"]
    /\ UNCHANGED <<files, calls, infmt, jsons, failed>>

\* next takes a file of the unordered map; fetch_file opens it.
OpenFile(w, f) ==
    /\ pc[w] = "next"
    /\ f \in infmt[w].file_sizes
    /\ pc' = [pc EXCEPT ![w] = "fetch"]
    /\ infmt' = [infmt EXCEPT ![w].file = f, ![w].pos = 0, ![w].data = <<>>]
    /\ UNCHANGED <<files, calls, jsons, failed>>

\* ASSERT_MSG(file_ != nullptr).
OpenFails(w) ==
    /\ pc[w] = "next"
    /\ infmt[w].file_sizes # {}
    /\ "open" \in Faults[w]
    /\ Abort(w)
    /\ UNCHANGED files

\* hdfsRead gives some of what is left of the file.  Bytes behind the buffer's
\* end are written, or end the process.
Read(w, n) ==
    LET in == infmt[w]
    IN  /\ Len(in.data) < Size[in.file]
        /\ n \in 1 .. Size[in.file] - in.pos
        /\ \/ /\ infmt' = [infmt EXCEPT ![w].pos = @ + n,
                                        ![w].data = @ \o Bytes(in.file, in.pos, in.pos + n)]
              /\ UNCHANGED <<pc, calls, jsons, failed>>
           \/ Len(in.data) + n > in.max_size /\ Abort(w)
        /\ UNCHANGED files

\* hdfsRead returns -1, and start wraps around: one byte is taken back, or the
\* file seems to be of the largest size there is, and reading it ends the
\* process.
ReadFails(w) ==
    LET in == infmt[w]
    IN  /\ pc[w] = "fetch"
        /\ Len(in.data) < Size[in.file]
        /\ "read" \in Faults[w]
        /\ IF in.data = <<>>
           THEN Abort(w)
           ELSE /\ infmt' = [infmt EXCEPT ![w].data = SubSeq(@, 1, Len(@) - 1)]
                /\ Fails(w, in.file)
                /\ UNCHANGED <<pc, calls, jsons>>
        /\ UNCHANGED files

\* A mutant of Erased: the file stays in the map.
Erased_Not(w) == [infmt[w] EXCEPT !.file = NoFile, !.pos = 0, !.data = <<>>]

Erased(w) ==
    [infmt[w] EXCEPT !.file_sizes = @ \ {infmt[w].file}, !.file = NoFile,
                     !.pos = 0, !.data = <<>>]

\* The file is read, or hdfsRead returns 0 at its end: next returns a chunk,
\* which parse_json parses, or false when it is empty, and the load ends.  Not
\* every chunk can be parsed when bytes are missing.
Fetched(w) ==
    LET in == infmt[w]
    IN  /\ pc[w] = "fetch"
        /\ Len(in.data) >= Size[in.file] \/ in.pos = Size[in.file]
        /\ \/ /\ infmt' = [infmt EXCEPT ![w] = Erased(w)]
              /\ IF in.data = <<>>
                 THEN pc' = [pc EXCEPT ![w] = "returned"] /\ UNCHANGED jsons
                 ELSE /\ jsons' = [jsons EXCEPT ![w][Head(calls[w])] = Append(@, in.data)]
                      /\ pc' = [pc EXCEPT ![w] = "next"]
              /\ UNCHANGED <<calls, failed>>
           \/ in.data # <<>> /\ ~Whole(in.data) /\ Abort(w)
        /\ UNCHANGED files

GetJson(w) ==
    \/ SetInput(w)
    \/ NoFileLeft(w)
    \/ \E f \in infmt[w].file_sizes : OpenFile(w, f)
    \/ OpenFails(w)
    \/ pc[w] = "fetch" /\ \E n \in 1 .. Size[infmt[w].file] : Read(w, n)
    \/ ReadFails(w)
    \/ Fetched(w)

-----------------------------------------------------------------------------
EmptyIn(d) == \E f \in FilesIn(d) : Size[f] = 0

\* Another directory has a file that ends its load, or a later one, too early:
\* an empty file, or one that seems empty as reading fails.
LeftOver(w, d) == \E f \in files : DirOf[f] # d /\ (Size[f] = 0 \/ f \in failed[w])

\* What a load parses are the files of its own directory, each of them whole
\* and once.  A file of another directory is only left over by an empty file of
\* another, or one that seemed empty when reading failed, and bytes are only
\* missing where reading failed.
ParsesItsFiles ==
    \A w \in Worker : \A d \in Directory :
        LET chunks == jsons[w][d]
        IN  /\ \A i \in DOMAIN chunks :
                 LET f == chunks[i][1][1]
                 IN  /\ Whole(chunks[i]) \/ f \in failed[w]
                     /\ DirOf[f] = d \/ LeftOver(w, d)
            /\ \A i, j \in DOMAIN chunks : i # j => chunks[i][1][1] # chunks[j][1][1]

\* A load that has returned has parsed all files of its directory, unless the
\* directory could not be listed, one was empty, or reading failed; and while
\* it reads, what it reads has room in the buffer.
LoadsAllFiles ==
    \A w \in Worker : \A d \in Directory :
        (\A e \in Directory : ~EmptyIn(e)) /\ failed[w] = {} =>
            /\ pc[w] = "returned" /\ d = Head(calls[w]) =>
                 FilesIn(d) = {jsons[w][d][i][1][1] : i \in DOMAIN jsons[w][d]}
            /\ pc[w] = "fetch" => Len(infmt[w].data) <= infmt[w].max_size
=============================================================================
