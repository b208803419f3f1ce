----------------------------- MODULE HdfsStream -----------------------------
(***************************************************************************)
(* Reading a range of a file from HDFS: HDFSFileInputStream::read for ORC  *)
(* files and PARQUETHdfsSource::ReadAt for Parquet files, which both ask   *)
(* hdfsRead for what remains until nothing does.  hdfsRead may give fewer  *)
(* bytes than asked for, 0 at the end of the file, and -1 when it fails.   *)
(***************************************************************************)
EXTENDS Integers

CONSTANTS
    FileLength,     \* length_
    MaxFailures     \* bound: how often hdfsRead fails

VARIABLES
    pc,         \* "read" in the loop, then "returned" or "thrown"
    request,    \* the arguments: [position, length]
    position,   \* where the open file is
    start, remain,
    out,        \* the buffer: place -> byte of the file; places before 0 and
                \* behind its end are memory of somebody else
    failures    \* not in the code: how often hdfsRead failed

vars == <<pc, request, position, start, remain, out, failures>>

\* hdfsSeek.  The ranges the readers ask for lie in the file.
Init ==
    /\ request \in {r \in [position : 0 .. FileLength, length : 1 .. FileLength] :
                       r.position + r.length <= FileLength}
    /\ pc = "read"
    /\ position = request.position
    /\ start = 0
    /\ remain = request.length
    /\ out = [place \in {} |-> 0]
    /\ failures = 0

Written(n) ==
    [place \in DOMAIN out \cup start .. start + n - 1 |->
        IF place \in start .. start + n - 1 THEN position + (place - start) ELSE out[place]]

\* hdfsRead gives n of the bytes; at the end of the file n is 0, for ever.
ReadBytes(n) ==
    /\ pc = "read" /\ remain > 0
    /\ n <= remain
    /\ n = 0 => position = FileLength
    /\ n <= FileLength - position
    /\ out' = Written(n)
    /\ position' = position + n
    /\ start' = start + n
    /\ remain' = remain - n
    /\ UNCHANGED <<pc, request, failures>>

\* hdfsRead returns -1, which is added like any number of bytes.
ReadFails ==
    /\ pc = "read" /\ remain > 0
    /\ failures < MaxFailures
    /\ failures' = failures + 1
    /\ start' = start - 1
    /\ remain' = remain + 1
    /\ UNCHANGED <<pc, request, position, out>>

\* The tests behind the loop.
Return ==
    /\ pc = "read" /\ remain = 0
    /\ pc' = IF start = -1 \/ start # request.length THEN "thrown" ELSE "returned"
    /\ UNCHANGED <<request, position, start, remain, out, failures>>

Next ==
    \/ \E n \in 0 .. FileLength : ReadBytes(n)
    \/ ReadFails
    \/ Return

Spec == Init /\ [][Next]_vars

-----------------------------------------------------------------------------
\* "Bad read of", "Short read of": when hdfsRead fails, the caller gets an
\* exception and no buffer.
FailedReadThrows == pc = "returned" => failures = 0
=============================================================================
