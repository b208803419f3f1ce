-------------------------- MODULE CubeSetupProofs --------------------------
(***************************************************************************)
(* For any metadata files, sizes, failures and any number of workers: what *)
(* the three loads parse, the columns and masks that the cube is made of,  *)
(* and that all workers come to the same ones.                             *)
(***************************************************************************)
EXTENDS CubeSetup, RecursionTheorems

(***************************************************************************)
(* The invariant of the loads.                                             *)
(***************************************************************************)

\* The loads that are still to be done, the current one first.
CallOrders ==
    {<<"cube_desc", "model_desc", "table">>, <<"cube_desc", "table", "model_desc">>,
     <<"model_desc", "table">>, <<"table", "model_desc">>, <<"model_desc">>, <<"table">>, <<>>}

Loading == {"set_input", "next", "fetch", "returned"}
Place == Loading \cup {"aborted", "model", "columns", "rowkey", "ready"}
Chunk == Seq(File \X Nat)

\* The types of what a worker has.
Typed(w) ==
    /\ files \in SUBSET File
    /\ pc[w] \in Place
    /\ calls[w] \in CallOrders
    /\ pc[w] \in Loading => calls[w] # <<>>
    /\ pc[w] = "model" => calls[w] = <<>>
    /\ infmt[w] \in [file_sizes : SUBSET files, max_size : Nat, file : File \cup {NoFile},
                     pos : Nat, data : Chunk]
    /\ jsons[w] \in [Directory -> Seq(Chunk)]

\* A file that may end a load.
Ends(w, f) == Size[f] = 0 \/ f \in failed[w]

\* The directories that are still to be listed.
ToList(w) == IF pc[w] = "set_input" THEN Range(calls[w]) ELSE Range(Tail(calls[w]))

\* The files whose bytes a load of d has parsed.
ChunkFiles(chunks) == {chunks[i][1][1] : i \in DOMAIN chunks}
ParsedFiles(w, d) == ChunkFiles(jsons[w][d])

\* A directory that is still to be listed has no file in the map or in a chunk.
NotYetListed(w) ==
    pc[w] \in Loading =>
        \A d \in ToList(w) : jsons[w][d] = <<>> /\ \A f \in infmt[w].file_sizes : DirOf[f] # d

\* Files are left in the map by one that ends a load.
LeftBehind(w) ==
    /\ pc[w] \in {"set_input", "returned"} /\ infmt[w].file_sizes # {} =>
          \E g \in files : DirOf[g] \notin ToList(w) /\ Ends(w, g)
    /\ pc[w] \in {"next", "fetch"} =>
          \A f \in infmt[w].file_sizes :
              \/ DirOf[f] = Head(calls[w])
              \/ \E g \in files : DirOf[g] \notin Range(calls[w]) /\ Ends(w, g)

\* The bytes read so far are the first of the file, unless reading failed.
Buffered(w) ==
    pc[w] = "fetch" =>
        LET in == infmt[w]
        IN  /\ in.file \in in.file_sizes
            /\ in.pos <= Size[in.file]
            /\ in.data # <<>> => in.data[1][1] = in.file
            /\ in.file \notin failed[w] => in.data = Bytes(in.file, 0, in.pos)

\* What a chunk holds.
ChunkIs(w, d, chunk) ==
    /\ chunk # <<>>
    /\ chunk[1][1] \in files
    /\ Whole(chunk) \/ chunk[1][1] \in failed[w]
    /\ DirOf[chunk[1][1]] = d \/ LeftOver(w, d)

\* What has been parsed, and that it is not read again.
Chunks(w) ==
    \A d \in Directory :
        /\ \A i \in DOMAIN jsons[w][d] : ChunkIs(w, d, jsons[w][d][i])
        /\ \A i, j \in DOMAIN jsons[w][d] : i # j => jsons[w][d][i][1][1] # jsons[w][d][j][1][1]
        /\ pc[w] \in {"next", "fetch"} /\ d = Head(calls[w]) =>
              ParsedFiles(w, d) \cap infmt[w].file_sizes = {}

\* Nothing is empty or has failed.
Clean(w) == (\A f \in files : Size[f] # 0) /\ failed[w] = {}

\* Then no file is passed over, and the buffer has room.
NothingMissing(w) ==
    Clean(w) =>
        /\ pc[w] \in Loading \cup {"model"} =>
              \A d \in Directory \ Range(calls[w]) : FilesIn(d) \subseteq ParsedFiles(w, d)
        /\ pc[w] \in {"next", "fetch", "returned"} =>
              FilesIn(Head(calls[w])) \subseteq infmt[w].file_sizes \cup ParsedFiles(w, Head(calls[w]))
        /\ pc[w] \in {"next", "fetch"} =>
              \A f \in infmt[w].file_sizes : Size[f] <= infmt[w].max_size

LoadInv(w) ==
    /\ Typed(w)
    /\ NotYetListed(w)
    /\ LeftBehind(w)
    /\ Buffered(w)
    /\ Chunks(w)
    /\ NothingMissing(w)

-----------------------------------------------------------------------------
(***************************************************************************)
(* Operators.                                                              *)
(***************************************************************************)

\* The calls one after the other.
LEMMA CallFacts ==
    ASSUME NEW c \in CallOrders
    PROVE  /\ Range(c) \subseteq Directory
           /\ c # <<>> => /\ Head(c) \in Directory
                          /\ Tail(c) \in CallOrders
                          /\ Range(c) = {Head(c)} \cup Range(Tail(c))
                          /\ Head(c) \notin Range(Tail(c))
                          /\ (Len(c) = 1 <=> Tail(c) = <<>>)
                          /\ (Head(c) = "cube_desc" => Tail(c) # <<>>)
<1>1. CASE c = <<>>
  BY <1>1 DEF Range
<1>2. ASSUME NEW d, NEW e, c = <<d, e>>, d # e
      PROVE  /\ Head(c) = d /\ Tail(c) = <<e>> /\ Range(c) = {d, e} /\ Range(Tail(c)) = {e}
             /\ Len(c) # 1 /\ Tail(c) # <<>>
  BY <1>2 DEF Range
<1>3. ASSUME NEW d, c = <<d>>
      PROVE  /\ Head(c) = d /\ Tail(c) = <<>> /\ Range(c) = {d} /\ Range(Tail(c)) = {} /\ Len(c) = 1
  BY <1>3 DEF Range
<1>4. ASSUME NEW d, NEW e, NEW f, c = <<d, e, f>>, d # e, d # f
      PROVE  /\ Head(c) = d /\ Tail(c) = <<e, f>> /\ Range(c) = {d, e, f} /\ Range(Tail(c)) = {e, f}
             /\ Len(c) # 1 /\ Tail(c) # <<>>
  BY <1>4 DEF Range
<1>5. CASE c # <<>>
  BY <1>2, <1>3, <1>4, <1>5 DEF CallOrders, Directory
<1>6. QED
  BY <1>1, <1>5

\* The bytes of a file.
LEMMA BytesFacts ==
    ASSUME NEW f \in File, NEW a \in Nat, NEW b \in Nat, a <= b
    PROVE  /\ Bytes(f, a, b) \in Chunk
           /\ Len(Bytes(f, a, b)) = b - a
           /\ \A i \in 1 .. b - a : Bytes(f, a, b)[i] = <<f, a + i>>
<1>1. b - a \in Nat
  OBVIOUS
<1>2. Bytes(f, a, b) \in [1 .. b - a -> File \X Nat]
  BY DEF Bytes
<1>3. QED
  BY <1>1, <1>2 DEF Bytes, Chunk

\* The first bytes of a file.
LEMMA FirstBytes ==
    ASSUME NEW f \in File, NEW b \in Nat
    PROVE  /\ Bytes(f, 0, b) \in Chunk
           /\ Len(Bytes(f, 0, b)) = b
           /\ \A i \in 1 .. b : Bytes(f, 0, b)[i] = <<f, i>>
<1>1. 0 \in Nat /\ 0 <= b /\ b - 0 = b
  OBVIOUS
<1>2. /\ Bytes(f, 0, b) \in Chunk
      /\ Len(Bytes(f, 0, b)) = b
      /\ \A i \in 1 .. b : Bytes(f, 0, b)[i] = <<f, 0 + i>>
  <2> DEFINE n == b - 0
  <2>1. /\ Bytes(f, 0, b) \in Chunk
        /\ Len(Bytes(f, 0, b)) = n
        /\ \A i \in 1 .. n : Bytes(f, 0, b)[i] = <<f, 0 + i>>
    BY <1>1, BytesFacts
  <2>2. n = b
    OBVIOUS
  <2> HIDE DEF n
  <2>3. QED
    BY <2>1, <2>2
<1>3. ASSUME NEW i \in 1 .. b PROVE Bytes(f, 0, b)[i] = <<f, i>>
  <2>1. 0 + i = i
    OBVIOUS
  <2>2. QED
    BY <1>2, <2>1
<1>4. QED
  BY <1>2, <1>3

\* More bytes of a file.
LEMMA MoreBytes ==
    ASSUME NEW f \in File, NEW a \in Nat, NEW b \in Nat
    PROVE  Bytes(f, 0, a) \o Bytes(f, a, a + b) = Bytes(f, 0, a + b)
<1> DEFINE s == Bytes(f, 0, a)
           t == Bytes(f, a, a + b)
           u == Bytes(f, 0, a + b)
<1>1. /\ s \in Chunk /\ Len(s) = a /\ \A i \in 1 .. a : s[i] = <<f, i>>
  BY FirstBytes
<1>2. /\ t \in Chunk /\ Len(t) = b /\ \A i \in 1 .. b : t[i] = <<f, a + i>>
  <2>1. a + b \in Nat /\ a <= a + b /\ (a + b) - a = b
    OBVIOUS
  <2>2. QED
    BY <2>1, BytesFacts
<1>3. /\ u \in Chunk /\ Len(u) = a + b /\ \A i \in 1 .. a + b : u[i] = <<f, i>>
  <2>1. a + b \in Nat
    OBVIOUS
  <2>2. QED
    BY <2>1, FirstBytes
<1> HIDE DEF s, t, u
<1>4. /\ s \o t \in Seq(File \X Nat) /\ Len(s \o t) = a + b
      /\ \A i \in 1 .. a + b : (s \o t)[i] = IF i <= a THEN s[i] ELSE t[i - a]
  BY <1>1, <1>2, ConcatProperties DEF Chunk
<1>5. ASSUME NEW i \in 1 .. a + b PROVE (s \o t)[i] = u[i]
  <2>1. CASE i <= a
    <3>1. i \in 1 .. a
      BY <2>1
    <3>2. QED
      BY <1>1, <1>3, <1>4, <2>1, <3>1
  <2>2. CASE ~(i <= a)
    <3>1. i - a \in 1 .. b /\ a + (i - a) = i
      BY <2>2
    <3>2. QED
      BY <1>2, <1>3, <1>4, <2>2, <3>1
  <2>3. QED
    BY <2>1, <2>2
<1>6. s \o t = u
  BY <1>3, <1>4, <1>5, SeqEqual DEF Chunk
<1>7. QED
  BY <1>6 DEF s, t, u

-----------------------------------------------------------------------------
(***************************************************************************)
(* What keeps the invariant of a worker.                                   *)
(***************************************************************************)

\* A worker that does nothing.
LEMMA OthersKeep ==
    ASSUME NEW w \in Worker, LoadInv(w), files' = files, pc'[w] = pc[w], calls'[w] = calls[w],
           infmt'[w] = infmt[w], jsons'[w] = jsons[w], failed'[w] = failed[w]
    PROVE  LoadInv(w)'
<1>1. Typed(w)'
  BY DEF LoadInv, Typed
<1>2. NotYetListed(w)'
  BY DEF LoadInv, NotYetListed, ToList
<1>3. LeftBehind(w)'
  BY DEF LoadInv, LeftBehind, ToList, Ends
<1>4. Buffered(w)'
  BY DEF LoadInv, Buffered
<1>5. Chunks(w)'
  BY DEF LoadInv, Chunks, ChunkIs, ParsedFiles, LeftOver
<1>6. NothingMissing(w)'
  BY DEF LoadInv, NothingMissing, Clean, FilesIn, ParsedFiles
<1>7. QED
  BY <1>1, <1>2, <1>3, <1>4, <1>5, <1>6 DEF LoadInv

\* A worker that is done with the loads, or has ended its process.
LEMMA BehindTheLoads ==
    ASSUME NEW w \in Worker, LoadInv(w), files' = files, pc'[w] \in {"aborted", "columns", "rowkey", "ready"},
           calls'[w] = calls[w], infmt'[w] = infmt[w], jsons'[w] \in {jsons[w], NoJsons},
           failed'[w] = failed[w]
    PROVE  LoadInv(w)'
<1>1. pc'[w] \in Place /\ pc'[w] \notin Loading \cup {"model"}
  BY DEF Place, Loading
<1>2. NoJsons \in [Directory -> Seq(Chunk)]
  BY DEF NoJsons
<1>3. Typed(w)'
  BY <1>1, <1>2 DEF LoadInv, Typed
<1>4. NotYetListed(w)' /\ LeftBehind(w)' /\ Buffered(w)'
  BY <1>1 DEF NotYetListed, LeftBehind, Buffered, Loading
<1>5. Chunks(w)'
  <2>1. CASE jsons'[w] = jsons[w]
    BY <1>1, <2>1 DEF LoadInv, Chunks, ChunkIs, ParsedFiles, LeftOver, Loading
  <2>2. CASE jsons'[w] = NoJsons
    <3>1. \A d \in Directory : jsons'[w][d] = <<>> /\ DOMAIN jsons'[w][d] = {}
      BY <2>2 DEF NoJsons
    <3>2. QED
      BY <1>1, <3>1 DEF Chunks, Loading
  <2>3. QED
    BY <2>1, <2>2
<1>6. NothingMissing(w)'
  BY <1>1 DEF NothingMissing, Loading
<1>7. QED
  BY <1>3, <1>4, <1>5, <1>6 DEF LoadInv

\* What set_input does.
LEMMA SetInputKeeps ==
    ASSUME NEW w \in Worker, LoadInv(w), pc[w] = "set_input", files' = files, pc'[w] = "next",
           calls'[w] = calls[w], jsons'[w] = jsons[w],
           NEW found, infmt'[w] = Listed(w, found),
           \/ found = FilesIn(Head(calls[w])) /\ failed'[w] = failed[w]
           \/ found = {} /\ failed'[w] = failed[w] \cup {Head(calls[w])}
    PROVE  LoadInv(w)'
<1> DEFINE d == Head(calls[w])
           old == infmt[w].file_sizes
           sizes == {Size[f] : f \in found}
<1>1. /\ files \in SUBSET File /\ calls[w] \in CallOrders /\ calls[w] # <<>>
      /\ jsons[w] \in [Directory -> Seq(Chunk)] /\ old \in SUBSET files
      /\ infmt[w] \in [file_sizes : SUBSET files, max_size : Nat, file : File \cup {NoFile},
                       pos : Nat, data : Chunk]
  BY DEF LoadInv, Typed, Loading
<1>2. /\ d \in Directory /\ Range(calls[w]) = {d} \cup Range(Tail(calls[w]))
      /\ d \notin Range(Tail(calls[w])) /\ Range(calls[w]) \subseteq Directory
  BY <1>1, CallFacts
<1>3. /\ found \in SUBSET files /\ \A f \in found : DirOf[f] = d
      /\ failed[w] \subseteq failed'[w]
      /\ failed'[w] = {} => found = FilesIn(d) /\ failed[w] = {}
  BY DEF FilesIn
<1>4. \E n \in Nat : /\ infmt'[w] = [infmt[w] EXCEPT !.file_sizes = old \cup found, !.max_size = n, !.data = <<>>]
                     /\ \A f \in found : Size[f] <= n
  <2>1. IsFiniteSet(sizes)
    <3>1. IsFiniteSet(found)
      BY <1>1, <1>3, FS_Subset, FileAssumption
    <3> DEFINE size == [f \in found |-> Size[f]]
    <3>2. size \in Surjection(found, sizes)
      BY DEF Surjection
    <3>3. QED
      BY <3>1, <3>2, FS_Surjection
  <2>2. \A f \in found : Size[f] \in Nat
    BY <1>1, <1>3, FileAssumption
  <2>3. CASE found = {}
    BY <2>3 DEF Listed
  <2>4. CASE found # {}
    <3>1. sizes # {} /\ \A n \in sizes : n \in Nat
      BY <2>2, <2>4
    <3> DEFINE top == Max(sizes)
    <3> HIDE DEF sizes
    <3>2. top \in sizes /\ \A n \in sizes : n <= top
      BY <2>1, <3>1, MaxFacts
    <3>3. infmt'[w] = [infmt[w] EXCEPT !.file_sizes = old \cup found, !.max_size = top, !.data = <<>>]
      BY <2>4 DEF Listed, sizes
    <3> HIDE DEF top
    <3>4. \A f \in found : Size[f] <= top
      BY <3>2 DEF sizes
    <3>5. QED
      BY <3>1, <3>2, <3>3, <3>4
  <2>5. QED
    BY <2>3, <2>4
<1>5. PICK n \in Nat : /\ infmt'[w] = [infmt[w] EXCEPT !.file_sizes = old \cup found, !.max_size = n, !.data = <<>>]
                       /\ \A f \in found : Size[f] <= n
  BY <1>4
<1>6. infmt'[w].file_sizes = old \cup found /\ infmt'[w].max_size = n /\ <<>> \in Chunk
  BY <1>1, <1>5 DEF Chunk
<1> HIDE DEF sizes
<1>7. Typed(w)'
  <2>1. infmt'[w] \in [file_sizes : SUBSET files, max_size : Nat, file : File \cup {NoFile},
                       pos : Nat, data : Chunk]
    BY <1>1, <1>3, <1>5, <1>6
  <2>2. QED
    BY <1>1, <2>1 DEF Typed, Place, Loading
<1>8. \A e \in Range(calls[w]) : jsons[w][e] = <<>> /\ \A f \in old : DirOf[f] # e
  BY DEF LoadInv, NotYetListed, ToList, Loading
<1>9. NotYetListed(w)'
  BY <1>2, <1>3, <1>6, <1>8 DEF NotYetListed, ToList
<1>10. LeftBehind(w)'
  <2>1. old # {} => \E g \in files : DirOf[g] \notin Range(calls[w]) /\ Ends(w, g)
    BY DEF LoadInv, LeftBehind, ToList
  <2>2. \A g \in files : Ends(w, g) => Ends(w, g)'
    BY <1>3 DEF Ends
  <2>3. QED
    BY <1>3, <1>6, <2>1, <2>2 DEF LeftBehind
<1>11. Buffered(w)'
  BY DEF Buffered
<1>12. Chunks(w)'
  <2>1. \A e \in Directory : LeftOver(w, e) => LeftOver(w, e)'
    BY <1>3 DEF LeftOver
  <2>2. jsons[w][d] = <<>> /\ DOMAIN <<>> = {}
    BY <1>2, <1>8
  <2>3. ParsedFiles(w, d)' = {}
    BY <2>2 DEF ParsedFiles, ChunkFiles
  <2>4. QED
    BY <1>3, <2>1, <2>3 DEF LoadInv, Chunks, ChunkIs
<1>13. NothingMissing(w)'
  <2>1. SUFFICES ASSUME Clean(w)'
                 PROVE  /\ \A e \in Directory \ Range(calls[w]) : FilesIn(e) \subseteq ParsedFiles(w, e)
                        /\ FilesIn(d) \subseteq old \cup found
                        /\ \A f \in old \cup found : Size[f] <= n
    BY <1>6 DEF NothingMissing, FilesIn, ParsedFiles
  <2>2. Clean(w) /\ found = FilesIn(d)
    BY <1>3, <2>1 DEF Clean
  <2>3. old = {}
    BY <1>1, <2>2 DEF LoadInv, LeftBehind, Clean, Ends
  <2>4. \A e \in Directory \ Range(calls[w]) : FilesIn(e) \subseteq ParsedFiles(w, e)
    BY <2>2 DEF LoadInv, NothingMissing, Loading
  <2>5. QED
    BY <1>5, <2>2, <2>3, <2>4
<1>14. QED
  BY <1>7, <1>9, <1>10, <1>11, <1>12, <1>13 DEF LoadInv

\* What a step of next or fetch_file keeps that neither lists, nor parses, nor
\* ends the load.
LEMMA ReadingKeeps ==
    ASSUME NEW w \in Worker, LoadInv(w), pc[w] \in {"next", "fetch"}, files' = files, pc'[w] = "fetch",
           calls'[w] = calls[w], jsons'[w] = jsons[w], failed[w] \subseteq failed'[w],
           infmt'[w].file_sizes = infmt[w].file_sizes, infmt'[w].max_size = infmt[w].max_size,
           infmt'[w] \in [file_sizes : SUBSET files, max_size : Nat, file : File \cup {NoFile},
                          pos : Nat, data : Chunk],
           Buffered(w)'
    PROVE  LoadInv(w)'
<1>1. Typed(w)'
  BY DEF LoadInv, Typed, Place, Loading
<1>2. NotYetListed(w)'
  BY DEF LoadInv, NotYetListed, ToList, Loading
<1>3. LeftBehind(w)'
  <2>1. \A g \in files : Ends(w, g) => Ends(w, g)'
    BY DEF Ends
  <2>2. QED
    BY <2>1 DEF LoadInv, LeftBehind
<1>4. Chunks(w)'
  <2>1. \A e \in Directory : LeftOver(w, e) => LeftOver(w, e)'
    BY DEF LeftOver
  <2>2. QED
    BY <2>1 DEF LoadInv, Chunks, ChunkIs, ParsedFiles
<1>5. NothingMissing(w)'
  <2>1. SUFFICES ASSUME Clean(w)' PROVE NothingMissing(w)'
    BY DEF NothingMissing
  <2>2. Clean(w)
    BY <2>1 DEF Clean
  <2>3. QED
    BY <2>2 DEF LoadInv, NothingMissing, Loading, FilesIn, ParsedFiles
<1>6. QED
  BY <1>1, <1>2, <1>3, <1>4, <1>5 DEF LoadInv

\* What fetch_file does when it opens a file.
LEMMA OpenFileKeeps ==
    ASSUME NEW w \in Worker, LoadInv(w), w \in DOMAIN pc, w \in DOMAIN infmt,
           NEW f \in infmt[w].file_sizes, OpenFile(w, f)
    PROVE  LoadInv(w)'
<1> DEFINE none == <<>>
<1>1. /\ pc[w] = "next" /\ pc'[w] = "fetch" /\ files' = files /\ calls' = calls /\ jsons' = jsons
      /\ failed' = failed
      /\ infmt'[w] = [infmt[w] EXCEPT !.file = f, !.pos = 0, !.data = none]
  BY DEF OpenFile
<1>2. /\ infmt[w] \in [file_sizes : SUBSET files, max_size : Nat, file : File \cup {NoFile},
                       pos : Nat, data : Chunk]
      /\ f \in File /\ none \in Chunk /\ none = <<>>
  BY DEF LoadInv, Typed, Chunk
<1> HIDE DEF none
<1>3. /\ infmt'[w] \in [file_sizes : SUBSET files, max_size : Nat, file : File \cup {NoFile},
                        pos : Nat, data : Chunk]
      /\ infmt'[w].file_sizes = infmt[w].file_sizes /\ infmt'[w].max_size = infmt[w].max_size
      /\ infmt'[w].file = f /\ infmt'[w].pos = 0 /\ infmt'[w].data = none
  <2> DEFINE in == infmt[w]
             new == [in EXCEPT !.file = f, !.pos = 0, !.data = none]
  <2>1. infmt'[w] = new
    BY <1>1
  <2> DEFINE format == [file_sizes : SUBSET files, max_size : Nat, file : File \cup {NoFile},
                        pos : Nat, data : Chunk]
             first == [in EXCEPT !.file = f]
             second == [first EXCEPT !.pos = 0]
             third == [second EXCEPT !.data = none]
  <2>2. first \in format /\ first.file = f
        /\ first.file_sizes = in.file_sizes /\ first.max_size = in.max_size
    BY <1>2
  <2>3. new = third
    OBVIOUS
  <2> HIDE DEF new, in, first
  <2>4. second \in format /\ second.file = f /\ second.pos = 0
        /\ second.file_sizes = first.file_sizes /\ second.max_size = first.max_size
    BY <2>2
  <2> HIDE DEF second
  <2>5. third \in format /\ third.file = f /\ third.pos = 0 /\ third.data = none
        /\ third.file_sizes = second.file_sizes /\ third.max_size = second.max_size
    BY <1>2, <2>4
  <2> HIDE DEF third
  <2>6. QED
    BY <2>1, <2>2, <2>3, <2>4, <2>5 DEF in
<1>4. Bytes(f, 0, 0) = none
  BY <1>2, FirstBytes DEF Chunk
<1>5. Size[f] \in Nat
  BY <1>2, FileAssumption
<1>6. Buffered(w)'
  BY <1>2, <1>3, <1>4, <1>5 DEF Buffered
<1>7. QED
  BY <1>1, <1>3, <1>6, ReadingKeeps

\* What hdfsRead does when it gives some bytes.
LEMMA ReadKeeps ==
    ASSUME NEW w \in Worker, LoadInv(w), w \in DOMAIN pc, w \in DOMAIN infmt, pc[w] = "fetch",
           NEW n \in Nat, Read(w, n)
    PROVE  LoadInv(w)'
<1> DEFINE in == infmt[w]
<1>1. /\ in \in [file_sizes : SUBSET files, max_size : Nat, file : File \cup {NoFile},
                 pos : Nat, data : Chunk]
      /\ in.file \in in.file_sizes /\ in.pos <= Size[in.file]
      /\ in.data # <<>> => in.data[1][1] = in.file
      /\ in.file \notin failed[w] => in.data = Bytes(in.file, 0, in.pos)
      /\ files \in SUBSET File
  BY DEF LoadInv, Typed, Buffered
<1>2. in.file \in File /\ Size[in.file] \in Nat /\ in.pos \in Nat /\ in.data \in Chunk
  BY <1>1, FileAssumption
<1>3. CASE Abort(w) /\ files' = files
  <2>1. /\ pc'[w] = "aborted" /\ calls' = calls /\ infmt' = infmt /\ jsons' = jsons /\ failed' = failed
    BY <1>3 DEF Abort
  <2>2. QED
    BY <1>3, <2>1, BehindTheLoads
<1>4. CASE /\ infmt' = [infmt EXCEPT ![w].pos = @ + n,
                                     ![w].data = @ \o Bytes(in.file, in.pos, in.pos + n)]
           /\ UNCHANGED <<files, pc, calls, jsons, failed>>
           /\ n \in 1 .. Size[in.file] - in.pos
  <2> DEFINE more == Bytes(in.file, in.pos, in.pos + n)
  <2>1. infmt'[w] = [in EXCEPT !.pos = in.pos + n, !.data = in.data \o more]
    BY <1>4
  <2>2. /\ in.pos + n \in Nat /\ in.pos <= in.pos + n /\ n >= 1 /\ in.pos + n <= Size[in.file]
        /\ (in.pos + n) - in.pos = n
    BY <1>2, <1>4
  <2>3. more \in Chunk /\ Len(more) = n /\ more[1] = <<in.file, in.pos + 1>>
    <3>1. \A i \in 1 .. n : more[i] = <<in.file, in.pos + i>>
      BY <1>2, <2>2, BytesFacts
    <3>2. 1 \in 1 .. n
      BY <2>2
    <3>3. QED
      BY <1>2, <2>2, <3>1, <3>2, BytesFacts
  <2>4. /\ in.data \o more \in Chunk
        /\ in.data # <<>> => (in.data \o more)[1] = in.data[1]
        /\ in.data = <<>> => (in.data \o more)[1] = more[1]
    <3> HIDE DEF more, in
    <3>1. in.data \in Seq(File \X Nat) /\ more \in Seq(File \X Nat) /\ Len(more) >= 1
      BY <1>2, <2>2, <2>3 DEF Chunk
    <3>2. /\ in.data \o more \in Seq(File \X Nat)
          /\ \A i \in 1 .. Len(in.data) + Len(more) :
                (in.data \o more)[i] = IF i <= Len(in.data) THEN in.data[i] ELSE more[i - Len(in.data)]
      BY <3>1, ConcatProperties
    <3>3. /\ Len(in.data) \in Nat /\ (in.data # <<>> => Len(in.data) >= 1)
          /\ (in.data = <<>> => Len(in.data) = 0)
      BY <3>1
    <3>4. 1 \in 1 .. Len(in.data) + Len(more)
      BY <3>1, <3>3
    <3>5. QED
      BY <3>1, <3>2, <3>3, <3>4 DEF Chunk
  <2> HIDE DEF more
  <2>5. /\ infmt'[w] \in [file_sizes : SUBSET files, max_size : Nat, file : File \cup {NoFile},
                          pos : Nat, data : Chunk]
        /\ infmt'[w].file_sizes = in.file_sizes /\ infmt'[w].max_size = in.max_size
        /\ infmt'[w].file = in.file /\ infmt'[w].pos = in.pos + n /\ infmt'[w].data = in.data \o more
    BY <1>1, <2>1, <2>2, <2>4
  <2>6. in.file \notin failed[w] => in.data \o more = Bytes(in.file, 0, in.pos + n)
    <3>1. n \in Nat
      OBVIOUS
    <3>2. Bytes(in.file, 0, in.pos) \o more = Bytes(in.file, 0, in.pos + n)
      BY <1>2, <3>1, MoreBytes DEF more
    <3>3. QED
      BY <1>1, <3>2
  <2>7. (in.data \o more)[1][1] = in.file
    <3>1. CASE in.data = <<>>
      BY <2>3, <2>4, <3>1
    <3>2. CASE in.data # <<>>
      BY <1>1, <2>4, <3>2
    <3>3. QED
      BY <3>1, <3>2
  <2>8. Buffered(w)'
    <3> HIDE DEF in
    <3>1. failed' = failed /\ in.file \in in.file_sizes
      BY <1>1, <1>4
    <3>2. QED
      BY <2>2, <2>5, <2>6, <2>7, <3>1 DEF Buffered
  <2>9. QED
    BY <1>4, <2>5, <2>8, ReadingKeeps
<1>5. QED
  BY <1>3, <1>4 DEF Read

\* What hdfsRead does when it fails.
LEMMA ReadFailsKeeps ==
    ASSUME NEW w \in Worker, LoadInv(w), w \in DOMAIN pc, w \in DOMAIN infmt, w \in DOMAIN failed,
           ReadFails(w)
    PROVE  LoadInv(w)'
<1> DEFINE in == infmt[w]
<1>1. /\ in \in [file_sizes : SUBSET files, max_size : Nat, file : File \cup {NoFile},
                 pos : Nat, data : Chunk]
      /\ in.file \in in.file_sizes /\ in.pos <= Size[in.file]
      /\ in.data # <<>> => in.data[1][1] = in.file
      /\ pc[w] = "fetch" /\ files' = files
  BY DEF LoadInv, Typed, Buffered, ReadFails
<1>2. CASE in.data = <<>>
  <2>1. /\ pc'[w] = "aborted" /\ calls' = calls /\ infmt' = infmt /\ jsons' = jsons /\ failed' = failed
    BY <1>2 DEF ReadFails, Abort
  <2>2. QED
    BY <1>1, <2>1, BehindTheLoads
<1>3. CASE in.data # <<>>
  <2> DEFINE less == SubSeq(in.data, 1, Len(in.data) - 1)
  <2>1. /\ infmt'[w] = [in EXCEPT !.data = less]
        /\ failed'[w] = failed[w] \cup {in.file} /\ pc' = pc /\ calls' = calls /\ jsons' = jsons
    BY <1>3 DEF ReadFails, Fails
  <2>2. less \in Chunk /\ (less # <<>> => less[1] = in.data[1])
    <3> DEFINE data == in.data
    <3>1. data \in Seq(File \X Nat) /\ data # <<>>
      BY <1>1, <1>3 DEF Chunk
    <3> HIDE DEF data, in
    <3>2. SubSeq(data, 1, Len(data) - 1) \in Seq(File \X Nat)
      BY <3>1
    <3>3. SubSeq(data, 1, Len(data) - 1) # <<>> => SubSeq(data, 1, Len(data) - 1)[1] = data[1]
      BY <3>1
    <3>4. QED
      BY <3>2, <3>3 DEF Chunk, data
  <2> HIDE DEF less
  <2>3. /\ infmt'[w] \in [file_sizes : SUBSET files, max_size : Nat, file : File \cup {NoFile},
                          pos : Nat, data : Chunk]
        /\ infmt'[w].file_sizes = in.file_sizes /\ infmt'[w].max_size = in.max_size
        /\ infmt'[w].file = in.file /\ infmt'[w].pos = in.pos /\ infmt'[w].data = less
    BY <1>1, <2>1, <2>2
  <2>4. Buffered(w)'
    <3> HIDE DEF in
    <3>1. QED
      BY <1>1, <1>3, <2>1, <2>2, <2>3 DEF Buffered
  <2>5. QED
    BY <1>1, <2>1, <2>3, <2>4, ReadingKeeps
<1>4. QED
  BY <1>2, <1>3

\* A file that is read to its end without a failure is read whole.
LEMMA ReadToTheEnd ==
    ASSUME NEW w \in Worker, LoadInv(w), pc[w] = "fetch",
           \/ Len(infmt[w].data) >= Size[infmt[w].file]
           \/ infmt[w].pos = Size[infmt[w].file]
    PROVE  /\ infmt[w].file \in files
           /\ infmt[w].file \notin failed[w] => infmt[w].data = Content(infmt[w].file)
           /\ infmt[w].data = <<>> => Ends(w, infmt[w].file)
           /\ infmt[w].data # <<>> => infmt[w].data[1][1] = infmt[w].file
<1> DEFINE in == infmt[w]
           f == in.file
<1>1. /\ f \in files /\ f \in File /\ in.pos \in Nat /\ in.pos <= Size[f] /\ Size[f] \in Nat
      /\ in.data # <<>> => in.data[1][1] = f
      /\ f \notin failed[w] => in.data = Bytes(f, 0, in.pos)
  <2>1. /\ in \in [file_sizes : SUBSET files, max_size : Nat, file : File \cup {NoFile},
                   pos : Nat, data : Chunk]
        /\ f \in in.file_sizes /\ in.pos <= Size[f] /\ files \in SUBSET File
        /\ in.data # <<>> => in.data[1][1] = f
        /\ f \notin failed[w] => in.data = Bytes(f, 0, in.pos)
    BY DEF LoadInv, Typed, Buffered
  <2>2. f \in files /\ f \in File
    BY <2>1
  <2>3. QED
    BY <2>1, <2>2, FileAssumption
<1>2. Len(in.data) >= Size[f] \/ in.pos = Size[f]
  OBVIOUS
<1> HIDE DEF f, in
<1>3. ASSUME f \notin failed[w] PROVE in.pos = Size[f]
  <2>1. Len(in.data) = in.pos
    BY <1>1, <1>3, FirstBytes
  <2>2. QED
    BY <1>1, <1>2, <2>1
<1>4. f \notin failed[w] => in.data = Content(f)
  BY <1>1, <1>3 DEF Content
<1>5. f \notin failed[w] /\ in.data = <<>> => Size[f] = 0
  <2>1. Len(Content(f)) = Size[f]
    BY <1>1, FirstBytes DEF Content
  <2>2. Len(<<>>) = 0
    OBVIOUS
  <2>3. QED
    BY <1>4, <2>1, <2>2
<1>6. QED
  BY <1>1, <1>4, <1>5 DEF Ends, f, in

\* next returns false.
LEMMA EmptyKeeps ==
    ASSUME NEW w \in Worker, LoadInv(w), pc[w] = "fetch", files' = files, pc'[w] = "returned",
           calls'[w] = calls[w], jsons'[w] = jsons[w], failed'[w] = failed[w],
           infmt'[w].file_sizes \subseteq infmt[w].file_sizes,
           infmt'[w] \in [file_sizes : SUBSET files, max_size : Nat, file : File \cup {NoFile},
                          pos : Nat, data : Chunk],
           Ends(w, infmt[w].file)
    PROVE  LoadInv(w)'
<1> DEFINE f == infmt[w].file
<1>1. Typed(w)'
  BY DEF LoadInv, Typed, Place, Loading
<1>2. \A e \in Range(Tail(calls[w])) : jsons[w][e] = <<>> /\ \A g \in infmt[w].file_sizes : DirOf[g] # e
  BY DEF LoadInv, NotYetListed, ToList, Loading
<1>3. NotYetListed(w)'
  BY <1>2 DEF NotYetListed, ToList
<1>4. f \in infmt[w].file_sizes /\ f \in files
  BY DEF LoadInv, Buffered, Typed
<1>5. LeftBehind(w)'
  BY <1>2, <1>4 DEF LeftBehind, ToList, Ends
<1>6. Buffered(w)'
  BY DEF Buffered
<1>7. Chunks(w)'
  BY DEF LoadInv, Chunks, ChunkIs, ParsedFiles, LeftOver
<1>8. NothingMissing(w)'
  BY <1>4 DEF NothingMissing, Clean, Ends
<1>9. QED
  BY <1>1, <1>3, <1>5, <1>6, <1>7, <1>8 DEF LoadInv

\* next returns a chunk, and parse_json takes it.
LEMMA ParseKeeps ==
    ASSUME NEW w \in Worker, LoadInv(w), pc[w] = "fetch", files' = files, pc'[w] = "next",
           calls'[w] = calls[w], failed'[w] = failed[w],
           infmt'[w].file_sizes = infmt[w].file_sizes \ {infmt[w].file},
           infmt'[w].max_size = infmt[w].max_size,
           infmt'[w] \in [file_sizes : SUBSET files, max_size : Nat, file : File \cup {NoFile},
                          pos : Nat, data : Chunk],
           NEW data, data = infmt[w].data, data # <<>>,
           Whole(data) \/ infmt[w].file \in failed[w],
           data[1][1] = infmt[w].file,
           jsons'[w] = [jsons[w] EXCEPT ![Head(calls[w])] = Append(@, data)]
    PROVE  LoadInv(w)'
<1> DEFINE d == Head(calls[w])
           f == infmt[w].file
           old == jsons[w][d]
           new == Append(old, data)
<1>1. /\ calls[w] \in CallOrders /\ calls[w] # <<>> /\ files \in SUBSET File
      /\ jsons[w] \in [Directory -> Seq(Chunk)] /\ data \in Chunk
      /\ f \in infmt[w].file_sizes /\ f \in files
  <2>1. /\ infmt[w] \in [file_sizes : SUBSET files, max_size : Nat, file : File \cup {NoFile},
                         pos : Nat, data : Chunk]
        /\ f \in infmt[w].file_sizes
    BY DEF LoadInv, Typed, Buffered
  <2>2. QED
    BY <2>1 DEF LoadInv, Typed, Loading
<1>2. /\ d \in Directory /\ Range(calls[w]) = {d} \cup Range(Tail(calls[w]))
      /\ d \notin Range(Tail(calls[w])) /\ Range(calls[w]) \subseteq Directory
  BY <1>1, CallFacts
<1>3. /\ old \in Seq(Chunk) /\ new \in Seq(Chunk)
      /\ DOMAIN new = DOMAIN old \cup {Len(old) + 1} /\ Len(old) + 1 \notin DOMAIN old
      /\ new[Len(old) + 1] = data /\ \A i \in DOMAIN old : new[i] = old[i]
  BY <1>1, <1>2
<1>4. jsons'[w][d] = new /\ \A e \in Directory : e # d => jsons'[w][e] = jsons[w][e]
  BY <1>1, <1>2
<1>5. jsons'[w] \in [Directory -> Seq(Chunk)]
  BY <1>1, <1>2, <1>3
<1> DEFINE last == Len(old) + 1
<1> HIDE DEF old, new, last
<1>6. Typed(w)'
  BY <1>5 DEF LoadInv, Typed, Place, Loading
<1>7. NotYetListed(w)'
  BY <1>2, <1>4 DEF LoadInv, NotYetListed, ToList, Loading
<1>8. LeftBehind(w)'
  BY DEF LoadInv, LeftBehind, Ends
<1>9. Buffered(w)'
  BY DEF Buffered
<1> DEFINE parsed == ChunkFiles(new)
<1>10. parsed = ParsedFiles(w, d) \cup {f}
  <2>1. ASSUME NEW x \in parsed PROVE x \in ParsedFiles(w, d) \cup {f}
    <3>1. PICK i \in DOMAIN new : x = new[i][1][1]
      BY DEF ChunkFiles
    <3>2. CASE i \in DOMAIN old
      BY <1>3, <3>1, <3>2 DEF ParsedFiles, ChunkFiles, old
    <3>3. CASE i \notin DOMAIN old
      BY <1>3, <3>1, <3>3
    <3>4. QED
      BY <3>2, <3>3
  <2>2. f \in parsed
    BY <1>3 DEF ChunkFiles
  <2>3. ASSUME NEW x \in ParsedFiles(w, d) PROVE x \in parsed
    <3>1. PICK i \in DOMAIN old : x = old[i][1][1]
      BY DEF ParsedFiles, ChunkFiles, old
    <3>2. QED
      BY <1>3, <3>1 DEF ChunkFiles
  <2> HIDE DEF parsed, f
  <2>4. QED
    BY <2>1, <2>2, <2>3
<1>11. ChunkIs(w, d, data)
  <2>1. DirOf[f] = d \/ \E g \in files : DirOf[g] \notin Range(calls[w]) /\ Ends(w, g)
    BY <1>1 DEF LoadInv, LeftBehind
  <2>2. DirOf[f] = d \/ LeftOver(w, d)
    BY <1>2, <2>1 DEF LeftOver, Ends
  <2>3. QED
    BY <1>1, <2>2 DEF ChunkIs
<1>12. ParsedFiles(w, d) \cap infmt[w].file_sizes = {}
  BY <1>2 DEF LoadInv, Chunks
<1>13. Chunks(w)'
  <2>1. ASSUME NEW i \in DOMAIN new PROVE ChunkIs(w, d, new[i])
    <3>1. \A k \in DOMAIN old : ChunkIs(w, d, old[k])
      BY <1>2 DEF LoadInv, Chunks, old
    <3>2. QED
      BY <1>3, <1>11, <3>1
  <2>2. ASSUME NEW i \in DOMAIN new, NEW j \in DOMAIN new, i # j
        PROVE  new[i][1][1] # new[j][1][1]
    <3>1. \A k \in DOMAIN old : old[k][1][1] # f
      BY <1>1, <1>12 DEF ParsedFiles, ChunkFiles, old
    <3>2. CASE i \in DOMAIN old /\ j \in DOMAIN old
      <4>1. \A k, l \in DOMAIN old : k # l => old[k][1][1] # old[l][1][1]
        BY <1>2 DEF LoadInv, Chunks, old
      <4>2. QED
        BY <1>3, <2>2, <3>2, <4>1
    <3>3. CASE i \notin DOMAIN old \/ j \notin DOMAIN old
      BY <1>3, <2>2, <3>1, <3>3
    <3>4. QED
      BY <3>2, <3>3
  <2>3. parsed \cap infmt'[w].file_sizes = {}
    BY <1>10, <1>12
  <2>4. ASSUME NEW e \in Directory
        PROVE  /\ \A i \in DOMAIN jsons'[w][e] : ChunkIs(w, e, jsons'[w][e][i])
               /\ \A i, j \in DOMAIN jsons'[w][e] : i # j => jsons'[w][e][i][1][1] # jsons'[w][e][j][1][1]
               /\ e = d => ChunkFiles(jsons'[w][e]) \cap infmt'[w].file_sizes = {}
    <3>1. CASE e = d
      BY <1>4, <2>1, <2>2, <2>3, <3>1
    <3>2. CASE e # d
      BY <1>4, <3>2 DEF LoadInv, Chunks
    <3>3. QED
      BY <3>1, <3>2
  <2>5. \A e \in Directory : LeftOver(w, e)' <=> LeftOver(w, e)
    BY DEF LeftOver
  <2>6. \A e \in Directory : \A i \in DOMAIN jsons'[w][e] :
            ChunkIs(w, e, jsons'[w][e][i]) => ChunkIs(w, e, jsons[w][e][i])'
    BY <2>5 DEF ChunkIs
  <2>7. \A e \in Directory : e = Head(calls'[w]) <=> e = d
    OBVIOUS
  <2> HIDE DEF d
  <2>8. QED
    BY <2>4, <2>6, <2>7 DEF Chunks, ParsedFiles
<1>14. NothingMissing(w)'
  <2>1. ASSUME Clean(w)
        PROVE  /\ \A e \in Directory \ Range(calls[w]) :
                     FilesIn(e) \subseteq ChunkFiles(jsons'[w][e])
               /\ FilesIn(d) \subseteq infmt'[w].file_sizes
                                        \cup ChunkFiles(jsons'[w][d])
               /\ \A g \in infmt'[w].file_sizes : Size[g] <= infmt[w].max_size
    <3>1. /\ \A e \in Directory \ Range(calls[w]) : FilesIn(e) \subseteq ParsedFiles(w, e)
          /\ FilesIn(d) \subseteq infmt[w].file_sizes \cup ParsedFiles(w, d)
          /\ \A g \in infmt[w].file_sizes : Size[g] <= infmt[w].max_size
      BY <2>1 DEF LoadInv, NothingMissing, Loading
    <3>2. \A e \in Directory \ Range(calls[w]) : jsons'[w][e] = jsons[w][e]
      BY <1>2, <1>4
    <3>3. FilesIn(d) \subseteq infmt'[w].file_sizes \cup parsed
      BY <1>10, <3>1
    <3>4. ChunkFiles(jsons'[w][d]) = parsed
      BY <1>4
    <3>5. QED
      BY <3>1, <3>2, <3>3, <3>4 DEF ParsedFiles
  <2>2. Clean(w)' <=> Clean(w)
    BY DEF Clean
  <2>3. \A e : FilesIn(e)' = FilesIn(e)
    BY DEF FilesIn
  <2>4. QED
    BY <2>1, <2>2, <2>3 DEF NothingMissing, ParsedFiles
<1>15. QED
  BY <1>6, <1>7, <1>8, <1>9, <1>13, <1>14 DEF LoadInv

\* The variables are maps of the workers.
Maps ==
    /\ DOMAIN pc = Worker /\ DOMAIN calls = Worker /\ DOMAIN infmt = Worker
    /\ DOMAIN jsons = Worker /\ DOMAIN failed = Worker
    /\ DOMAIN desc = Worker /\ DOMAIN model = Worker

\* A step of a load.
LEMMA LoadKeeps ==
    ASSUME NEW w \in Worker, LoadInv(w), Maps, GetJson(w)
    PROVE  LoadInv(w)'
<1> USE DEF Maps
<1>1. CASE SetInput(w)
  <2>1. /\ pc[w] = "set_input" /\ pc'[w] = "next" /\ files' = files /\ calls' = calls /\ jsons' = jsons
    BY <1>1 DEF SetInput
  <2>2. CASE infmt' = [infmt EXCEPT ![w] = Listed(w, FilesIn(Head(calls[w])))] /\ UNCHANGED failed
    <3>1. infmt'[w] = Listed(w, FilesIn(Head(calls[w]))) /\ failed'[w] = failed[w]
      BY <2>2
    <3>2. QED
      BY <2>1, <3>1, SetInputKeeps
  <2>3. CASE infmt' = [infmt EXCEPT ![w] = Listed(w, {})] /\ Fails(w, Head(calls[w]))
    <3>1. infmt'[w] = Listed(w, {}) /\ failed'[w] = failed[w] \cup {Head(calls[w])}
      BY <2>3 DEF Fails
    <3>2. QED
      BY <2>1, <3>1, SetInputKeeps
  <2>4. QED
    BY <1>1, <2>2, <2>3 DEF SetInput
<1>2. CASE NoFileLeft(w)
  <2>1. /\ pc[w] = "next" /\ pc'[w] = "returned" /\ infmt[w].file_sizes = {} /\ infmt' = infmt
        /\ files' = files /\ calls' = calls /\ jsons' = jsons /\ failed' = failed
    BY <1>2 DEF NoFileLeft
  <2>2. Typed(w)'
    BY <2>1 DEF LoadInv, Typed, Place, Loading
  <2>3. NotYetListed(w)'
    BY <2>1 DEF LoadInv, NotYetListed, ToList, Loading
  <2>4. LeftBehind(w)' /\ Buffered(w)'
    BY <2>1 DEF LeftBehind, Buffered
  <2>5. Chunks(w)'
    BY <2>1 DEF LoadInv, Chunks, ChunkIs, ParsedFiles, LeftOver
  <2>6. NothingMissing(w)'
    BY <2>1 DEF LoadInv, NothingMissing, Clean, Loading, FilesIn, ParsedFiles
  <2>7. QED
    BY <2>2, <2>3, <2>4, <2>5, <2>6 DEF LoadInv
<1>3. ASSUME NEW f \in infmt[w].file_sizes, OpenFile(w, f) PROVE LoadInv(w)'
  BY <1>3, OpenFileKeeps
<1>4. CASE OpenFails(w)
  <2>1. /\ pc'[w] = "aborted" /\ files' = files /\ calls' = calls /\ infmt' = infmt /\ jsons' = jsons
        /\ failed' = failed
    BY <1>4 DEF OpenFails, Abort
  <2>2. QED
    BY <2>1, BehindTheLoads
<1>5. ASSUME pc[w] = "fetch", NEW n \in 1 .. Size[infmt[w].file], Read(w, n) PROVE LoadInv(w)'
  <2>1. n \in Nat
    OBVIOUS
  <2>2. QED
    BY <1>5, <2>1, ReadKeeps
<1>6. CASE ReadFails(w)
  BY <1>6, ReadFailsKeeps
<1>7. CASE Fetched(w)
  <2> DEFINE in == infmt[w]
  <2>1. /\ pc[w] = "fetch" /\ files' = files
        /\ Len(in.data) >= Size[in.file] \/ in.pos = Size[in.file]
    BY <1>7 DEF Fetched
  <2>2. CASE Abort(w)
    <3>1. /\ pc'[w] = "aborted" /\ calls' = calls /\ infmt' = infmt /\ jsons' = jsons /\ failed' = failed
      BY <2>2 DEF Abort
    <3>2. QED
      BY <2>1, <3>1, BehindTheLoads
  <2>3. CASE infmt' = [infmt EXCEPT ![w] = Erased(w)] /\ UNCHANGED <<calls, failed>>
    <3>1. infmt'[w] = [in EXCEPT !.file_sizes = @ \ {in.file}, !.file = NoFile, !.pos = 0, !.data = <<>>]
      BY <2>3 DEF Erased
    <3>2. /\ infmt'[w] \in [file_sizes : SUBSET files, max_size : Nat, file : File \cup {NoFile},
                            pos : Nat, data : Chunk]
          /\ infmt'[w].file_sizes = in.file_sizes \ {in.file}
          /\ infmt'[w].max_size = in.max_size
      <4> DEFINE none == <<>>
                 format == [file_sizes : SUBSET files, max_size : Nat, file : File \cup {NoFile},
                            pos : Nat, data : Chunk]
                 first == [in EXCEPT !.file_sizes = @ \ {in.file}]
                 second == [first EXCEPT !.file = NoFile]
                 third == [second EXCEPT !.pos = 0]
                 fourth == [third EXCEPT !.data = none]
      <4>1. in \in format /\ none \in Chunk
        BY DEF LoadInv, Typed, Chunk
      <4>2. first \in format /\ first.file_sizes = in.file_sizes \ {in.file} /\ first.max_size = in.max_size
        <5> HIDE DEF none, in
        <5>1. in.file_sizes \ {in.file} \in SUBSET files
          BY <4>1
        <5>2. QED
          BY <4>1, <5>1
      <4>3. infmt'[w] = fourth
        BY <3>1
      <4> HIDE DEF in, none, first
      <4>4. second \in format /\ second.file_sizes = first.file_sizes /\ second.max_size = first.max_size
        BY <4>2
      <4> HIDE DEF second
      <4>5. third \in format /\ third.file_sizes = second.file_sizes /\ third.max_size = second.max_size
        BY <4>4
      <4> HIDE DEF third
      <4>6. fourth \in format /\ fourth.file_sizes = third.file_sizes /\ fourth.max_size = third.max_size
        BY <4>1, <4>5
      <4>7. QED
        BY <4>2, <4>3, <4>4, <4>5, <4>6
    <3>3. CASE in.data = <<>>
      <4>1. pc'[w] = "returned" /\ jsons' = jsons
        BY <1>7, <2>2, <3>3 DEF Fetched, Abort
      <4>2. Ends(w, in.file)
        BY <2>1, <3>3, ReadToTheEnd
      <4>3. QED
        BY <2>1, <2>3, <3>2, <4>1, <4>2, EmptyKeeps
    <3>4. CASE in.data # <<>> /\ ~Abort(w)
      <4>1. /\ pc'[w] = "next"
            /\ jsons' = [jsons EXCEPT ![w][Head(calls[w])] = Append(@, in.data)]
        BY <1>7, <3>4 DEF Fetched
      <4>2. jsons'[w] = [jsons[w] EXCEPT ![Head(calls[w])] = Append(@, in.data)]
        BY <4>1
      <4>3. /\ in.data[1][1] = in.file
            /\ in.file \notin failed[w] => in.data = Content(in.file)
        BY <2>1, <3>4, ReadToTheEnd
      <4>4. Whole(in.data) \/ in.file \in failed[w]
        BY <4>3 DEF Whole
      <4>5. QED
        BY <2>1, <2>3, <3>2, <3>4, <4>1, <4>2, <4>3, <4>4, ParseKeeps
    <3>5. QED
      BY <2>2, <3>3, <3>4
  <2>4. QED
    BY <1>7, <2>2, <2>3 DEF Fetched
<1>8. QED
  BY <1>1, <1>2, <1>3, <1>4, <1>5, <1>6, <1>7 DEF GetJson

\* From one load to the next.
LEMMA UseJsonKeeps ==
    ASSUME NEW w \in Worker, LoadInv(w), Maps, UseJson(w)
    PROVE  LoadInv(w)'
<1>1. /\ pc[w] = "returned" /\ calls'[w] = Tail(calls[w]) /\ files' = files /\ infmt' = infmt
      /\ jsons' = jsons /\ failed' = failed
  BY DEF UseJson, Maps
<1>2. calls[w] \in CallOrders /\ calls[w] # <<>>
  BY <1>1 DEF LoadInv, Typed, Loading
<1>3. /\ Tail(calls[w]) \in CallOrders
      /\ Range(calls[w]) = {Head(calls[w])} \cup Range(Tail(calls[w]))
      /\ Len(calls[w]) = 1 <=> Tail(calls[w]) = <<>>
  BY <1>2, CallFacts
<1>4. Head(calls[w]) = "cube_desc" => Tail(calls[w]) # <<>>
  BY <1>2, CallFacts
<1>5. /\ pc'[w] \in {"aborted", "model", "set_input"}
      /\ pc'[w] = "model" => Tail(calls[w]) = <<>>
      /\ pc'[w] = "set_input" => Tail(calls[w]) # <<>>
  <2>1. CASE Head(calls[w]) # "cube_desc"
    <3>1. pc'[w] = IF Len(calls[w]) = 1 THEN "model" ELSE "set_input"
      BY <2>1 DEF UseJson, Maps
    <3>2. QED
      BY <1>3, <3>1
  <2>2. CASE Head(calls[w]) = "cube_desc"
    <3>1. pc'[w] \in {"aborted", "set_input"}
      BY <2>2 DEF UseJson, Maps
    <3>2. QED
      BY <1>4, <2>2, <3>1
  <2>3. QED
    BY <2>1, <2>2
<1>6. Typed(w)'
  BY <1>1, <1>3, <1>5 DEF LoadInv, Typed, Place, Loading
<1>7. NotYetListed(w)'
  BY <1>1, <1>5 DEF LoadInv, NotYetListed, ToList, Loading
<1>8. LeftBehind(w)'
  BY <1>1, <1>5 DEF LoadInv, LeftBehind, ToList, Ends
<1>9. Buffered(w)'
  BY <1>5 DEF Buffered
<1>10. Chunks(w)'
  BY <1>1, <1>5 DEF LoadInv, Chunks, ChunkIs, LeftOver
<1>11. NothingMissing(w)'
  <2>1. ASSUME Clean(w), NEW d \in Directory \ Range(Tail(calls[w]))
        PROVE  FilesIn(d) \subseteq ParsedFiles(w, d)
    <3>1. infmt[w].file_sizes = {}
      BY <1>1, <2>1 DEF LoadInv, LeftBehind, Clean, Ends
    <3>2. QED
      BY <1>1, <1>3, <2>1, <3>1 DEF LoadInv, NothingMissing, Loading
  <2>2. QED
    BY <1>1, <1>5, <2>1 DEF NothingMissing, Clean, FilesIn, ParsedFiles
<1>12. QED
  BY <1>6, <1>7, <1>8, <1>9, <1>10, <1>11 DEF LoadInv

\* What a step of one worker leaves alone.
LEMMA OneActs ==
    ASSUME NEW w \in Worker, Maps, SetupStep(w)
    PROVE  /\ Maps' /\ files' = files
           /\ \A v \in Worker \ {w} :
                 /\ pc'[v] = pc[v] /\ calls'[v] = calls[v] /\ infmt'[v] = infmt[v]
                 /\ jsons'[v] = jsons[v] /\ failed'[v] = failed[v]
                 /\ desc'[v] = desc[v] /\ model'[v] = model[v]
<1> USE DEF Maps
<1>1. CASE Load(w)
  <2>1. desc' = desc /\ model' = model
    BY <1>1 DEF Load
  <2>2. /\ files' = files
        /\ DOMAIN pc' = Worker /\ DOMAIN calls' = Worker /\ DOMAIN infmt' = Worker
        /\ DOMAIN jsons' = Worker /\ DOMAIN failed' = Worker
        /\ \A v \in Worker \ {w} :
                 /\ pc'[v] = pc[v] /\ calls'[v] = calls[v] /\ infmt'[v] = infmt[v]
                 /\ jsons'[v] = jsons[v] /\ failed'[v] = failed[v]
    <3>1. CASE SetInput(w)
      BY <3>1 DEF SetInput, Fails
    <3>2. CASE NoFileLeft(w)
      BY <3>2 DEF NoFileLeft
    <3>3. ASSUME NEW f, OpenFile(w, f) PROVE <2>2!:
      BY <3>3 DEF OpenFile
    <3>4. CASE OpenFails(w)
      BY <3>4 DEF OpenFails, Abort
    <3>5. ASSUME NEW n, Read(w, n) PROVE <2>2!:
      BY <3>5 DEF Read, Abort
    <3>6. CASE ReadFails(w)
      BY <3>6 DEF ReadFails, Abort, Fails
    <3>7. CASE Fetched(w)
      BY <3>7 DEF Fetched, Abort
    <3>8. QED
      BY <1>1, <3>1, <3>2, <3>3, <3>4, <3>5, <3>6, <3>7 DEF Load, GetJson
  <2>3. QED
    BY <2>1, <2>2
<1>2. CASE UseJson(w)
  BY <1>2 DEF UseJson
<1>3. CASE InitModel(w)
  BY <1>3 DEF InitModel, Goto
<1>4. CASE InitColumns(w)
  BY <1>4 DEF InitColumns, Goto
<1>5. CASE InitRowKey(w)
  BY <1>5 DEF InitRowKey, Goto
<1>6. QED
  BY <1>1, <1>2, <1>3, <1>4, <1>5 DEF SetupStep

\* What any step of a worker does to its loads.
LEMMA StepKeeps ==
    ASSUME NEW w \in Worker, LoadInv(w), Maps, SetupStep(w)
    PROVE  LoadInv(w)'
<1>1. CASE Load(w)
  BY <1>1, LoadKeeps DEF Load
<1>2. CASE UseJson(w)
  BY <1>2, UseJsonKeeps
<1>3. CASE InitModel(w)
  <2>1. /\ pc'[w] \in {"aborted", "columns"} /\ files' = files /\ calls' = calls /\ infmt' = infmt
        /\ failed' = failed /\ jsons'[w] = NoJsons
    BY <1>3 DEF InitModel, Goto, Maps
  <2>2. QED
    BY <2>1, BehindTheLoads
<1>4. CASE InitColumns(w)
  <2>1. /\ pc'[w] \in {"aborted", "rowkey"} /\ files' = files /\ calls' = calls /\ infmt' = infmt
        /\ failed' = failed /\ jsons' = jsons
    BY <1>4 DEF InitColumns, Goto, Maps
  <2>2. QED
    BY <2>1, BehindTheLoads
<1>5. CASE InitRowKey(w)
  <2>1. /\ pc'[w] \in {"aborted", "ready"} /\ files' = files /\ calls' = calls /\ infmt' = infmt
        /\ failed' = failed /\ jsons' = jsons
    BY <1>5 DEF InitRowKey, Goto, Maps
  <2>2. QED
    BY <2>1, BehindTheLoads
<1>6. QED
  BY <1>1, <1>2, <1>3, <1>4, <1>5 DEF SetupStep

\* The inductive invariant of the loads.
LoadsInv == Maps /\ \A w \in Worker : LoadInv(w)

\* The inductive invariant of the loads: what is in a worker's map, buffer and
\* chunks, and what put it there, for any files, failures and workers.
THEOREM LoadsInvariance == Spec => []LoadsInv
<1>1. Init => LoadsInv
  <2> SUFFICES ASSUME Init PROVE LoadsInv
    OBVIOUS
  <2>1. Maps
    BY DEF Init, MetaInit, Maps
  <2>2. ASSUME NEW w \in Worker PROVE LoadInv(w)
    <3>1. /\ files \in SUBSET File /\ pc[w] = "set_input" /\ calls[w] \in CallOrders /\ calls[w] # <<>>
          /\ jsons[w] = NoJsons /\ failed[w] = {}
      <4>1. calls[w] \in {<<"cube_desc", "model_desc", "table">>, <<"cube_desc", "table", "model_desc">>}
        BY DEF Init, MetaInit
      <4>2. calls[w] \in CallOrders /\ calls[w] # <<>>
        BY <4>1 DEF CallOrders
      <4>3. QED
        BY <4>2, FileAssumption DEF Init, MetaInit
    <3>2. /\ infmt[w] = [file_sizes |-> {}, max_size |-> 0, file |-> NoFile, pos |-> 0, data |-> <<>>]
          /\ <<>> \in Chunk
      BY DEF Init, MetaInit, Chunk
    <3>3. /\ NoJsons \in [Directory -> Seq(Chunk)] /\ \A d \in Directory : NoJsons[d] = <<>>
      BY DEF NoJsons
    <3>4. infmt[w].file_sizes = {} /\ DOMAIN <<>> = {}
      BY <3>2
    <3>5. Typed(w)
      BY <3>1, <3>2, <3>3 DEF Typed, Place, Loading
    <3>6. Range(calls[w]) = Directory
      <4>1. calls[w] \in {<<"cube_desc", "model_desc", "table">>, <<"cube_desc", "table", "model_desc">>}
        BY DEF Init, MetaInit
      <4>2. QED
        BY <4>1 DEF Range, Directory
    <3>7. NotYetListed(w) /\ LeftBehind(w) /\ Buffered(w)
      BY <3>1, <3>3, <3>4, <3>6 DEF NotYetListed, LeftBehind, Buffered, ToList
    <3>8. Chunks(w)
      BY <3>1, <3>3, <3>4 DEF Chunks
    <3>9. NothingMissing(w)
      BY <3>1, <3>6 DEF NothingMissing
    <3>10. QED
      BY <3>5, <3>7, <3>8, <3>9 DEF LoadInv
  <2>3. QED
    BY <2>1, <2>2 DEF LoadsInv
<1>2. LoadsInv /\ [Next]_vars => LoadsInv'
  <2> SUFFICES ASSUME LoadsInv, [Next]_vars PROVE LoadsInv'
    OBVIOUS
  <2>1. ASSUME NEW w \in Worker, SetupStep(w) PROVE LoadsInv'
    <3>1. LoadInv(w)'
      BY <2>1, StepKeeps DEF LoadsInv
    <3>2. ASSUME NEW v \in Worker \ {w} PROVE LoadInv(v)'
      <4>1. Maps /\ LoadInv(v)
        BY DEF LoadsInv
      <4>2. QED
        BY <2>1, <4>1, OneActs, OthersKeep
    <3>3. Maps'
      BY <2>1, OneActs DEF LoadsInv
    <3>4. QED
      BY <3>1, <3>2, <3>3 DEF LoadsInv
  <2>2. CASE UNCHANGED vars
    <3>1. \A v \in Worker : LoadInv(v)'
      BY <2>2, OthersKeep DEF LoadsInv, vars, metaVars
    <3>2. QED
      BY <2>2, <3>1 DEF LoadsInv, Maps, vars, metaVars
  <2>3. QED
    BY <2>1, <2>2 DEF Next
<1>3. QED
  BY <1>1, <1>2, PTL DEF Spec

\* Each load parses the files of its own directory, whole and once, except for
\* what an empty or failed file of another directory left behind: for any files,
\* workers and failures.
THEOREM LoadsParseTheirFiles == Spec => []ParsesItsFiles
<1>1. LoadsInv => ParsesItsFiles
  <2> SUFFICES ASSUME LoadsInv, NEW w \in Worker, NEW d \in Directory
               PROVE  /\ \A i \in DOMAIN jsons[w][d] :
                            LET f == jsons[w][d][i][1][1]
                            IN  /\ Whole(jsons[w][d][i]) \/ f \in failed[w]
                                /\ DirOf[f] = d \/ LeftOver(w, d)
                      /\ \A i, j \in DOMAIN jsons[w][d] :
                            i # j => jsons[w][d][i][1][1] # jsons[w][d][j][1][1]
    BY DEF ParsesItsFiles
  <2>1. Chunks(w)
    BY DEF LoadsInv, LoadInv
  <2>2. QED
    BY <2>1 DEF Chunks, ChunkIs
<1>2. QED
  BY <1>1, LoadsInvariance, PTL

\* Without empty files and failures a load holds what its directory holds.
LEMMA ParsedAreTheFiles ==
    ASSUME NEW w \in Worker, LoadInv(w), Clean(w), NEW d \in Directory
    PROVE  ParsedFiles(w, d) \subseteq FilesIn(d)
<1>1. ASSUME NEW f \in ParsedFiles(w, d) PROVE f \in FilesIn(d)
  <2>1. PICK i \in DOMAIN jsons[w][d] : f = jsons[w][d][i][1][1]
    BY DEF ParsedFiles, ChunkFiles
  <2>2. ChunkIs(w, d, jsons[w][d][i])
    BY DEF LoadInv, Chunks
  <2>3. ~LeftOver(w, d)
    BY DEF LeftOver, Clean
  <2>4. QED
    BY <2>1, <2>2, <2>3 DEF ChunkIs, FilesIn
<1>2. QED
  BY <1>1

\* A load that returns has parsed all files of its directory, and what it reads
\* has room in the buffer, when no file is empty and nothing fails.
THEOREM LoadsMissNothing == Spec => []LoadsAllFiles
<1>1. LoadsInv => LoadsAllFiles
  <2> SUFFICES ASSUME LoadsInv, NEW w \in Worker, NEW d \in Directory,
                      \A e \in Directory : ~EmptyIn(e), failed[w] = {}
               PROVE  /\ pc[w] = "returned" /\ d = Head(calls[w]) => FilesIn(d) = ParsedFiles(w, d)
                      /\ pc[w] = "fetch" => Len(infmt[w].data) <= infmt[w].max_size
    BY DEF LoadsAllFiles, ParsedFiles, ChunkFiles
  <2>1. LoadInv(w)
    BY DEF LoadsInv
  <2>2. files \in SUBSET File
    BY <2>1 DEF LoadInv, Typed
  <2>3. Clean(w)
    <3>1. \A f \in files : DirOf[f] \in Directory
      BY <2>2, FileAssumption DEF Directory
    <3>2. QED
      BY <3>1 DEF Clean, EmptyIn, FilesIn
  <2>4. ASSUME pc[w] = "returned", d = Head(calls[w]) PROVE FilesIn(d) = ParsedFiles(w, d)
    <3>1. infmt[w].file_sizes = {}
      BY <2>1, <2>3, <2>4 DEF LoadInv, LeftBehind, Clean, Ends
    <3>2. FilesIn(d) \subseteq ParsedFiles(w, d)
      BY <2>1, <2>3, <2>4, <3>1 DEF LoadInv, NothingMissing
    <3>3. QED
      BY <2>1, <2>3, <3>2, ParsedAreTheFiles
  <2>5. ASSUME pc[w] = "fetch" PROVE Len(infmt[w].data) <= infmt[w].max_size
    <3> DEFINE in == infmt[w]
    <3>1. /\ in \in [file_sizes : SUBSET files, max_size : Nat, file : File \cup {NoFile},
                     pos : Nat, data : Chunk]
          /\ in.file \in in.file_sizes /\ in.pos <= Size[in.file]
          /\ in.data = Bytes(in.file, 0, in.pos)
      BY <2>1, <2>3, <2>5 DEF LoadInv, Typed, Buffered, Clean
    <3>2. in.file \in File /\ in.pos \in Nat /\ in.max_size \in Nat /\ Size[in.file] \in Nat
      BY <2>2, <3>1, FileAssumption
    <3>3. Size[in.file] <= in.max_size
      BY <2>1, <2>3, <2>5, <3>1 DEF LoadInv, NothingMissing
    <3> HIDE DEF in
    <3>4. Len(in.data) = in.pos
      BY <3>1, <3>2, FirstBytes
    <3>5. Len(in.data) <= in.max_size
      BY <3>1, <3>2, <3>3, <3>4
    <3>6. QED
      BY <3>5 DEF in
  <2>6. QED
    BY <2>4, <2>5
<1>2. QED
  BY <1>1, LoadsInvariance, PTL

-----------------------------------------------------------------------------
(***************************************************************************)
(* Arrays, and the columns that are found for them.                        *)
(***************************************************************************)

\* What makes a sequence of a function.
LEMMA ArrayOfFunction ==
    ASSUME NEW n \in Nat, NEW s, s = [i \in 1 .. n |-> s[i]]
    PROVE  IsArray(s) /\ Len(s) = n /\ DOMAIN s = 1 .. n
<1>1. s \in [1 .. n -> Range(s)]
  <2>1. DOMAIN s = 1 .. n
    OBVIOUS
  <2>2. \A i \in 1 .. n : s[i] \in Range(s)
    BY <2>1 DEF Range
  <2> DEFINE R == Range(s)
  <2> HIDE DEF R
  <2>3. s \in [1 .. n -> R]
    BY <2>2 DEF R
  <2>4. QED
    BY <2>3 DEF R
<1>2. QED
  BY <1>1 DEF IsArray

\* What an array is.
LEMMA ArrayFacts ==
    ASSUME NEW s, IsArray(s)
    PROVE  Len(s) \in Nat /\ DOMAIN s = 1 .. Len(s)
  BY DEF IsArray

\* Arrays, flattened.
LEMMA FlattenArrays ==
    ASSUME NEW seqs, IsArray(seqs), \A i \in DOMAIN seqs : IsArray(seqs[i])
    PROVE  /\ IsArray(FlattenSeq(seqs))
           /\ \A x : x \in Range(FlattenSeq(seqs)) <=> \E i \in DOMAIN seqs : x \in Range(seqs[i])
<1> DEFINE X == UNION {Range(seqs[i]) : i \in DOMAIN seqs}
           n == Len(seqs)
<1>1. n \in Nat /\ DOMAIN seqs = 1 .. n /\ seqs = [i \in 1 .. n |-> seqs[i]]
  BY DEF IsArray
<1>2. ASSUME NEW i \in 1 .. n PROVE seqs[i] \in Seq(X)
  <2>1. seqs[i] \in Seq(Range(seqs[i])) /\ Range(seqs[i]) \subseteq X
    BY <1>1 DEF IsArray
  <2> HIDE DEF X
  <2>2. QED
    BY <2>1
<1> HIDE DEF X, n
<1>3. seqs \in Seq(Seq(X))
  BY <1>1, <1>2
<1>4. /\ FlattenSeq(seqs) \in Seq(X)
      /\ \A x : x \in Range(FlattenSeq(seqs)) <=> \E i \in DOMAIN seqs : x \in Range(seqs[i])
  BY <1>3, FlattenFacts
<1>5. IsArray(FlattenSeq(seqs))
  <2> DEFINE f == FlattenSeq(seqs)
  <2>1. f \in Seq(X)
    BY <1>4
  <2> HIDE DEF f
  <2>2. Len(f) \in Nat /\ f = [i \in 1 .. Len(f) |-> f[i]]
    BY <2>1
  <2>3. IsArray(f)
    BY <2>2, ArrayOfFunction
  <2>4. QED
    BY <2>3 DEF f
<1>6. QED
  BY <1>4, <1>5

\* The columns of an array of mentions are those of the mentions, in their order.
LEMMA FindColumnsFacts ==
    ASSUME NEW dm, NEW mentions, IsArray(mentions)
    PROVE  /\ IsArray(FindColumns(dm, mentions))
           /\ Len(FindColumns(dm, mentions)) = Len(mentions)
           /\ DOMAIN FindColumns(dm, mentions) = DOMAIN mentions
           /\ Range(FindColumns(dm, mentions)) = {FindColumn(dm, m) : m \in Range(mentions)}
<1> DEFINE n == Len(mentions)
           columns == FindColumns(dm, mentions)
<1>1. n \in Nat /\ DOMAIN mentions = 1 .. n
  BY ArrayFacts
<1>2. columns = [i \in 1 .. n |-> FindColumn(dm, mentions[i])]
  BY <1>1 DEF FindColumns
<1> HIDE DEF n, columns
<1>3. columns = [i \in 1 .. n |-> columns[i]] /\ \A i \in 1 .. n : columns[i] = FindColumn(dm, mentions[i])
  BY <1>2
<1>4. IsArray(columns) /\ Len(columns) = n /\ DOMAIN columns = 1 .. n
  BY <1>1, <1>3, ArrayOfFunction
<1>5. Range(columns) = {FindColumn(dm, m) : m \in Range(mentions)}
  BY <1>1, <1>3, <1>4 DEF Range
<1>6. QED
  BY <1>1, <1>4, <1>5 DEF n, columns

\* The columns of a measure.
LEMMA ColumnValuesFacts ==
    ASSUME NEW parameters, IsArray(parameters)
    PROVE  IsArray(ColumnValues(parameters))
<1> DEFINE n == Len(parameters)
           value(i) == IF parameters[i].type = "column" THEN <<parameters[i].value>> ELSE <<>>
           values == [i \in DOMAIN parameters |-> value(i)]
<1>1. n \in Nat /\ DOMAIN parameters = 1 .. n
  BY ArrayFacts
<1>2. \A i \in 1 .. n : IsArray(value(i))
  <2>1. ASSUME NEW x PROVE IsArray(<<x>>)
    <3>1. Range(<<x>>) = {x}
      BY DEF Range
    <3>2. <<x>> \in Seq({x})
      OBVIOUS
    <3>3. QED
      BY <3>1, <3>2 DEF IsArray
  <2>2. IsArray(<<>>)
    BY DEF IsArray
  <2>3. QED
    BY <2>1, <2>2
<1> HIDE DEF value
<1>3. IsArray(values) /\ \A i \in DOMAIN values : IsArray(values[i])
  <2>1. values = [i \in 1 .. n |-> values[i]] /\ \A i \in 1 .. n : values[i] = value(i)
    BY <1>1
  <2> HIDE DEF values
  <2>2. IsArray(values) /\ DOMAIN values = 1 .. n
    BY <1>1, <2>1, ArrayOfFunction
  <2>3. QED
    BY <1>2, <2>1, <2>2
<1>4. IsArray(FlattenSeq(values))
  <2> HIDE DEF values
  <2>1. QED
    BY <1>3, FlattenArrays
<1>5. QED
  BY <1>4 DEF ColumnValues, values, value

\* What the flat table is made with.
Added(base, s) == FoldLeft(AddNew, base, s)

\* FoldLeft as it is computed: one element at a time.
LEMMA AddingComputes ==
    ASSUME NEW X, NEW base \in Seq(X), NEW s \in Seq(X)
    PROVE  \E f : /\ f \in [0 .. Len(s) -> Seq(X)]
                  /\ f[0] = base
                  /\ \A i \in 1 .. Len(s) : f[i] = AddNew(f[i - 1], s[i])
                  /\ Added(base, s) = f[Len(s)]
<1> DEFINE n == Len(s)
           Folded(f, S) == IF S = {} THEN base ELSE AddNew(f[S \ {Max(S)}], s[Max(S)])
           IsFold(f, m) == f = [S \in SUBSET (1 .. m) |-> Folded(f, S)]
           fold == CHOOSE f : IsFold(f, n)
<1>1. n \in Nat /\ DOMAIN s = 1 .. n /\ \A i \in 1 .. n : s[i] \in X
  OBVIOUS
<1>2. Added(base, s) = fold[1 .. n]
  BY <1>1 DEF Added, FoldLeft, MapThenFoldSet
<1>3. \A m \in Nat : \A S \in SUBSET (1 .. m) : S # {} => Max(S) \in S /\ \A i \in S : i <= Max(S)
  <2>1. ASSUME NEW m \in Nat, NEW S \in SUBSET (1 .. m), S # {}
        PROVE  Max(S) \in S /\ \A i \in S : i <= Max(S)
    <3>1. IsFiniteSet(S)
      <4>1. IsFiniteSet(1 .. m)
        BY FS_Interval
      <4>2. QED
        BY <4>1, FS_Subset
    <3>2. \A i \in S : i \in Nat
      OBVIOUS
    <3>3. QED
      BY <2>1, <3>1, <3>2, MaxFacts
  <2>2. QED
    BY <2>1
<1>4. \E f : IsFold(f, n)
  <2> DEFINE Exists == {m \in Nat : \E f : IsFold(f, m)}
  <2>1. 0 \in Exists
    <3>1. IsFold([S \in SUBSET (1 .. 0) |-> base], 0)
      <4>1. \A S \in SUBSET (1 .. 0) : S = {}
        OBVIOUS
      <4>2. QED
        BY <4>1
    <3> HIDE DEF IsFold
    <3>2. QED
      BY <3>1
  <2>2. ASSUME NEW m \in Nat, m \in Exists PROVE m + 1 \in Exists
    <3>1. PICK f : IsFold(f, m)
      BY <2>2
    <3> DEFINE g == [S \in SUBSET (1 .. m + 1) |->
                       IF m + 1 \in S THEN AddNew(f[S \ {m + 1}], s[m + 1]) ELSE f[S]]
    <3>2. ASSUME NEW S \in SUBSET (1 .. m + 1) PROVE g[S] = Folded(g, S)
      <4>1. CASE m + 1 \in S
        <5>1. Max(S) = m + 1
          <6>1. m + 1 \in Nat /\ S # {}
            BY <4>1
          <6>2. Max(S) \in S /\ m + 1 <= Max(S)
            BY <1>3, <4>1, <6>1
          <6> DEFINE top == Max(S)
          <6>3. top \in 1 .. m + 1 /\ m + 1 <= top
            BY <6>2
          <6> HIDE DEF top
          <6>4. top = m + 1
            BY <6>3
          <6>5. QED
            BY <6>4 DEF top
        <5>2. S \ {m + 1} \in SUBSET (1 .. m) /\ S \ {m + 1} \in SUBSET (1 .. m + 1) /\ m + 1 \notin S \ {m + 1}
          OBVIOUS
        <5>3. g[S \ {m + 1}] = f[S \ {m + 1}]
          BY <5>2
        <5> HIDE DEF g
        <5>4. g[S] = AddNew(f[S \ {m + 1}], s[m + 1])
          BY <4>1 DEF g
        <5>5. QED
          BY <4>1, <5>1, <5>3, <5>4
      <4>2. CASE m + 1 \notin S
        <5>1. S \in SUBSET (1 .. m)
          BY <4>2
        <5>2. g[S] = f[S]
          BY <4>2
        <5>3. f[S] = Folded(f, S)
          BY <3>1, <5>1
        <5>4. S # {} => g[S \ {Max(S)}] = f[S \ {Max(S)}]
          <6>1. S \ {Max(S)} \in SUBSET (1 .. m + 1) /\ m + 1 \notin S \ {Max(S)}
            BY <4>2
          <6>2. QED
            BY <6>1
        <5> HIDE DEF g
        <5>5. QED
          BY <5>2, <5>3, <5>4
      <4>3. QED
        BY <4>1, <4>2
    <3>3. g = [S \in SUBSET (1 .. m + 1) |-> g[S]]
      OBVIOUS
    <3> HIDE DEF g, Folded
    <3>4. IsFold(g, m + 1)
      BY <3>2, <3>3
    <3> HIDE DEF IsFold
    <3>5. QED
      BY <3>4
  <2> HIDE DEF Exists
  <2>3. Nat \subseteq Exists
    BY <2>1, <2>2, InductionOnSets
  <2>4. QED
    BY <1>1, <2>3 DEF Exists
<1>5. IsFold(fold, n)
  <2> HIDE DEF IsFold
  <2>1. QED
    BY <1>4
<1> HIDE DEF fold
<1> DEFINE f == [i \in 0 .. n |-> fold[1 .. i]]
<1>6. f[0] = base
  <2>1. 1 .. 0 = {} /\ {} \in SUBSET (1 .. n) /\ 0 \in 0 .. n
    BY <1>1
  <2>2. fold[{}] = base
    BY <1>5, <2>1
  <2>3. QED
    BY <2>1, <2>2
<1>7. ASSUME NEW i \in 1 .. n PROVE f[i] = AddNew(f[i - 1], s[i])
  <2>1. /\ i \in 0 .. n /\ i - 1 \in 0 .. n /\ i \in Nat /\ 1 .. i \in SUBSET (1 .. n) /\ i \in 1 .. i
        /\ \A j \in 1 .. i : j <= i
    BY <1>1
  <2>2. Max(1 .. i) = i
    <3>1. Max(1 .. i) \in 1 .. i /\ i <= Max(1 .. i)
      BY <1>3, <2>1
    <3>2. QED
      BY <2>1, <3>1
  <2>3. (1 .. i) \ {i} = 1 .. i - 1
    BY <2>1
  <2>4. fold[1 .. i] = Folded(fold, 1 .. i)
    BY <1>5, <2>1
  <2>5. QED
    BY <2>1, <2>2, <2>3, <2>4
<1> HIDE DEF f
<1>8. ASSUME NEW i \in 0 .. n PROVE f[i] \in Seq(X)
  <2> DEFINE AllSeqs == {j \in Nat : j <= n => f[j] \in Seq(X)}
  <2>1. 0 \in AllSeqs
    BY <1>6
  <2>2. ASSUME NEW j \in Nat, j \in AllSeqs PROVE j + 1 \in AllSeqs
    <3>1. SUFFICES ASSUME j + 1 <= n PROVE f[j + 1] \in Seq(X)
      OBVIOUS
    <3>2. j + 1 \in 1 .. n /\ (j + 1) - 1 = j /\ j <= n
      BY <1>1, <3>1
    <3>3. f[j] \in Seq(X) /\ s[j + 1] \in X
      BY <1>1, <2>2, <3>2
    <3>4. f[j + 1] = AddNew(f[j], s[j + 1])
      BY <1>7, <3>2
    <3>5. QED
      BY <3>3, <3>4 DEF AddNew
  <2> HIDE DEF AllSeqs
  <2>3. Nat \subseteq AllSeqs
    BY <2>1, <2>2, InductionOnSets
  <2>4. i \in Nat /\ i <= n
    BY <1>1
  <2>5. QED
    BY <2>3, <2>4 DEF AllSeqs
<1>9. f \in [0 .. n -> Seq(X)]
  <2>1. f = [i \in 0 .. n |-> f[i]]
    BY DEF f
  <2>2. QED
    BY <1>8, <2>1
<1>10. f[n] = fold[1 .. n]
  BY <1>1 DEF f
<1>11. QED
  BY <1>2, <1>6, <1>7, <1>9, <1>10

\* What is added to a sequence: each element once, behind what there was.
LEMMA AddingFacts ==
    ASSUME NEW X, NEW base \in Seq(X), NEW s \in Seq(X)
    PROVE  /\ Added(base, s) \in Seq(X)
           /\ Range(Added(base, s)) = Range(base) \cup Range(s)
           /\ IsPrefix(base, Added(base, s))
           /\ IsInjective(base) => IsInjective(Added(base, s))
<1> DEFINE n == Len(s)
<1>1. n \in Nat /\ DOMAIN s = 1 .. n /\ \A i \in 1 .. n : s[i] \in X
  OBVIOUS
<1>2. PICK f : /\ f \in [0 .. n -> Seq(X)]
               /\ f[0] = base
               /\ \A i \in 1 .. n : f[i] = AddNew(f[i - 1], s[i])
               /\ Added(base, s) = f[n]
  BY AddingComputes
<1> DEFINE Extends(t) == Len(base) <= Len(t) /\ \A j \in 1 .. Len(base) : t[j] = base[j]
           Holds(i) == /\ Range(f[i]) = Range(base) \cup {s[j] : j \in 1 .. i}
                       /\ Extends(f[i])
                       /\ IsInjective(base) => IsInjective(f[i])
           Held == {i \in Nat : i <= n => Holds(i)}
<1>3. 0 \in Held
  <2>1. 1 .. 0 = {} /\ f[0] = base
    BY <1>2
  <2>2. Holds(0)
    BY <2>1
  <2>3. QED
    BY <2>2
<1>4. ASSUME NEW i \in Nat, i \in Held PROVE i + 1 \in Held
  <2>1. SUFFICES ASSUME i + 1 <= n PROVE Holds(i + 1)
    OBVIOUS
  <2>2. /\ i + 1 \in 1 .. n /\ (i + 1) - 1 = i /\ i <= n /\ i \in 0 .. n
        /\ 1 .. i + 1 = (1 .. i) \cup {i + 1}
    BY <1>1, <2>1
  <2> DEFINE old == f[i]
             new == f[i + 1]
             x == s[i + 1]
             k == Len(old)
  <2>3. Holds(i)
    BY <1>4, <2>2
  <2>4. old \in Seq(X) /\ x \in X /\ new = AddNew(old, x)
    BY <1>1, <1>2, <2>2
  <2>5. {s[j] : j \in 1 .. i + 1} = {s[j] : j \in 1 .. i} \cup {x}
    BY <2>2
  <2>6. CASE x \in Range(old)
    <3>1. new = old
      BY <2>4, <2>6 DEF AddNew
    <3>2. QED
      BY <2>3, <2>5, <2>6, <3>1
  <2>7. CASE x \notin Range(old)
    <3> HIDE DEF old, new, x
    <3>1. /\ new = Append(old, x) /\ k \in Nat
          /\ DOMAIN old = 1 .. k /\ DOMAIN new = 1 .. k + 1 /\ Len(new) = k + 1
          /\ \A j \in 1 .. k : new[j] = old[j]
          /\ new[k + 1] = x
      BY <2>4, <2>7 DEF AddNew
    <3> HIDE DEF k
    <3>2. \A j \in 1 .. k + 1 : (j \in 1 .. k /\ new[j] = old[j]) \/ (j = k + 1 /\ new[j] = x)
      BY <3>1
    <3>3. k + 1 \in 1 .. k + 1 /\ \A j \in 1 .. k : j \in 1 .. k + 1
      BY <3>1
    <3>4. Range(new) = Range(old) \cup {x}
      BY <3>1, <3>2, <3>3 DEF Range
    <3>5. IsInjective(old) => IsInjective(new)
      BY <2>7, <3>1, <3>2 DEF IsInjective, Range
    <3>6. Extends(old) => Extends(new)
      <4>1. SUFFICES ASSUME Extends(old) PROVE Extends(new)
        OBVIOUS
      <4>2. Len(old) = k /\ Len(base) \in Nat
        BY DEF k
      <4>3. Len(base) <= Len(new)
        BY <3>1, <4>1, <4>2
      <4>4. ASSUME NEW j \in 1 .. Len(base) PROVE new[j] = base[j]
        <5>1. j \in 1 .. k
          BY <3>1, <4>1, <4>2
        <5>2. QED
          BY <3>1, <4>1, <5>1
      <4>5. QED
        BY <4>3, <4>4
    <3>7. Range(old) = Range(base) \cup {s[j] : j \in 1 .. i} /\ Extends(old) /\ (IsInjective(base) => IsInjective(old))
      BY <2>3 DEF old
    <3> HIDE DEF Extends
    <3>8. Range(new) = Range(base) \cup {s[j] : j \in 1 .. i + 1} /\ Extends(new) /\ (IsInjective(base) => IsInjective(new))
      BY <2>5, <3>4, <3>5, <3>6, <3>7
    <3>9. QED
      BY <3>8 DEF new
  <2>8. QED
    BY <2>6, <2>7
<1> HIDE DEF Held
<1>5. Nat \subseteq Held
  BY <1>3, <1>4, InductionOnSets
<1>6. Holds(n)
  <2> HIDE DEF Holds
  <2>1. n <= n /\ n \in Held
    BY <1>1, <1>5
  <2>2. QED
    BY <2>1 DEF Held
<1>7. {s[j] : j \in 1 .. n} = Range(s)
  BY <1>1 DEF Range
<1>8. ASSUME NEW t \in Seq(X), Extends(t) PROVE IsPrefix(base, t)
  <2>1. SubSeq(base, 1, Len(base)) = SubSeq(t, 1, Len(base))
    <3> DEFINE b == SubSeq(base, 1, Len(base))
               c == SubSeq(t, 1, Len(base))
    <3>1. /\ Len(base) \in Nat /\ Len(t) \in Nat /\ Len(base) <= Len(t)
          /\ \A j \in 1 .. Len(base) : j \in 1 .. Len(t)
      BY <1>8
    <3>2. b \in Seq(X) /\ Len(b) = Len(base) /\ \A j \in 1 .. Len(base) : b[j] = base[j]
      BY <3>1
    <3>3. c \in Seq(X) /\ Len(c) = Len(base) /\ \A j \in 1 .. Len(base) : c[j] = t[j]
      BY <3>1
    <3> HIDE DEF b, c
    <3>4. b = c
      BY <1>8, <3>2, <3>3, SeqEqual
    <3>5. QED
      BY <3>4 DEF b, c
  <2>2. QED
    BY <1>8, <2>1 DEF IsPrefix
<1>9. n \in 0 .. n
  BY <1>1
<1>10. f[n] \in Seq(X) /\ Extends(f[n])
  BY <1>2, <1>6, <1>9
<1>11. IsPrefix(base, f[n])
  BY <1>8, <1>10
<1>12. QED
  BY <1>2, <1>6, <1>7, <1>10, <1>11

-----------------------------------------------------------------------------
(***************************************************************************)
(* The invariant of the cube and the model.                                *)
(***************************************************************************)

\* The cube is one of the JSON; without failures, that of a file of its directory.
HasCube(w) ==
    pc[w] # "aborted" /\ "cube_desc" \notin Range(calls[w]) =>
        /\ \E j \in Range(CubeJson) : desc[w] = CubeDesc(j)
        /\ Clean(w) => \E f \in FilesIn("cube_desc") : desc[w] = CubeDesc(CubeJson[f])

\* No two files hold a table with the same id.
DistinctIds == \A f, g \in FilesIn("table") : TableJson[f].id = TableJson[g].id => f = g

\* The tables are those of the files.
AreTheTables(tables) ==
    /\ tables = [id \in {TableJson[f].id : f \in FilesIn("table")} |-> tables[id]]
    /\ \A f \in FilesIn("table") : tables[TableJson[f].id] = TableJson[f]

\* What a DataModelDesc is made of.
IsModelOf(dm, json, tables) ==
    /\ json \in Range(ModelJson)
    /\ HasTables(json, tables)
    /\ \E order \in Orders(Refs(json)) : dm = DataModel(json, tables, order)

\* The model is one of the JSON; without failures and with distinct ids, that of
\* the files.
HasModel(w) ==
    pc[w] \in {"columns", "rowkey", "ready"} =>
        \E json, tables :
            /\ IsModelOf(model[w], json, tables)
            /\ Clean(w) => \E f \in FilesIn("model_desc") : json = ModelJson[f]
            /\ Clean(w) /\ DistinctIds => AreTheTables(tables)

\* What the CHECKs of CubeDesc::init leave.
HasColumns(w) ==
    /\ pc[w] \in {"rowkey", "ready"} => DimensionsInit(model[w], desc[w]) /\ MeasuresInit(model[w], desc[w])
    /\ pc[w] = "ready" => RowKeyInit(model[w], desc[w]) /\ GroupsInit(model[w], desc[w])

\* No load is left to do.
IsLoaded(w) == pc[w] \in {"model", "columns", "rowkey", "ready"} => calls[w] = <<>>

CubeInv(w) == IsLoaded(w) /\ HasCube(w) /\ HasModel(w) /\ HasColumns(w)

\* What a chunk is parsed as.
LEMMA ParsedFacts ==
    ASSUME NEW w \in Worker, LoadInv(w), NEW d \in Directory, NEW i \in DOMAIN jsons[w][d],
           NEW json, NEW j \in Parsed(json, jsons[w][d][i])
    PROVE  /\ j \in Range(json)
           /\ Clean(w) => jsons[w][d][i][1][1] \in FilesIn(d) /\ j = json[jsons[w][d][i][1][1]]
<1> DEFINE chunk == jsons[w][d][i]
           f == chunk[1][1]
<1>1. j \in Range(json)
  BY DEF Parsed, Range
<1>2. ASSUME Clean(w) PROVE f \in FilesIn(d) /\ j = json[f]
  <2>1. f \in FilesIn(d)
    <3>1. f \in ParsedFiles(w, d)
      BY DEF ParsedFiles, ChunkFiles
    <3>2. QED
      BY <1>2, <3>1, ParsedAreTheFiles
  <2>2. Whole(chunk)
    BY <1>2 DEF LoadInv, Chunks, ChunkIs, Clean
  <2>3. QED
    BY <2>1, <2>2 DEF Parsed
<1>3. QED
  BY <1>1, <1>2

\* Without failures get_tables makes the map of the files.
LEMMA TablesFacts ==
    ASSUME NEW w \in Worker, LoadInv(w), Clean(w), DistinctIds, pc[w] = "model",
           NEW p \in [DOMAIN jsons[w]["table"] -> Range(TableJson)],
           \A i \in DOMAIN jsons[w]["table"] : p[i] \in Parsed(TableJson, jsons[w]["table"][i])
    PROVE  AreTheTables(Tables(p))
<1> DEFINE chunks == jsons[w]["table"]
           n == Len(chunks)
           f(i) == chunks[i][1][1]
           tables == Tables(p)
           ids == {TableJson[g].id : g \in FilesIn("table")}
<1>1. "table" \in Directory
  BY DEF Directory
<1>2. n \in Nat /\ DOMAIN chunks = 1 .. n
  BY <1>1 DEF LoadInv, Typed
<1>3. \A i \in 1 .. n : f(i) \in FilesIn("table") /\ p[i] = TableJson[f(i)]
  BY <1>1, <1>2, ParsedFacts
<1>4. \A g \in FilesIn("table") : \E i \in 1 .. n : g = f(i)
  <2>1. calls[w] = <<>> /\ Range(<<>>) = {}
    BY DEF LoadInv, Typed, Range
  <2>2. FilesIn("table") \subseteq ParsedFiles(w, "table")
    BY <1>1, <2>1 DEF LoadInv, NothingMissing
  <2>3. QED
    BY <1>2, <2>2 DEF ParsedFiles, ChunkFiles
<1>5. DOMAIN p = 1 .. n
  BY <1>2
<1>6. {p[i].id : i \in DOMAIN p} = ids
  BY <1>3, <1>4, <1>5
<1>7. tables = [id \in ids |-> p[Min({i \in DOMAIN p : p[i].id = id})]]
  BY <1>6 DEF Tables
<1>8. ASSUME NEW g \in FilesIn("table") PROVE tables[TableJson[g].id] = TableJson[g]
  <2> DEFINE id == TableJson[g].id
             S == {i \in DOMAIN p : p[i].id = id}
  <2>1. S # {} /\ \A i \in S : i \in Nat
    BY <1>2, <1>3, <1>4, <1>5
  <2>2. Min(S) \in S
    <3> HIDE DEF S
    <3>1. QED
      BY <2>1, MinFacts
  <2>3. PICK i \in 1 .. n : Min(S) = i /\ p[i].id = id
    BY <1>5, <2>2
  <2>4. f(i) = g
    BY <1>3, <2>3 DEF DistinctIds
  <2>5. id \in ids
    OBVIOUS
  <2>6. tables[id] = p[Min(S)]
    BY <1>7, <2>5
  <2>7. QED
    BY <1>3, <2>3, <2>4, <2>6
<1>9. tables = [id \in ids |-> tables[id]]
  BY <1>7
<1>10. QED
  BY <1>8, <1>9 DEF AreTheTables

\* What a load leaves alone.
LEMMA LoadLeaves ==
    ASSUME NEW w \in Worker, Maps, GetJson(w)
    PROVE  /\ pc[w] \in Loading /\ pc'[w] \in Loading \cup {"aborted"}
           /\ files' = files /\ calls'[w] = calls[w] /\ failed[w] \subseteq failed'[w]
<1> USE DEF Maps, Loading
<1>1. CASE SetInput(w)
  BY <1>1 DEF SetInput, Fails
<1>2. CASE NoFileLeft(w)
  BY <1>2 DEF NoFileLeft
<1>3. ASSUME NEW f, OpenFile(w, f) PROVE /\ pc[w] \in Loading /\ pc'[w] \in Loading \cup {"aborted"}
             /\ files' = files /\ calls'[w] = calls[w] /\ failed[w] \subseteq failed'[w]
  BY <1>3 DEF OpenFile
<1>4. CASE OpenFails(w)
  BY <1>4 DEF OpenFails, Abort
<1>5. ASSUME pc[w] = "fetch", NEW n, Read(w, n) PROVE /\ pc[w] \in Loading /\ pc'[w] \in Loading \cup {"aborted"}
             /\ files' = files /\ calls'[w] = calls[w] /\ failed[w] \subseteq failed'[w]
  BY <1>5 DEF Read, Abort
<1>6. CASE ReadFails(w)
  BY <1>6 DEF ReadFails, Abort, Fails
<1>7. CASE Fetched(w)
  BY <1>7 DEF Fetched, Abort
<1>8. QED
  BY <1>1, <1>2, <1>3, <1>4, <1>5, <1>6, <1>7 DEF GetJson

\* A worker whose cube and model stay, in the same place or a place that promises
\* nothing more.
LEMMA CubeStays ==
    ASSUME NEW w \in Worker, CubeInv(w), files' = files, desc'[w] = desc[w], model'[w] = model[w],
           failed[w] \subseteq failed'[w],
           \/ pc'[w] = "aborted"
           \/ pc'[w] = pc[w] /\ calls'[w] = calls[w]
           \/ pc[w] \in Loading /\ pc'[w] \in Loading /\ calls'[w] = calls[w]
    PROVE  CubeInv(w)'
<1>1. Clean(w)' => Clean(w)
  BY DEF Clean
<1>2. \A d : FilesIn(d)' = FilesIn(d)
  BY DEF FilesIn
<1>3. DistinctIds' <=> DistinctIds
  BY <1>2 DEF DistinctIds
<1>4. \A t : AreTheTables(t)' <=> AreTheTables(t)
  BY <1>2 DEF AreTheTables
<1>5. HasCube(w)'
  BY <1>1, <1>2 DEF CubeInv, HasCube, Loading
<1>6. HasModel(w)'
  <2>1. CASE pc'[w] = pc[w]
    <3> SUFFICES ASSUME pc[w] \in {"columns", "rowkey", "ready"}
                 PROVE  \E json, tables :
                            /\ IsModelOf(model[w], json, tables)
                            /\ Clean(w)' => \E f \in FilesIn("model_desc") : json = ModelJson[f]
                            /\ Clean(w)' /\ DistinctIds => AreTheTables(tables)
      BY <1>2, <1>3, <1>4, <2>1 DEF HasModel, IsModelOf
    <3>1. QED
      BY <1>1 DEF CubeInv, HasModel
  <2>2. CASE pc'[w] # pc[w]
    BY <2>2 DEF HasModel, Loading
  <2>3. QED
    BY <2>1, <2>2
<1>7. HasColumns(w)'
  BY DEF CubeInv, HasColumns, Loading
<1>8. IsLoaded(w)'
  BY DEF CubeInv, IsLoaded, Loading
<1>9. QED
  BY <1>5, <1>6, <1>7, <1>8 DEF CubeInv

\* What any step of a worker does to its cube and model.
LEMMA CubeKeeps ==
    ASSUME NEW w \in Worker, LoadInv(w), CubeInv(w), Maps, SetupStep(w)
    PROVE  CubeInv(w)'
<1> USE DEF Maps
<1>1. CASE Load(w)
  <2>1. desc' = desc /\ model' = model /\ GetJson(w)
    BY <1>1 DEF Load
  <2>2. QED
    BY <2>1, LoadLeaves, CubeStays
<1>2. CASE UseJson(w)
  <2> DEFINE d == Head(calls[w])
             chunks == jsons[w][d]
  <2>1. /\ pc[w] = "returned" /\ calls'[w] = Tail(calls[w]) /\ model' = model
        /\ files' = files /\ failed' = failed
    BY <1>2 DEF UseJson
  <2>2. calls[w] \in CallOrders /\ calls[w] # <<>>
    BY <2>1 DEF LoadInv, Typed, Loading
  <2>3. /\ d \in Directory /\ Range(calls[w]) = {d} \cup Range(Tail(calls[w]))
        /\ d \notin Range(Tail(calls[w]))
    BY <2>2, CallFacts
  <2>4. pc'[w] \in {"aborted", "model", "set_input"}
    BY <1>2 DEF UseJson
  <2>5. HasModel(w)' /\ HasColumns(w)' /\ IsLoaded(w)'
    <3>1. pc'[w] = "model" => Tail(calls[w]) = <<>>
      <4>1. pc'[w] = "model" => Len(calls[w]) = 1
        BY <1>2 DEF UseJson
      <4>2. QED
        BY <2>2, <4>1, CallFacts
    <3>2. QED
      BY <2>1, <2>4, <3>1 DEF HasModel, HasColumns, IsLoaded
  <2>6. Clean(w)' <=> Clean(w)
    BY <2>1 DEF Clean
  <2>7. \A e : FilesIn(e)' = FilesIn(e)
    BY <2>1 DEF FilesIn
  <2>8. CASE d # "cube_desc"
    <3>1. desc' = desc
      BY <1>2, <2>8 DEF UseJson
    <3>2. HasCube(w)'
      BY <2>1, <2>3, <2>6, <2>7, <2>8, <3>1 DEF CubeInv, HasCube
    <3>3. QED
      BY <2>5, <3>2 DEF CubeInv
  <2>9. CASE d = "cube_desc" /\ chunks = <<>>
    <3>1. pc'[w] = "aborted"
      BY <1>2, <2>9 DEF UseJson
    <3>2. HasCube(w)'
      BY <3>1 DEF HasCube
    <3>3. QED
      BY <2>5, <3>2 DEF CubeInv
  <2>10. CASE d = "cube_desc" /\ chunks # <<>>
    <3>1. PICK j \in Parsed(CubeJson, chunks[1]) : desc' = [desc EXCEPT ![w] = CubeDesc(j)]
      BY <1>2, <2>10 DEF UseJson
    <3>2. chunks \in Seq(Chunk)
      BY <2>3 DEF LoadInv, Typed
    <3>3. 1 \in DOMAIN chunks
      BY <2>10, <3>2
    <3>4. /\ j \in Range(CubeJson)
          /\ Clean(w) => chunks[1][1][1] \in FilesIn(d) /\ j = CubeJson[chunks[1][1][1]]
      BY <2>3, <3>3, ParsedFacts
    <3>5. desc'[w] = CubeDesc(j)
      BY <3>1
    <3>6. HasCube(w)'
      BY <2>6, <2>7, <2>10, <3>4, <3>5 DEF HasCube
    <3>7. QED
      BY <2>5, <3>6 DEF CubeInv
  <2>11. QED
    BY <2>8, <2>9, <2>10
<1>3. CASE InitModel(w)
  <2>1. /\ pc[w] = "model" /\ calls' = calls /\ desc' = desc /\ files' = files /\ failed' = failed
        /\ pc'[w] \in {"aborted", "columns"}
    BY <1>3 DEF InitModel, Goto
  <2>2. CASE pc'[w] = "aborted"
    BY <2>1, <2>2 DEF CubeInv, HasCube, HasModel, HasColumns, IsLoaded
  <2>3. CASE pc'[w] = "columns"
    <3>1. PICK in \in ModelInputs(w) :
              /\ HasTables(in.json, in.tables)
              /\ \E order \in Orders(Refs(in.json)) :
                    model' = [model EXCEPT ![w] = DataModel(in.json, in.tables, order)]
      BY <1>3, <2>3 DEF InitModel, Goto
    <3> DEFINE models == jsons[w]["model_desc"]
               chunks == jsons[w]["table"]
    <3>2. models # <<>> /\ in \in {[json |-> json, tables |-> Tables(p)] :
              json \in Parsed(ModelJson, models[1]),
              p \in {q \in [DOMAIN chunks -> Range(TableJson)] :
                        \A i \in DOMAIN chunks : q[i] \in Parsed(TableJson, chunks[i])}}
      BY <3>1 DEF ModelInputs
    <3>3. PICK json \in Parsed(ModelJson, models[1]), p \in [DOMAIN chunks -> Range(TableJson)] :
              /\ \A i \in DOMAIN chunks : p[i] \in Parsed(TableJson, chunks[i])
              /\ in = [json |-> json, tables |-> Tables(p)]
      BY <3>2
    <3> DEFINE tables == Tables(p)
    <3>4. in.json = json /\ in.tables = tables
      BY <3>3
    <3>5. "model_desc" \in Directory
      BY DEF Directory
    <3>6. 1 \in DOMAIN models
      <4>1. models \in Seq(Chunk)
        BY <3>5 DEF LoadInv, Typed
      <4>2. QED
        BY <3>2, <4>1
    <3>7. /\ json \in Range(ModelJson)
          /\ Clean(w) => \E f \in FilesIn("model_desc") : json = ModelJson[f]
      BY <3>5, <3>6, ParsedFacts
    <3>8. Clean(w) /\ DistinctIds => AreTheTables(tables)
      BY <2>1, <3>3, TablesFacts
    <3> HIDE DEF tables
    <3>9. IsModelOf(model'[w], json, tables)
      BY <3>1, <3>4, <3>7 DEF IsModelOf
    <3>10. Clean(w)' <=> Clean(w)
      BY <2>1 DEF Clean
    <3>11. \A e : FilesIn(e)' = FilesIn(e)
      BY <2>1 DEF FilesIn
    <3>12. DistinctIds' <=> DistinctIds
      BY <3>11 DEF DistinctIds
    <3>13. AreTheTables(tables)' <=> AreTheTables(tables)
      BY <3>11 DEF AreTheTables
    <3>14. HasModel(w)'
      BY <3>7, <3>8, <3>9, <3>10, <3>11, <3>12, <3>13 DEF HasModel, IsModelOf
    <3>15. HasCube(w)'
      BY <2>1, <3>10, <3>11 DEF CubeInv, HasCube
    <3>16. HasColumns(w)' /\ IsLoaded(w)'
      BY <2>1, <2>3 DEF HasColumns, IsLoaded, LoadInv, Typed
    <3>17. QED
      BY <3>14, <3>15, <3>16 DEF CubeInv
  <2>4. QED
    BY <2>1, <2>2, <2>3
<1>4. CASE InitColumns(w) \/ InitRowKey(w)
  <2>1. /\ calls' = calls /\ desc' = desc /\ model' = model /\ files' = files /\ failed' = failed
        /\ \/ pc'[w] = "aborted"
           \/ /\ pc[w] = "columns" /\ pc'[w] = "rowkey"
              /\ DimensionsInit(model[w], desc[w]) /\ MeasuresInit(model[w], desc[w])
           \/ /\ pc[w] = "rowkey" /\ pc'[w] = "ready"
              /\ RowKeyInit(model[w], desc[w]) /\ GroupsInit(model[w], desc[w])
    BY <1>4 DEF InitColumns, InitRowKey, Goto
  <2>2. CASE pc'[w] = "aborted"
    BY <2>1, <2>2, CubeStays
  <2>3. CASE pc'[w] # "aborted"
    <3>1. Clean(w)' <=> Clean(w)
      BY <2>1 DEF Clean
    <3>2. \A e : FilesIn(e)' = FilesIn(e)
      BY <2>1 DEF FilesIn
    <3>3. DistinctIds' <=> DistinctIds
      BY <3>2 DEF DistinctIds
    <3>4. \A t : AreTheTables(t)' <=> AreTheTables(t)
      BY <3>2 DEF AreTheTables
    <3>5. HasCube(w)'
      BY <2>1, <2>3, <3>1, <3>2 DEF CubeInv, HasCube
    <3>6. HasModel(w)'
      BY <2>1, <2>3, <3>1, <3>2, <3>3, <3>4 DEF CubeInv, HasModel, IsModelOf
    <3>7. HasColumns(w)' /\ IsLoaded(w)'
      BY <2>1, <2>3 DEF CubeInv, HasColumns, IsLoaded
    <3>8. QED
      BY <3>5, <3>6, <3>7 DEF CubeInv
  <2>4. QED
    BY <2>2, <2>3
<1>5. QED
  BY <1>1, <1>2, <1>3, <1>4 DEF SetupStep

\* The inductive invariant of the setup.
SetupInv == LoadsInv /\ \A w \in Worker : CubeInv(w)

\* The inductive invariant of the setup: a worker's cube and model are made of the
\* JSON, without failures of that of the files there are, and what CubeDesc::init
\* and AggregationGroup::init CHECK holds behind them.
THEOREM SetupInvariance == Spec => []SetupInv
<1>1. Init /\ LoadsInv => SetupInv
  <2> SUFFICES ASSUME Init, LoadsInv PROVE SetupInv
    OBVIOUS
  <2>1. ASSUME NEW w \in Worker PROVE CubeInv(w)
    <3>1. pc[w] = "set_input"
      BY DEF Init, MetaInit
    <3>2. "cube_desc" \in Range(calls[w])
      <4>1. calls[w] \in {<<"cube_desc", "model_desc", "table">>, <<"cube_desc", "table", "model_desc">>}
        BY DEF Init, MetaInit
      <4>2. QED
        BY <4>1 DEF Range
    <3>3. QED
      BY <3>1, <3>2 DEF CubeInv, HasCube, HasModel, HasColumns, IsLoaded
  <2>2. QED
    BY <2>1 DEF SetupInv
<1>2. SetupInv /\ LoadsInv' /\ [Next]_vars => SetupInv'
  <2> SUFFICES ASSUME SetupInv, LoadsInv', [Next]_vars PROVE SetupInv'
    OBVIOUS
  <2>1. ASSUME NEW w \in Worker, SetupStep(w) PROVE SetupInv'
    <3>1. CubeInv(w)'
      BY <2>1, CubeKeeps DEF SetupInv, LoadsInv
    <3>2. ASSUME NEW v \in Worker \ {w} PROVE CubeInv(v)'
      <4>1. Maps /\ CubeInv(v)
        BY DEF SetupInv, LoadsInv
      <4>2. /\ files' = files /\ pc'[v] = pc[v] /\ calls'[v] = calls[v] /\ failed'[v] = failed[v]
            /\ desc'[v] = desc[v] /\ model'[v] = model[v]
        BY <2>1, <4>1, OneActs
      <4>3. QED
        BY <4>1, <4>2, CubeStays
    <3>3. QED
      BY <3>1, <3>2 DEF SetupInv
  <2>2. CASE UNCHANGED vars
    <3>1. \A v \in Worker : CubeInv(v)'
      BY <2>2, CubeStays DEF SetupInv, vars, metaVars
    <3>2. QED
      BY <3>1 DEF SetupInv
  <2>3. QED
    BY <2>1, <2>2 DEF Next
<1>3. QED
  BY <1>1, <1>2, LoadsInvariance, PTL DEF Spec

-----------------------------------------------------------------------------
(***************************************************************************)
(* The flat table.                                                         *)
(***************************************************************************)

\* The arrays of a cube.
LEMMA CubeArrays ==
    ASSUME NEW j \in Range(CubeJson), NEW cube, cube = CubeDesc(j)
    PROVE  /\ IsArray(cube.dimensions) /\ IsArray(cube.measures) /\ IsArray(cube.rowkey)
           /\ \A i \in DOMAIN cube.measures : IsArray(cube.measures[i])
           /\ \A i \in DOMAIN cube.groups :
                 IsArray(cube.groups[i].includes) /\ IsArray(cube.groups[i].mandatory_dims)
<1>1. /\ cube.dimensions = j.dimensions /\ cube.measures = j.measures /\ cube.rowkey = j.rowkey
      /\ cube.groups = [i \in DOMAIN j.aggregation_groups |-> AggregationGroup(j.aggregation_groups[i])]
  BY DEF CubeDesc
<1>2. IsArray(j.dimensions) /\ IsArray(j.measures) /\ IsArray(j.rowkey)
  BY JsonAssumption
<1>3. ASSUME NEW i \in DOMAIN j.measures PROVE IsArray(j.measures[i])
  <2>1. j.measures[i] \in Range(j.measures)
    BY DEF Range
  <2>2. QED
    BY <2>1, JsonAssumption
<1>4. ASSUME NEW i \in DOMAIN j.aggregation_groups
      PROVE  IsArray(cube.groups[i].includes) /\ IsArray(cube.groups[i].mandatory_dims)
  <2> DEFINE group == j.aggregation_groups[i]
  <2>1. group \in Range(j.aggregation_groups)
    BY DEF Range
  <2>2. cube.groups[i] = AggregationGroup(group)
    BY <1>1
  <2> HIDE DEF group
  <2>3. IsArray(group.includes) /\ IsArray(group.select_rule.mandatory_dims)
    BY <2>1, JsonAssumption
  <2>4. QED
    BY <2>2, <2>3 DEF AggregationGroup
<1>5. DOMAIN cube.groups = DOMAIN j.aggregation_groups
  BY <1>1
<1>6. QED
  BY <1>1, <1>2, <1>3, <1>4, <1>5

\* The tables of a model.
LEMMA ModelFacts ==
    ASSUME NEW dm, NEW json, NEW tables, IsModelOf(dm, json, tables)
    PROVE  /\ DOMAIN dm.keys = Refs(json) /\ \A i \in Refs(json) : i \in Nat /\ IsArray(dm.keys[i])
           /\ Range(dm.name_map) \subseteq Refs(json)
           /\ \A t : FindTable(dm, t) # NoTable => FindTable(dm, t) \in Refs(json)
<1>1. json \in Range(ModelJson)
  BY DEF IsModelOf
<1>2. IsArray(json.lookups) /\ \A lookup \in Range(json.lookups) : IsArray(lookup.foreign_keys)
  BY <1>1, JsonAssumption
<1>3. Len(json.lookups) \in Nat /\ DOMAIN json.lookups = 1 .. Len(json.lookups)
  BY <1>2, ArrayFacts
<1>4. /\ dm.keys = [i \in Refs(json) |-> IF i = 0 THEN <<>> ELSE json.lookups[i].foreign_keys]
      /\ dm.name_map = TableNameMap(json, tables)
  BY DEF IsModelOf, DataModel
<1>5. ASSUME NEW i \in Refs(json) PROVE i \in Nat /\ IsArray(dm.keys[i])
  <2>1. i \in Nat /\ (i = 0 \/ i \in DOMAIN json.lookups)
    BY <1>3 DEF Refs
  <2>2. CASE i = 0
    <3>1. dm.keys[i] = <<>> /\ IsArray(<<>>)
      BY <1>4, <2>2 DEF IsArray
    <3>2. QED
      BY <2>1, <3>1
  <2>3. CASE i # 0
    <3>1. json.lookups[i] \in Range(json.lookups) /\ dm.keys[i] = json.lookups[i].foreign_keys
      BY <1>4, <2>1, <2>3 DEF Range
    <3>2. QED
      BY <1>2, <2>1, <3>1
  <2>4. QED
    BY <2>2, <2>3
<1>6. ASSUME NEW n \in DOMAIN dm.name_map PROVE dm.name_map[n] \in Refs(json)
  <2> DEFINE S == {i \in Refs(json) : n \in NamesOf(json, tables, i)}
  <2>1. S # {} /\ \A i \in S : i \in Nat
    BY <1>4, <1>5 DEF TableNameMap
  <2>2. dm.name_map[n] = Min(S)
    BY <1>4 DEF TableNameMap
  <2>3. Min(S) \in S
    <3> HIDE DEF S
    <3>1. QED
      BY <2>1, MinFacts
  <2>4. QED
    BY <2>2, <2>3
<1>7. Range(dm.name_map) \subseteq Refs(json)
  BY <1>6 DEF Range
<1>8. \A t : FindTable(dm, t) # NoTable => FindTable(dm, t) \in Refs(json)
  BY <1>6 DEF FindTable
<1>9. QED
  BY <1>4, <1>5, <1>7, <1>8

\* What a dimension names.
LEMMA DimensionArrays ==
    ASSUME NEW dm, NEW json, NEW tables, IsModelOf(dm, json, tables),
           NEW d, FindTable(dm, d[1]) # NoTable
    PROVE  IsArray(DimensionMentions(dm, d))
<1>1. IsArray(dm.keys[FindTable(dm, d[1])])
  BY ModelFacts
<1>2. IsArray(<<d>>)
  <2>1. Range(<<d>>) = {d} /\ <<d>> \in Seq({d})
    BY DEF Range
  <2>2. QED
    BY <2>1 DEF IsArray
<1>3. QED
  BY <1>1, <1>2 DEF DimensionMentions

\* The columns of many arrays of mentions, one after the other.
LEMMA FlatColumns ==
    ASSUME NEW dm, NEW a, IsArray(a), NEW seqs, seqs = [i \in DOMAIN a |-> seqs[i]],
           \A i \in DOMAIN a : IsArray(seqs[i])
    PROVE  /\ IsArray(FlattenSeq(seqs))
           /\ \A x : x \in Range(FlattenSeq(seqs)) <=> \E i \in DOMAIN a : x \in Range(seqs[i])
<1>1. Len(a) \in Nat /\ DOMAIN a = 1 .. Len(a)
  BY ArrayFacts
<1>2. IsArray(seqs) /\ DOMAIN seqs = DOMAIN a
  BY <1>1, ArrayOfFunction
<1>3. QED
  BY <1>2, FlattenArrays

\* What is added to an array.
LEMMA AddingArrays ==
    ASSUME NEW base, IsArray(base), IsInjective(base), NEW s, IsArray(s)
    PROVE  /\ IsArray(Added(base, s)) /\ IsInjective(Added(base, s))
           /\ IsPrefix(base, Added(base, s))
           /\ Range(Added(base, s)) = Range(base) \cup Range(s)
<1> DEFINE X == Range(base) \cup Range(s)
           t == Added(base, s)
<1>1. base \in Seq(X) /\ s \in Seq(X)
  <2>1. /\ base \in Seq(Range(base)) /\ Range(base) \subseteq X
        /\ s \in Seq(Range(s)) /\ Range(s) \subseteq X
    BY DEF IsArray
  <2> HIDE DEF X
  <2>2. QED
    BY <2>1
<1> HIDE DEF X
<1>2. t \in Seq(X) /\ Range(t) = Range(base) \cup Range(s) /\ IsPrefix(base, t) /\ IsInjective(t)
  BY <1>1, AddingFacts
<1> HIDE DEF t
<1>3. Len(t) \in Nat /\ t = [i \in 1 .. Len(t) |-> t[i]]
  BY <1>2
<1>4. IsArray(t)
  BY <1>3, ArrayOfFunction
<1>5. QED
  BY <1>2, <1>4 DEF t

\* dimension_columns_ has no column twice.
LEMMA DimensionColumnsFacts ==
    ASSUME NEW dm, NEW json, NEW tables, IsModelOf(dm, json, tables),
           NEW j \in Range(CubeJson), NEW cube, cube = CubeDesc(j), DimensionsInit(dm, cube)
    PROVE  IsArray(DimensionColumns(dm, cube)) /\ IsInjective(DimensionColumns(dm, cube))
<1> DEFINE a == cube.dimensions
           seqs == [i \in DOMAIN a |-> FindColumns(dm, DimensionMentions(dm, a[i]))]
<1>1. IsArray(a)
  BY CubeArrays
<1>2. ASSUME NEW i \in DOMAIN a PROVE IsArray(seqs[i])
  <2>1. IsArray(DimensionMentions(dm, a[i]))
    BY DimensionArrays DEF DimensionsInit
  <2>2. IsArray(FindColumns(dm, DimensionMentions(dm, a[i])))
    BY <2>1, FindColumnsFacts
  <2>3. QED
    BY <2>2
<1>3. seqs = [i \in DOMAIN a |-> seqs[i]]
  OBVIOUS
<1> DEFINE flat == FlattenSeq(seqs)
<1>4. IsArray(flat)
  <2> HIDE DEF seqs, a
  <2>1. QED
    BY <1>1, <1>2, <1>3, FlatColumns
<1>5. DimensionColumns(dm, cube) = Added(<<>>, flat)
  BY DEF DimensionColumns, Added
<1>6. IsArray(<<>>) /\ IsInjective(<<>>)
  BY DEF IsArray, IsInjective
<1> HIDE DEF flat
<1>7. IsArray(Added(<<>>, flat)) /\ IsInjective(Added(<<>>, flat))
  BY <1>4, <1>6, AddingArrays
<1>8. QED
  BY <1>5, <1>7

\* The flat table has each dimension and each measured column once, the dimensions
\* first and in their order.
THEOREM FlatTableIsRight == Spec => []FlatTableHoldsColumns
<1>1. SetupInv => FlatTableHoldsColumns
  <2> SUFFICES ASSUME SetupInv, NEW w \in Ready
               PROVE  LET dimensions == DimensionColumns(model[w], desc[w])
                          flat == FlatTableColumns(model[w], desc[w])
                      IN  /\ IsPrefix(dimensions, flat)
                          /\ \A i, j \in DOMAIN flat : flat[i] = flat[j] => i = j
                          /\ Range(flat) = Range(dimensions)
                                \cup UNION {Range(ColRefs(model[w], m)) : m \in Range(desc[w].measures)}
    BY DEF FlatTableHoldsColumns
  <2> DEFINE dm == model[w]
             cube == desc[w]
             dimensions == DimensionColumns(dm, cube)
             flat == FlatTableColumns(dm, cube)
             a == cube.measures
             seqs == [i \in DOMAIN a |-> ColRefs(dm, a[i])]
             refs == FlattenSeq(seqs)
             measured == UNION {Range(ColRefs(dm, m)) : m \in Range(a)}
  <2>1. w \in Worker /\ pc[w] = "ready" /\ LoadInv(w) /\ CubeInv(w)
    BY DEF Ready, SetupInv, LoadsInv
  <2>2. "cube_desc" \notin Range(calls[w])
    <3>1. calls[w] = <<>>
      BY <2>1 DEF CubeInv, IsLoaded
    <3>2. QED
      BY <3>1 DEF Range
  <2>3. PICK j \in Range(CubeJson) : cube = CubeDesc(j)
    BY <2>1, <2>2 DEF CubeInv, HasCube
  <2>4. PICK json, tables : IsModelOf(dm, json, tables)
    BY <2>1 DEF CubeInv, HasModel
  <2>5. DimensionsInit(dm, cube)
    BY <2>1 DEF CubeInv, HasColumns
  <2>6. IsArray(a) /\ \A i \in DOMAIN a : IsArray(a[i])
    BY <2>3, CubeArrays
  <2> HIDE DEF dm, cube
  <2>7. IsArray(dimensions) /\ IsInjective(dimensions)
    BY <2>3, <2>4, <2>5, DimensionColumnsFacts
  <2>8. ASSUME NEW i \in DOMAIN a PROVE IsArray(seqs[i])
    <3>1. IsArray(ColumnValues(a[i]))
      BY <2>6, ColumnValuesFacts
    <3>2. IsArray(ColRefs(dm, a[i]))
      BY <3>1, FindColumnsFacts DEF ColRefs
    <3>3. QED
      BY <3>2
  <2>9. seqs = [i \in DOMAIN a |-> seqs[i]]
    OBVIOUS
  <2>10. IsArray(refs) /\ \A x : x \in Range(refs) <=> \E i \in DOMAIN a : x \in Range(seqs[i])
    <3> HIDE DEF seqs, a
    <3>1. QED
      BY <2>6, <2>8, <2>9, FlatColumns
  <2>11. Range(refs) = measured
    <3>1. \A i \in DOMAIN a : seqs[i] = ColRefs(dm, a[i])
      OBVIOUS
    <3> HIDE DEF seqs, refs
    <3>2. \A x : x \in Range(refs) <=> \E i \in DOMAIN a : x \in Range(ColRefs(dm, a[i]))
      BY <2>10, <3>1
    <3>3. \A x : x \in measured <=> \E m \in Range(a) : x \in Range(ColRefs(dm, m))
      OBVIOUS
    <3> HIDE DEF measured
    <3>4. \A x : x \in Range(refs) <=> x \in measured
      BY <3>2, <3>3 DEF Range
    <3>5. QED
      BY <3>4
  <2>12. flat = Added(dimensions, refs)
    BY DEF FlatTableColumns, Added
  <2> HIDE DEF dimensions, refs, measured, flat
  <2>13. /\ IsInjective(flat) /\ IsPrefix(dimensions, flat) /\ Range(flat) = Range(dimensions) \cup measured
    BY <2>7, <2>10, <2>11, <2>12, AddingArrays
  <2>14. \A k, l \in DOMAIN flat : flat[k] = flat[l] => k = l
    BY <2>13 DEF IsInjective
  <2>15. QED
    BY <2>13, <2>14 DEF flat, dimensions, measured, dm, cube
<1>2. QED
  BY <1>1, SetupInvariance, PTL

-----------------------------------------------------------------------------
(***************************************************************************)
(* Masks.                                                                  *)
(***************************************************************************)

\* A set of row key columns as a mask, and the mask as columns.
LEMMA MaskFacts ==
    ASSUME NEW rowkey, IsArray(rowkey), NEW named, named \subseteq Range(rowkey)
    PROVE  /\ ToCuboidId(rowkey, named) \subseteq 0 .. Len(rowkey) - 1
           /\ Range(IdToColumns(rowkey, ToCuboidId(rowkey, named))) = named
<1> DEFINE n == Len(rowkey)
           Places(col) == {i \in DOMAIN rowkey : rowkey[i] = col}
           first(col) == Min(Places(col))
           id == ToCuboidId(rowkey, named)
<1>1. n \in Nat /\ DOMAIN rowkey = 1 .. n
  BY ArrayFacts
<1>2. ASSUME NEW col \in named PROVE first(col) \in 1 .. n /\ rowkey[first(col)] = col
  <2>1. Places(col) # {} /\ \A i \in Places(col) : i \in Nat
    BY <1>1 DEF Range
  <2>2. first(col) \in Places(col)
    <3> DEFINE S == Places(col)
    <3>1. S # {} /\ \A i \in S : i \in Nat
      BY <2>1
    <3> HIDE DEF S
    <3>2. Min(S) \in S
      BY <3>1, MinFacts
    <3>3. QED
      BY <3>2 DEF S
  <2>3. QED
    BY <1>1, <2>2
<1>3. id = {n - first(col) : col \in named}
  BY DEF ToCuboidId, ColumnBitIndex, BitIndex
<1> HIDE DEF n, first, Places, id
<1>4. ASSUME NEW b \in id PROVE b \in 0 .. n - 1
  BY <1>1, <1>2, <1>3
<1>5. ASSUME NEW i \in 1 .. n PROVE BitIndex(rowkey, i) \in id <=> \E col \in named : i = first(col)
  <2>1. BitIndex(rowkey, i) = n - i
    BY DEF BitIndex, n
  <2>2. ASSUME NEW col \in named PROVE n - i = n - first(col) <=> i = first(col)
    BY <1>1, <1>2
  <2>3. QED
    BY <1>3, <2>1, <2>2
<1> DEFINE column(i) == IF BitIndex(rowkey, i) \in id THEN <<rowkey[i]>> ELSE <<>>
           seqs == [i \in DOMAIN rowkey |-> column(i)]
<1>6. ASSUME NEW i \in 1 .. n
      PROVE  IsArray(column(i)) /\ Range(column(i)) = IF BitIndex(rowkey, i) \in id THEN {rowkey[i]} ELSE {}
  <2>1. ASSUME NEW x PROVE IsArray(<<x>>) /\ Range(<<x>>) = {x}
    <3>1. Range(<<x>>) = {x} /\ <<x>> \in Seq({x})
      BY DEF Range
    <3>2. QED
      BY <3>1 DEF IsArray
  <2>2. IsArray(<<>>) /\ Range(<<>>) = {}
    BY DEF IsArray, Range
  <2>3. QED
    BY <2>1, <2>2
<1> HIDE DEF column
<1>7. seqs = [i \in DOMAIN rowkey |-> seqs[i]] /\ \A i \in DOMAIN rowkey : seqs[i] = column(i)
  OBVIOUS
<1> DEFINE columns == IdToColumns(rowkey, id)
<1>8. columns = FlattenSeq(seqs)
  BY DEF IdToColumns, column
<1> HIDE DEF seqs, columns
<1>9. \A x : x \in Range(columns) <=> \E i \in DOMAIN rowkey : x \in Range(seqs[i])
  BY <1>1, <1>6, <1>7, <1>8, FlatColumns
<1>10. \A x : x \in Range(columns) <=> \E i \in 1 .. n : BitIndex(rowkey, i) \in id /\ x = rowkey[i]
  BY <1>1, <1>6, <1>7, <1>9
<1>11. \A x : x \in Range(columns) <=> \E i \in 1 .. n : (\E col \in named : i = first(col)) /\ x = rowkey[i]
  BY <1>5, <1>10
<1>12. ASSUME NEW x PROVE x \in Range(columns) <=> x \in named
  BY <1>2, <1>11
<1>13. Range(columns) = named
  <2> DEFINE R == Range(columns)
  <2>1. \A x : x \in R <=> x \in named
    BY <1>12
  <2> HIDE DEF R
  <2>2. R = named
    BY <2>1
  <2>3. QED
    BY <2>2 DEF R
<1>14. QED
  BY <1>4, <1>13 DEF n, id, columns

\* A group's masks are the row key columns that the group names, as bits of the
\* base cuboid: read back as columns they are those, and the other way round.
THEOREM MasksAreRight == Spec => []MasksMeanColumns
<1>1. SetupInv => MasksMeanColumns
  <2> DEFINE IsMaskOf(dm, rowkey, mask, mentions) ==
                 LET named == Range(FindColumns(dm, mentions))
                 IN  /\ mask \subseteq 0 .. Len(rowkey) - 1
                     /\ Range(IdToColumns(rowkey, mask)) = named
                     /\ ToCuboidId(rowkey, named) = mask
  <2> SUFFICES ASSUME SetupInv, NEW w \in Ready, NEW i \in DOMAIN desc[w].groups
               PROVE  LET rowkey == RowKeyColumns(model[w], desc[w])
                          group == Groups(model[w], desc[w])[i]
                      IN  /\ IsMaskOf(model[w], rowkey, group.full, desc[w].groups[i].includes)
                          /\ IsMaskOf(model[w], rowkey, group.mandatory, desc[w].groups[i].mandatory_dims)
    BY DEF MasksMeanColumns
  <2> DEFINE dm == model[w]
             cube == desc[w]
             rowkey == RowKeyColumns(dm, cube)
             group == Groups(dm, cube)[i]
             includes == cube.groups[i].includes
             mandatory == cube.groups[i].mandatory_dims
  <2>1. w \in Worker /\ pc[w] = "ready" /\ LoadInv(w) /\ CubeInv(w)
    BY DEF Ready, SetupInv, LoadsInv
  <2>2. "cube_desc" \notin Range(calls[w])
    <3>1. calls[w] = <<>>
      BY <2>1 DEF CubeInv, IsLoaded
    <3>2. QED
      BY <3>1 DEF Range
  <2>3. PICK j \in Range(CubeJson) : cube = CubeDesc(j)
    BY <2>1, <2>2 DEF CubeInv, HasCube
  <2>4. IsArray(cube.rowkey) /\ IsArray(includes) /\ IsArray(mandatory)
    BY <2>3, CubeArrays
  <2>5. Range(FindColumns(dm, includes \o mandatory)) \subseteq Range(rowkey)
    BY <2>1 DEF CubeInv, HasColumns, GroupsInit
  <2>6. IsArray(rowkey)
    BY <2>4, FindColumnsFacts DEF RowKeyColumns
  <2>7. group.full = MaskOf(dm, rowkey, includes) /\ group.mandatory = MaskOf(dm, rowkey, mandatory)
    BY DEF Groups
  <2> HIDE DEF dm, cube, rowkey, group, includes, mandatory
  <2>8. /\ Range(FindColumns(dm, includes)) \subseteq Range(rowkey)
        /\ Range(FindColumns(dm, mandatory)) \subseteq Range(rowkey)
    <3> DEFINE X == Range(includes) \cup Range(mandatory)
               both == includes \o mandatory
    <3>1. includes \in Seq(X) /\ mandatory \in Seq(X)
      <4>1. /\ includes \in Seq(Range(includes)) /\ Range(includes) \subseteq X
            /\ mandatory \in Seq(Range(mandatory)) /\ Range(mandatory) \subseteq X
        BY <2>4 DEF IsArray
      <4> HIDE DEF X
      <4>2. QED
        BY <4>1
    <3> HIDE DEF X
    <3>2. both \in Seq(X) /\ \A x : x \in Range(both) <=> x \in Range(includes) \/ x \in Range(mandatory)
      BY <3>1, ConcatFacts
    <3> HIDE DEF both
    <3>3. IsArray(both)
      <4>1. Len(both) \in Nat /\ both = [k \in 1 .. Len(both) |-> both[k]]
        BY <3>2
      <4>2. QED
        BY <4>1, ArrayOfFunction
    <3>4. Range(FindColumns(dm, both)) \subseteq Range(rowkey)
      BY <2>5 DEF both
    <3>5. \A m \in Range(both) : FindColumn(dm, m) \in Range(rowkey)
      BY <3>3, <3>4, FindColumnsFacts
    <3>6. /\ Range(FindColumns(dm, includes)) = {FindColumn(dm, m) : m \in Range(includes)}
          /\ Range(FindColumns(dm, mandatory)) = {FindColumn(dm, m) : m \in Range(mandatory)}
      BY <2>4, FindColumnsFacts
    <3>7. QED
      BY <3>2, <3>5, <3>6
  <2>9. ASSUME NEW mentions, Range(FindColumns(dm, mentions)) \subseteq Range(rowkey)
        PROVE  IsMaskOf(dm, rowkey, MaskOf(dm, rowkey, mentions), mentions)
    <3>1. MaskOf(dm, rowkey, mentions) = ToCuboidId(rowkey, Range(FindColumns(dm, mentions)))
      BY DEF MaskOf, ToCuboidId
    <3>2. QED
      BY <2>6, <2>9, <3>1, MaskFacts
  <2> HIDE DEF IsMaskOf
  <2>10. /\ IsMaskOf(dm, rowkey, group.full, includes)
         /\ IsMaskOf(dm, rowkey, group.mandatory, mandatory)
    BY <2>7, <2>8, <2>9
  <2>11. QED
    BY <2>10 DEF dm, cube, rowkey, group, includes, mandatory
<1>2. QED
  BY <1>1, SetupInvariance, PTL

-----------------------------------------------------------------------------
(***************************************************************************)
(* What two workers make of the same files.                                *)
(***************************************************************************)

\* Two DataModelDescs that differ in the addresses of their tables only.
Alike(dm1, dm2) == dm1.columns = dm2.columns /\ dm1.keys = dm2.keys /\ dm1.name_map = dm2.name_map

\* A mention is looked up in one table at most.
IsClear(dm, m) == m[1] = NoName => Cardinality(TablesWith(dm, Upper[m[2]])) = 1

\* What is made of one model and the same tables.
LEMMA ModelsAlike ==
    ASSUME NEW json, NEW tables, NEW dm1, NEW dm2,
           IsModelOf(dm1, json, tables), IsModelOf(dm2, json, tables)
    PROVE  Alike(dm1, dm2)
<1>1. PICK o1 : dm1 = DataModel(json, tables, o1)
  BY DEF IsModelOf
<1>2. PICK o2 : dm2 = DataModel(json, tables, o2)
  BY DEF IsModelOf
<1>3. QED
  BY <1>1, <1>2 DEF DataModel, Alike

\* The order of the tables decides nothing when one table has the column.
LEMMA FirstTable ==
    ASSUME NEW json, NEW tables, NEW dm, IsModelOf(dm, json, tables),
           NEW found, found \subseteq Range(dm.name_map), Cardinality(found) = 1
    PROVE  \E x \in found : /\ found = {x}
                            /\ (CHOOSE i \in found : \A j \in found : dm.order[i] <= dm.order[j]) = x
<1>1. Range(dm.name_map) \subseteq Refs(json) /\ \A i \in Refs(json) : i \in Nat
  BY ModelFacts
<1>2. IsFiniteSet(found)
  <2>1. Len(json.lookups) \in Nat
    <3>1. json \in Range(ModelJson)
      BY DEF IsModelOf
    <3>2. IsArray(json.lookups)
      BY <3>1, JsonAssumption
    <3>3. QED
      BY <3>2, ArrayFacts
  <2>2. IsFiniteSet(Refs(json))
    <3>1. IsFiniteSet(0 .. Len(json.lookups))
      BY <2>1, FS_Interval
    <3>2. QED
      BY <3>1 DEF Refs
  <2>3. found \subseteq Refs(json)
    BY <1>1
  <2>4. QED
    BY <2>2, <2>3, FS_Subset
<1>3. PICK x : found = {x}
  BY <1>2, FS_Singleton
<1>4. dm.order[x] \in Nat
  <2>1. x \in Refs(json)
    BY <1>1, <1>3
  <2>2. PICK order \in [Refs(json) -> Refs(json)] : dm = DataModel(json, tables, order)
    BY DEF IsModelOf, Orders
  <2>3. dm.order = order
    BY <2>2 DEF DataModel
  <2>4. QED
    BY <1>1, <2>1, <2>3
<1>5. \A j \in found : dm.order[x] <= dm.order[j]
  BY <1>3, <1>4
<1>6. QED
  BY <1>3, <1>5

\* find_column gives both the same column.
LEMMA ColumnAgrees ==
    ASSUME NEW json, NEW tables, NEW dm1, NEW dm2,
           IsModelOf(dm1, json, tables), IsModelOf(dm2, json, tables),
           NEW m, IsClear(dm1, m)
    PROVE  FindColumn(dm1, m) = FindColumn(dm2, m)
<1> DEFINE name == Upper[m[2]]
           found == TablesWith(dm1, name)
<1>1. Alike(dm1, dm2)
  BY ModelsAlike
<1>2. TablesWith(dm2, name) = found
  BY <1>1 DEF Alike, TablesWith
<1>3. \A t : FindTable(dm1, t) = FindTable(dm2, t)
  BY <1>1 DEF Alike, FindTable
<1>4. \A i : GetColumn(dm1, i, name) = GetColumn(dm2, i, name)
  BY <1>1 DEF Alike, GetColumn
<1>5. CASE m[1] # NoName
  <2> HIDE DEF found, name
  <2>1. FindColumn(dm1, m) = IF FindTable(dm1, m[1]) = NoTable THEN Aborted
                             ELSE GetColumn(dm1, FindTable(dm1, m[1]), name)
    BY <1>5 DEF FindColumn, name
  <2>2. FindColumn(dm2, m) = IF FindTable(dm2, m[1]) = NoTable THEN Aborted
                             ELSE GetColumn(dm2, FindTable(dm2, m[1]), name)
    BY <1>5 DEF FindColumn, name
  <2>3. QED
    BY <1>3, <1>4, <2>1, <2>2
<1>6. CASE m[1] = NoName
  <2>1. Cardinality(found) = 1
    BY <1>6 DEF IsClear
  <2>2. found \subseteq Range(dm1.name_map) /\ found \subseteq Range(dm2.name_map)
    BY <1>1 DEF TablesWith, Alike
  <2> DEFINE c1 == CHOOSE i \in found : \A j \in found : dm1.order[i] <= dm1.order[j]
             c2 == CHOOSE i \in found : \A j \in found : dm2.order[i] <= dm2.order[j]
  <2>3. FindColumn(dm1, m) = IF found = {} THEN NoColumn ELSE <<c1, name>>
    BY <1>6 DEF FindColumn
  <2>4. FindColumn(dm2, m) = IF found = {} THEN NoColumn ELSE <<c2, name>>
    BY <1>2, <1>6 DEF FindColumn
  <2> HIDE DEF found
  <2>5. \E x \in found : found = {x} /\ c1 = x
    BY <2>1, <2>2, FirstTable
  <2>6. \E x \in found : found = {x} /\ c2 = x
    BY <2>1, <2>2, FirstTable
  <2> HIDE DEF c1, c2
  <2>7. c1 = c2
    BY <2>5, <2>6
  <2>8. QED
    BY <2>3, <2>4, <2>7
<1>7. QED
  BY <1>5, <1>6

\* And the same columns for many mentions.
LEMMA ColumnsAgree ==
    ASSUME NEW json, NEW tables, NEW dm1, NEW dm2,
           IsModelOf(dm1, json, tables), IsModelOf(dm2, json, tables),
           NEW mentions, \A m \in Range(mentions) : IsClear(dm1, m)
    PROVE  FindColumns(dm1, mentions) = FindColumns(dm2, mentions)
<1>1. ASSUME NEW i \in DOMAIN mentions PROVE FindColumn(dm1, mentions[i]) = FindColumn(dm2, mentions[i])
  <2>1. mentions[i] \in Range(mentions)
    BY DEF Range
  <2>2. IsClear(dm1, mentions[i])
    BY <2>1
  <2>3. QED
    BY <2>2, ColumnAgrees
<1>2. QED
  BY <1>1 DEF FindColumns

\* Two such workers make the same columns and masks of one cube.
LEMMA ResultsAgree ==
    ASSUME NEW json, NEW tables, NEW dm1, NEW dm2,
           IsModelOf(dm1, json, tables), IsModelOf(dm2, json, tables),
           NEW cube, DimensionsInit(dm1, cube),
           \A m \in Mentions(cube) \cup UNION {Range(dm1.keys[i]) : i \in DOMAIN dm1.keys} : IsClear(dm1, m)
    PROVE  /\ FlatTableColumns(dm1, cube) = FlatTableColumns(dm2, cube)
           /\ DimensionColumns(dm1, cube) = DimensionColumns(dm2, cube)
           /\ RowKeyColumns(dm1, cube) = RowKeyColumns(dm2, cube)
           /\ Groups(dm1, cube) = Groups(dm2, cube)
<1>1. Alike(dm1, dm2)
  BY ModelsAlike
<1>2. DimensionColumns(dm1, cube) = DimensionColumns(dm2, cube)
  <2> DEFINE a == cube.dimensions
             found(dm, i) == FindColumns(dm, DimensionMentions(dm, a[i]))
  <2>1. ASSUME NEW i \in DOMAIN a PROVE found(dm1, i) = found(dm2, i)
    <3> DEFINE mentions == DimensionMentions(dm1, a[i])
    <3>1. DimensionMentions(dm2, a[i]) = mentions
      BY <1>1 DEF Alike, DimensionMentions, FindTable
    <3>2. \A m \in Range(mentions) : IsClear(dm1, m)
      <4>1. CASE a[i][2] = NoName
        <5> DEFINE t == FindTable(dm1, a[i][1])
        <5>1. mentions = dm1.keys[t]
          BY <4>1 DEF DimensionMentions
        <5>2. t # NoTable
          BY DEF DimensionsInit
        <5>3. t \in DOMAIN dm1.keys
          BY <5>2, ModelFacts
        <5>4. QED
          BY <5>1, <5>3
      <4>2. CASE a[i][2] # NoName
        <5>1. mentions = <<a[i]>> /\ Range(<<a[i]>>) = {a[i]}
          BY <4>2 DEF DimensionMentions, Range
        <5>2. a[i] \in Mentions(cube)
          BY <4>2 DEF Mentions, Range
        <5>3. QED
          BY <5>1, <5>2
      <4>3. QED
        BY <4>1, <4>2
    <3> HIDE DEF mentions
    <3>3. FindColumns(dm1, mentions) = FindColumns(dm2, mentions)
      BY <3>2, ColumnsAgree
    <3>4. QED
      BY <3>1, <3>3 DEF mentions
  <2>2. [i \in DOMAIN a |-> found(dm1, i)] = [i \in DOMAIN a |-> found(dm2, i)]
    BY <2>1
  <2> DEFINE s1 == [i \in DOMAIN a |-> found(dm1, i)]
             s2 == [i \in DOMAIN a |-> found(dm2, i)]
  <2>3. /\ DimensionColumns(dm1, cube) = Added(<<>>, FlattenSeq(s1))
        /\ DimensionColumns(dm2, cube) = Added(<<>>, FlattenSeq(s2))
    BY DEF DimensionColumns, Added
  <2>4. s1 = s2
    BY <2>2
  <2> HIDE DEF s1, s2
  <2>5. QED
    BY <2>3, <2>4
<1>3. FlatTableColumns(dm1, cube) = FlatTableColumns(dm2, cube)
  <2> DEFINE a == cube.measures
             s1 == [i \in DOMAIN a |-> ColRefs(dm1, a[i])]
             s2 == [i \in DOMAIN a |-> ColRefs(dm2, a[i])]
  <2>1. ASSUME NEW i \in DOMAIN a PROVE ColRefs(dm1, a[i]) = ColRefs(dm2, a[i])
    <3>1. a[i] \in Range(a)
      BY DEF Range
    <3>2. \A m \in Range(ColumnValues(a[i])) : IsClear(dm1, m)
      BY <3>1 DEF Mentions
    <3>3. QED
      BY <3>2, ColumnsAgree DEF ColRefs
  <2>2. s1 = s2
    BY <2>1
  <2>3. /\ FlatTableColumns(dm1, cube) = Added(DimensionColumns(dm1, cube), FlattenSeq(s1))
        /\ FlatTableColumns(dm2, cube) = Added(DimensionColumns(dm2, cube), FlattenSeq(s2))
    BY DEF FlatTableColumns, Added
  <2> HIDE DEF s1, s2
  <2>4. QED
    BY <1>2, <2>2, <2>3
<1>4. RowKeyColumns(dm1, cube) = RowKeyColumns(dm2, cube)
  <2>1. \A m \in Range(cube.rowkey) : IsClear(dm1, m)
    BY DEF Mentions
  <2>2. QED
    BY <2>1, ColumnsAgree DEF RowKeyColumns
<1>5. Groups(dm1, cube) = Groups(dm2, cube)
  <2> DEFINE rowkey == RowKeyColumns(dm1, cube)
             masks(dm, i) == [full      |-> MaskOf(dm, rowkey, cube.groups[i].includes),
                              mandatory |-> MaskOf(dm, rowkey, cube.groups[i].mandatory_dims)]
  <2>1. ASSUME NEW i \in DOMAIN cube.groups
        PROVE  /\ MaskOf(dm1, rowkey, cube.groups[i].includes) = MaskOf(dm2, rowkey, cube.groups[i].includes)
               /\ MaskOf(dm1, rowkey, cube.groups[i].mandatory_dims)
                    = MaskOf(dm2, rowkey, cube.groups[i].mandatory_dims)
    <3>1. \A m \in Range(cube.groups[i].includes) \cup Range(cube.groups[i].mandatory_dims) : IsClear(dm1, m)
      BY DEF Mentions
    <3>2. /\ FindColumns(dm1, cube.groups[i].includes) = FindColumns(dm2, cube.groups[i].includes)
          /\ FindColumns(dm1, cube.groups[i].mandatory_dims) = FindColumns(dm2, cube.groups[i].mandatory_dims)
      BY <3>1, ColumnsAgree
    <3>3. QED
      BY <3>2 DEF MaskOf
  <2>2. /\ Groups(dm1, cube) = [i \in DOMAIN cube.groups |-> masks(dm1, i)]
        /\ Groups(dm2, cube) = [i \in DOMAIN cube.groups |-> masks(dm2, i)]
    BY <1>4 DEF Groups
  <2>3. \A i \in DOMAIN cube.groups : masks(dm1, i) = masks(dm2, i)
    BY <2>1
  <2> HIDE DEF masks
  <2>4. QED
    BY <2>2, <2>3
<1>6. QED
  BY <1>2, <1>3, <1>4, <1>5

\* A set of the files that has one element.
LEMMA OneFile ==
    ASSUME files \in SUBSET File, NEW d, Cardinality(FilesIn(d)) = 1
    PROVE  \E f : FilesIn(d) = {f}
<1>1. IsFiniteSet(FilesIn(d))
  <2>1. FilesIn(d) \subseteq File
    BY DEF FilesIn
  <2>2. QED
    BY <2>1, FS_Subset, FileAssumption
<1>2. QED
  BY <1>1, FS_Singleton

\* Workers that are ready after reading the same files without a failure have the
\* same columns and masks, when there is one cube and one model, no table id twice,
\* no empty file and no name that could be in two tables: in whatever order each of
\* them loads and reads, and wherever its tables are in memory.
THEOREM WorkersGetTheSame == Spec => []WorkersAgree
<1>1. SetupInv => WorkersAgree
  <2> SUFFICES ASSUME SetupInv, NEW v \in Ready, NEW w \in Ready,
                      OneOfEach, failed[v] = {}, failed[w] = {}, Unambiguous(v)
               PROVE  Result(v) = Result(w)
    BY DEF WorkersAgree
  <2>1. \A u \in {v, w} : u \in Worker /\ pc[u] = "ready" /\ LoadInv(u) /\ CubeInv(u)
    BY DEF Ready, SetupInv, LoadsInv
  <2>2. files \in SUBSET File
    BY <2>1 DEF LoadInv, Typed
  <2>3. \A u \in {v, w} : Clean(u)
    <3>1. \A f \in files : DirOf[f] \in Directory
      BY <2>2, FileAssumption DEF Directory
    <3>2. QED
      BY <3>1 DEF Clean, OneOfEach, EmptyIn, FilesIn
  <2>4. DistinctIds
    BY DEF OneOfEach, DistinctIds
  <2>5. PICK c, m : FilesIn("cube_desc") = {c} /\ FilesIn("model_desc") = {m}
    BY <2>2, OneFile DEF OneOfEach
  <2>6. ASSUME NEW u \in {v, w}
        PROVE  /\ desc[u] = CubeDesc(CubeJson[c])
               /\ DimensionsInit(model[u], desc[u])
               /\ \E tables : IsModelOf(model[u], ModelJson[m], tables) /\ AreTheTables(tables)
    <3>1. "cube_desc" \notin Range(calls[u])
      <4>1. calls[u] = <<>>
        BY <2>1 DEF CubeInv, IsLoaded
      <4>2. QED
        BY <4>1 DEF Range
    <3>2. desc[u] = CubeDesc(CubeJson[c])
      BY <2>1, <2>3, <2>5, <3>1 DEF CubeInv, HasCube
    <3>3. DimensionsInit(model[u], desc[u])
      BY <2>1 DEF CubeInv, HasColumns
    <3>4. PICK json, tables : /\ IsModelOf(model[u], json, tables)
                              /\ \E f \in FilesIn("model_desc") : json = ModelJson[f]
                              /\ AreTheTables(tables)
      BY <2>1, <2>3, <2>4 DEF CubeInv, HasModel
    <3>5. QED
      BY <2>5, <3>2, <3>3, <3>4
  <2>7. PICK tables : IsModelOf(model[v], ModelJson[m], tables) /\ AreTheTables(tables)
    BY <2>6
  <2>8. PICK others : IsModelOf(model[w], ModelJson[m], others) /\ AreTheTables(others)
    BY <2>6
  <2>9. others = tables
    <3> DEFINE ids == {TableJson[f].id : f \in FilesIn("table")}
    <3>1. ASSUME NEW id \in ids PROVE tables[id] = others[id]
      <4>1. PICK f \in FilesIn("table") : id = TableJson[f].id
        OBVIOUS
      <4>2. tables[id] = TableJson[f]
        BY <2>7, <4>1 DEF AreTheTables
      <4>3. others[id] = TableJson[f]
        BY <2>8, <4>1 DEF AreTheTables
      <4>4. QED
        BY <4>2, <4>3
    <3>2. tables = [id \in ids |-> tables[id]] /\ others = [id \in ids |-> others[id]]
      BY <2>7, <2>8 DEF AreTheTables
    <3> HIDE DEF ids
    <3>3. QED
      BY <3>1, <3>2
  <2> DEFINE cube == CubeDesc(CubeJson[c])
  <2>10. desc[v] = cube /\ desc[w] = cube /\ DimensionsInit(model[v], cube)
    BY <2>6
  <2> HIDE DEF cube
  <2>11. \A n \in Mentions(cube) \cup UNION {Range(model[v].keys[i]) : i \in DOMAIN model[v].keys} :
             IsClear(model[v], n)
    BY <2>10 DEF Unambiguous, IsClear
  <2>12. /\ FlatTableColumns(model[v], cube) = FlatTableColumns(model[w], cube)
         /\ DimensionColumns(model[v], cube) = DimensionColumns(model[w], cube)
         /\ RowKeyColumns(model[v], cube) = RowKeyColumns(model[w], cube)
         /\ Groups(model[v], cube) = Groups(model[w], cube)
    BY <2>7, <2>8, <2>9, <2>10, <2>11, ResultsAgree
  <2>13. QED
    BY <2>10, <2>12 DEF Result
<1>2. QED
  BY <1>1, SetupInvariance, PTL
=============================================================================
