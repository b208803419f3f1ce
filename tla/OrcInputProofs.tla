--------------------------- MODULE OrcInputProofs ---------------------------
(***************************************************************************)
(* For every number of workers, files, rows, stripes and loads, and with   *)
(* every fault of OrcInput, no row reaches a table twice.  Under the       *)
(* hypotheses named below (ReadsOnce, ReadsEveryFile), which the findings  *)
(* show the code needs, the master counts the workers it sent away, nobody *)
(* leaves a table early, and no row is lost: RowDistribution.              *)
(***************************************************************************)
EXTENDS OrcInput, SequenceTheorems, FiniteSetTheorems, TLAPS

\* Handing out a block keeps the files before the last as they are, and moves
\* or drops the last one.
LEMMA HandOutFacts ==
    ASSUME NEW files \in Seq(OrcFileDesc), files # <<>>,
           NEW n, n = Len(files)
    PROVE  /\ n \in Nat \ {0}
           /\ HandOut(files) \in Seq(OrcFileDesc)
           /\ Len(HandOut(files)) \in {n, n - 1}
           /\ \A i \in 1 .. Len(HandOut(files)) :
                /\ HandOut(files)[i].filename = files[i].filename
                /\ i # n => HandOut(files)[i] = files[i]
                /\ i = n => HandOut(files)[i].offset
                               = files[n].offset + kOrcRowBatchSize
<1> DEFINE next == files[n].offset + kOrcRowBatchSize
<1>1. n \in Nat \ {0} /\ files[n] \in OrcFileDesc
  OBVIOUS
<1>2. next \in Nat
  BY <1>1, SizeAssumption DEF OrcFileDesc
<1>3. CASE next > files[n].num_of_rows
  <2>1. HandOut(files) = SubSeq(files, 1, n - 1)
    BY <1>3 DEF HandOut
  <2>2. 1 \in Int /\ n - 1 \in Int /\ \A i \in 1 .. n - 1 : files[i] \in OrcFileDesc
    BY <1>1
  <2>3. /\ SubSeq(files, 1, n - 1) \in Seq(OrcFileDesc)
        /\ Len(SubSeq(files, 1, n - 1)) = IF 1 <= n - 1 THEN (n - 1) - 1 + 1 ELSE 0
        /\ \A i \in 1 .. (n - 1) - 1 + 1 :
             SubSeq(files, 1, n - 1)[i] = files[1 + i - 1]
    BY <2>2, SubSeqProperties
  <2>4. /\ Len(SubSeq(files, 1, n - 1)) = n - 1
        /\ \A i \in 1 .. n - 1 : SubSeq(files, 1, n - 1)[i] = files[i]
    BY <1>1, <2>3
  <2>5. QED
    BY <1>1, <2>1, <2>3, <2>4
<1>4. CASE ~(next > files[n].num_of_rows)
  <2> DEFINE moved == [files[n] EXCEPT !.offset = next]
  <2>1. HandOut(files) = [files EXCEPT ![n] = moved]
    BY <1>4 DEF HandOut
  <2>2. moved \in OrcFileDesc /\ moved.filename = files[n].filename /\ moved.offset = next
    BY <1>1, <1>2 DEF OrcFileDesc
  <2>3. /\ HandOut(files) \in Seq(OrcFileDesc)
        /\ Len(HandOut(files)) = n
        /\ \A i \in 1 .. n : HandOut(files)[i] = IF i = n THEN moved ELSE files[i]
    BY <1>1, <2>1, <2>2
  <2>4. QED
    BY <1>1, <2>2, <2>3
<1>5. QED
  BY <1>3, <1>4

\* The answer that goes with it is a block of the last file.
LEMMA BlockFacts ==
    ASSUME NEW files \in Seq(OrcFileDesc), files # <<>>
    PROVE  /\ Block(files) \in [filename : File, offset : Nat]
           /\ Block(files).filename = files[Len(files)].filename
           /\ Block(files).offset = files[Len(files)].offset
<1>1. files[Len(files)] \in OrcFileDesc
  OBVIOUS
<1>2. QED
  BY <1>1 DEF Block, OrcFileDesc

\* What answer() finds for a url: an initial part of its directory, nothing of
\* which was handed out if the url is browsed only now.
LEMMA FilesOfFacts ==
    ASSUME TypeOK, ListsItsFiles, NEW url \in Url, NEW files \in FilesOf(url)
    PROVE  /\ files \in Seq(OrcFileDesc)
           /\ Len(files) <= Len(PlainFiles[url])
           /\ \A i \in 1 .. Len(files) : files[i].filename = PlainFiles[url][i]
           /\ \/ url \notin DOMAIN finish_dict
              \/ files = <<>>
              \/ url \in DOMAIN files_dict /\ files = files_dict[url]
<1>1. CASE url \in DOMAIN files_dict
  <2>1. files = files_dict[url]
    BY <1>1 DEF TypeOK, FilesOf, Get
  <2>2. files_dict[url] \in Seq(OrcFileDesc)
    BY <1>1 DEF TypeOK
  <2>3. QED
    BY <1>1, <2>1, <2>2 DEF ListsItsFiles
<1>2. CASE url \in DOMAIN finish_dict /\ url \notin DOMAIN files_dict
  <2>1. files = <<>>
    BY <1>2 DEF FilesOf, Get
  <2>2. PlainFiles[url] \in Seq(File) /\ Len(PlainFiles[url]) \in Nat
    BY ListingAssumption
  <2>3. files \in Seq(OrcFileDesc) /\ Len(files) = 0
    BY <2>1, EmptySeq
  <2>4. QED
    BY <2>1, <2>2, <2>3
<1>3. CASE url \notin DOMAIN finish_dict
  <2>1. PICK n \in 0 .. Len(PlainFiles[url]) : files = FirstFiles(url, n)
    BY <1>3, ListingAssumption DEF FilesOf, BrowseHdfs
  <2>2. \A i \in 1 .. n : PlainFiles[url][i] \in File /\ NumRows[PlainFiles[url][i]] \in Nat
    BY <2>1, ListingAssumption, SizeAssumption
  <2>3. n \in Nat /\ \A i \in 1 .. n : files[i] \in OrcFileDesc
    BY <2>1, <2>2, ListingAssumption DEF FirstFiles, OrcFileDesc
  <2>4. files \in Seq(OrcFileDesc) /\ Len(files) = n
    BY <2>1, <2>3 DEF FirstFiles
  <2>5. \A i \in 1 .. n : files[i].filename = PlainFiles[url][i]
    BY <2>1 DEF FirstFiles
  <2>6. QED
    BY <1>3, <2>1, <2>4, <2>5
<1>4. QED
  BY <1>1, <1>2, <1>3 DEF TypeOK

\* One read returns rows of the block the master handed out, and no others.
LEMMA ReadFacts ==
    ASSUME NEW f \in File, NEW offset \in Nat, NEW end \in ReadByBatch(f, offset)
    PROVE  end \in Nat /\ offset <= end /\ end <= offset + kOrcRowBatchSize
<1>1. /\ EndOfBatch(f, offset) \in Nat
      /\ offset <= EndOfBatch(f, offset)
      /\ EndOfBatch(f, offset) <= offset + kOrcRowBatchSize
  <2>1. CASE offset >= NumRows[f]
    BY <2>1, SizeAssumption DEF EndOfBatch
  <2>2. CASE offset < NumRows[f]
    <3>1. StripeEnd[f][offset] \in Nat /\ StripeEnd[f][offset] > offset
      BY <2>2, SizeAssumption, StripeAssumption
    <3>2. QED
      BY <2>2, <3>1, SizeAssumption DEF EndOfBatch
  <2>3. QED
    BY <2>1, <2>2, SizeAssumption
<1>2. end \in offset .. EndOfBatch(f, offset)
  BY <1>1 DEF ReadByBatch
<1>3. QED
  BY <1>1, <1>2, SizeAssumption

-----------------------------------------------------------------------------
\* The types, one variable of one worker at a time.
LEMMA WorkerTypes ==
    ASSUME TypeOK, NEW w \in Worker
    PROVE  /\ pc[w] \in {"next", "waiting", "answered", "done", "crashed"}
           /\ load[w] \in Nat
           /\ reply[w].filename \in File \cup {""} /\ reply[w].offset \in Nat
           /\ buffer[w] \in [fn : File \cup {""}, l : Nat, end : Nat]
           /\ raw_data[w] \in [Row -> Nat]
<1>1. /\ pc \in [Worker -> {"next", "waiting", "answered", "done", "crashed"}]
      /\ load \in [Worker -> 1 .. Len(Program) + 1]
      /\ reply \in [Worker -> [filename : File \cup {""}, offset : Nat]]
      /\ buffer \in [Worker -> [fn : File \cup {""}, l : Nat, end : Nat]]
      /\ raw_data \in [Worker -> [Row -> Nat]]
  BY DEF TypeOK
<1>2. load[w] \in Nat
  <2>1. load[w] \in 1 .. Len(Program) + 1
    BY <1>1
  <2>2. Len(Program) \in Nat
    BY ProgramAssumption
  <2>3. QED
    BY <2>1, <2>2
<1>3. reply[w] \in [filename : File \cup {""}, offset : Nat]
  BY <1>1
<1>4. QED
  BY <1>1, <1>2, <1>3

\* A worker that is not done reads a url of its program: the index the code
\* keeps implicitly, its place in the sequence of read_data calls, is in range.
LEMMA CurrentUrl ==
    ASSUME LoadInProgram, NEW w \in Worker, pc[w] # "done"
    PROVE  /\ Len(Program) \in Nat
           /\ load[w] \in 1 .. Len(Program)
           /\ Program[load[w]] \in Url
<1>1. load[w] \in 1 .. Len(Program)
  BY DEF LoadInProgram
<1>2. QED
  BY <1>1, ProgramAssumption

\* Counting one more, and moving past one more row, keep the types.
LEMMA CountOneMore ==
    ASSUME NEW S, NEW bag \in [S -> Nat], NEW x
    PROVE  [bag EXCEPT ![x] = @ + 1] \in [S -> Nat]
<1>1. \A y \in S : [bag EXCEPT ![x] = @ + 1][y] \in Nat
  <2>1. \A y \in S : bag[y] \in Nat
    OBVIOUS
  <2>2. QED
    BY <2>1
<1>2. QED
  BY <1>1

\* Moving next() past one more buffered row keeps the buffer's type.
LEMMA MovePastOne ==
    ASSUME NEW F, NEW b \in [fn : F, l : Nat, end : Nat]
    PROVE  /\ [b EXCEPT !.l = @ + 1] \in [fn : F, l : Nat, end : Nat]
           /\ [b EXCEPT !.l = @ + 1].fn = b.fn
           /\ [b EXCEPT !.l = @ + 1].l = b.l + 1
           /\ [b EXCEPT !.l = @ + 1].end = b.end
  OBVIOUS

\* TypeOK, action by action.
LEMMA TypeStep ==
    ASSUME TypeOK, LoadInProgram, ListsItsFiles, [Next]_vars
    PROVE  TypeOK' /\ LoadInProgram'
<1>1. CASE Setup
  BY <1>1 DEF Setup, MasterSetupHandler, workerVars, TypeOK, LoadInProgram
<1>2. ASSUME NEW w \in Worker, NextRow(w) PROVE TypeOK' /\ LoadInProgram'
  <2> DEFINE x == <<buffer[w].fn, buffer[w].l>>
             table == [raw_data[w] EXCEPT ![x] = @ + 1]
             rest == [buffer[w] EXCEPT !.l = @ + 1]
  <2>1. table \in [Row -> Nat]
    BY WorkerTypes, CountOneMore
  <2>2. rest \in [fn : File \cup {""}, l : Nat, end : Nat]
    BY WorkerTypes, MovePastOne
  <2>3. /\ raw_data' = [raw_data EXCEPT ![w] = table]
        /\ buffer' = [buffer EXCEPT ![w] = rest]
    BY <1>2 DEF NextRow
  <2>4. /\ raw_data' \in [Worker -> [Row -> Nat]]
        /\ buffer' \in [Worker -> [fn : File \cup {""}, l : Nat, end : Nat]]
    BY <2>1, <2>2, <2>3 DEF TypeOK
  <2>5. QED
    BY <1>2, <2>4 DEF NextRow, masterVars, TypeOK, LoadInProgram
<1>3. ASSUME NEW w \in Worker, AskMaster(w) PROVE TypeOK' /\ LoadInProgram'
  BY <1>3 DEF AskMaster, masterVars, TypeOK, LoadInProgram
<1>4. ASSUME NEW w \in Worker, MasterMainHandler(w) PROVE TypeOK' /\ LoadInProgram'
  <2> DEFINE url == Program[load[w]]
  <2>1. url \in Url /\ pc[w] = "waiting"
    BY <1>4, CurrentUrl DEF MasterMainHandler
  <2>2. ASSUME NEW ret \in [filename : File \cup {""}, offset : Nat], Answered(w, ret)
        PROVE  /\ pc' \in [Worker -> {"next", "waiting", "answered", "done", "crashed"}]
               /\ load' \in [Worker -> 1 .. Len(Program) + 1]
               /\ reply' \in [Worker -> [filename : File \cup {""}, offset : Nat]]
               /\ buffer' \in [Worker -> [fn : File \cup {""}, l : Nat, end : Nat]]
               /\ raw_data' \in [Worker -> [Row -> Nat]]
               /\ LoadInProgram'
    BY <2>1, <2>2 DEF Answered, TypeOK, LoadInProgram
  <2>3. NoBlock \in [filename : File \cup {""}, offset : Nat]
    BY DEF NoBlock
  <2>4. CASE fs = "null" /\ Answered(w, NoBlock) /\ UNCHANGED masterVars
    BY <2>2, <2>3, <2>4 DEF masterVars, TypeOK
  <2>5. ASSUME NEW files \in FilesOf(url),
               AnswerBlock(url, files), Answered(w, Block(files))
        PROVE  TypeOK' /\ LoadInProgram'
    <3>1. files \in Seq(OrcFileDesc) /\ files # <<>>
      BY <2>1, <2>5, FilesOfFacts DEF AnswerBlock
    <3>2. HandOut(files) \in Seq(OrcFileDesc)
      BY <3>1, HandOutFacts
    <3>3. Block(files) \in [filename : File \cup {""}, offset : Nat]
      BY <3>1, BlockFacts
    <3>4. /\ DOMAIN files_dict' = DOMAIN files_dict \cup {url}
          /\ files_dict' \in [DOMAIN files_dict' -> Seq(OrcFileDesc)]
      BY <2>5, <3>2 DEF AnswerBlock, Put, TypeOK
    <3>5. /\ DOMAIN finish_dict' = DOMAIN finish_dict \cup {url}
          /\ finish_dict' \in [DOMAIN finish_dict' -> Nat]
      BY <2>5 DEF AnswerBlock, Put, Get, TypeOK
    <3>6. /\ fs' \in {"unset", "ok", "null"}
          /\ DOMAIN files_dict' \subseteq DOMAIN finish_dict'
          /\ DOMAIN finish_dict' \subseteq Url
      BY <2>1, <2>5, <3>4, <3>5 DEF AnswerBlock, TypeOK
    <3>7. QED
      BY <2>2, <2>5, <3>3, <3>4, <3>5, <3>6 DEF TypeOK
  <2>6. ASSUME NEW files \in FilesOf(url),
               AnswerFinished(url, files), Answered(w, NoBlock)
        PROVE  TypeOK' /\ LoadInProgram'
    <3>1. files \in Seq(OrcFileDesc)
      BY <2>1, FilesOfFacts
    <3>2. /\ DOMAIN finish_dict' = DOMAIN finish_dict \cup {url}
          /\ finish_dict' \in [DOMAIN finish_dict' -> Nat]
      <4>1. Get(finish_dict, url, 0) + 1 \in Nat
        <5>1. finish_dict \in [DOMAIN finish_dict -> Nat]
          BY DEF TypeOK
        <5>2. QED
          BY <5>1 DEF Get
      <4>2. finish_dict' = Put(finish_dict, url, Get(finish_dict, url, 0) + 1)
        BY <2>6 DEF AnswerFinished
      <4>3. QED
        BY <4>1, <4>2 DEF Put, TypeOK
    <3>3. /\ DOMAIN files_dict' \subseteq DOMAIN files_dict \cup {url}
          /\ files_dict' \in [DOMAIN files_dict' -> Seq(OrcFileDesc)]
      <4>1. CASE files_dict' = Erase(files_dict, url)
        BY <4>1 DEF Erase, TypeOK
      <4>2. CASE files_dict' = Put(files_dict, url, files)
        BY <3>1, <4>2 DEF Put, TypeOK
      <4>3. QED
        BY <2>6, <4>1, <4>2 DEF AnswerFinished
    <3>4. /\ fs' \in {"unset", "ok", "null"}
          /\ DOMAIN files_dict' \subseteq DOMAIN finish_dict'
          /\ DOMAIN finish_dict' \subseteq Url
      BY <2>1, <2>6, <3>2, <3>3 DEF AnswerFinished, TypeOK
    <3>5. QED
      BY <2>2, <2>3, <2>6, <3>2, <3>3, <3>4 DEF TypeOK
  <2>7. QED
    BY <1>4, <2>4, <2>5, <2>6 DEF MasterMainHandler
<1>5. ASSUME NEW w \in Worker, LoadEnds(w), UNCHANGED <<masterVars, reply, raw_data>>,
             pc[w] = "answered"
      PROVE  TypeOK' /\ LoadInProgram'
  <2>1. load[w] \in 1 .. Len(Program) /\ Len(Program) \in Nat
    BY <1>5, CurrentUrl
  <2>2. load[w] + 1 \in 1 .. (Len(Program) + 1)
    BY <2>1
  <2>3. load' \in [Worker -> 1 .. Len(Program) + 1]
    BY <1>5, <2>2 DEF LoadEnds, TypeOK
  <2>4. buffer' \in [Worker -> [fn : File \cup {""}, l : Nat, end : Nat]]
    BY <1>5 DEF LoadEnds, NewInputFormat, TypeOK
  <2>5. pc' \in [Worker -> {"next", "waiting", "answered", "done", "crashed"}]
    BY <1>5 DEF LoadEnds, TypeOK
  <2>6. LoadInProgram'
    <3>1. SUFFICES ASSUME NEW v \in Worker, pc'[v] # "done"
                   PROVE  load'[v] \in 1 .. Len(Program)
      BY DEF LoadInProgram
    <3>2. CASE v = w
      <4>1. load[w] # Len(Program) /\ load'[w] = load[w] + 1
        BY <1>5, <3>1, <3>2 DEF LoadEnds, TypeOK
      <4>2. QED
        BY <2>1, <3>2, <4>1
    <3>3. CASE v # w
      BY <1>5, <3>1, <3>3 DEF LoadEnds, TypeOK, LoadInProgram
    <3>4. QED
      BY <3>2, <3>3
  <2>7. QED
    BY <1>5, <2>3, <2>4, <2>5, <2>6 DEF masterVars, TypeOK
<1>6. ASSUME NEW w \in Worker, FetchBlock(w) PROVE TypeOK' /\ LoadInProgram'
  <2> DEFINE f == reply[w].filename
             offset == reply[w].offset
  <2>1. f \in File /\ offset \in Nat
    BY <1>6, WorkerTypes DEF FetchBlock
  <2>2. PICK end \in ReadByBatch(f, offset) :
            \/ end = offset /\ LoadEnds(w)
            \/ /\ end # offset
               /\ pc' = [pc EXCEPT ![w] = "next"]
               /\ buffer' = [buffer EXCEPT ![w] = [fn |-> f, l |-> offset, end |-> end]]
               /\ UNCHANGED load
    BY <1>6 DEF FetchBlock
  <2>3. end \in Nat
    BY <2>1, ReadFacts
  <2>4. UNCHANGED <<masterVars, reply, raw_data>> /\ pc[w] = "answered"
    BY <1>6 DEF FetchBlock
  <2>5. CASE LoadEnds(w)
    BY <1>5, <2>4, <2>5
  <2>6. CASE ~LoadEnds(w)
    <3>1. [fn |-> f, l |-> offset, end |-> end]
              \in [fn : File \cup {""}, l : Nat, end : Nat]
      BY <2>1, <2>3
    <3>2. buffer' \in [Worker -> [fn : File \cup {""}, l : Nat, end : Nat]]
      BY <2>2, <2>6, <3>1 DEF TypeOK
    <3>3. QED
      BY <2>2, <2>4, <2>6, <3>2 DEF masterVars, TypeOK, LoadInProgram
  <2>7. QED
    BY <2>5, <2>6
<1>7. ASSUME NEW w \in Worker, OpenFails(w) PROVE TypeOK' /\ LoadInProgram'
  BY <1>7 DEF OpenFails, masterVars, TypeOK, LoadInProgram
<1>8. CASE UNCHANGED vars
  BY <1>8 DEF vars, masterVars, workerVars, TypeOK, LoadInProgram
<1>9. QED
  BY <1>1, <1>2, <1>3, <1>4, <1>5, <1>6, <1>7, <1>8
  DEF Next, WorkerStep, FetchNothing

-----------------------------------------------------------------------------
\* A row of a file that answer() finds listed at or past the file's offset is
\* free.
LEMMA ListedIsFree ==
    ASSUME TypeOK, ListsItsFiles, NEW url \in Url, NEW files \in FilesOf(url),
           NEW x \in Row, NEW i \in 1 .. Len(files),
           files[i].filename = x[1], files[i].offset <= x[2]
    PROVE  Free(x)
<1>1. /\ i \in 1 .. Len(PlainFiles[url])
      /\ PlainFiles[url][i] = x[1]
  <2>1. Len(files) <= Len(PlainFiles[url]) /\ files[i].filename = PlainFiles[url][i]
    BY FilesOfFacts
  <2>2. Len(files) \in Nat /\ Len(PlainFiles[url]) \in Nat
    BY FilesOfFacts, ListingAssumption
  <2>3. QED
    BY <2>1, <2>2
<1>2. CASE url \notin DOMAIN finish_dict
  BY <1>1, <1>2 DEF Free
<1>3. CASE url \in DOMAIN files_dict /\ files = files_dict[url]
  BY <1>3 DEF Free
<1>4. CASE files = <<>>
  BY <1>4, EmptySeq
<1>5. QED
  BY <1>2, <1>3, <1>4, FilesOfFacts

\* What a step must do to keep the two ownership invariants: free no row, let
\* a worker hold only what it held before or what was free and is not now,
\* in one place, and count a row once.
LEMMA Ownership ==
    ASSUME HeldIsNotFree, OneHolder, NEW w0 \in Worker,
           \A x \in Row : Free(x)' => Free(x),
           \A x \in Row : \A w \in Worker : \A p \in Places :
              Holds(w, p, x)' => \/ \E q \in Places : Holds(w, q, x)
                                 \/ w = w0 /\ Free(x) /\ ~Free(x)',
           \A x \in Row : \A w \in Worker : \A p, q \in Places :
              Holds(w, p, x)' /\ Holds(w, q, x)' => p = q,
           \A x \in Row : \A w \in Worker : raw_data'[w][x] <= 1
    PROVE  HeldIsNotFree' /\ OneHolder'
<1>1. HeldIsNotFree'
  BY DEF HeldIsNotFree
<1>2. ASSUME NEW x \in Row, NEW w \in Worker, NEW v \in Worker,
             NEW p \in Places, NEW q \in Places,
             Holds(w, p, x)', Holds(v, q, x)'
      PROVE  w = v
  BY <1>2 DEF HeldIsNotFree, OneHolder
<1>3. OneHolder'
  BY <1>2 DEF OneHolder
<1>4. QED
  BY <1>1, <1>3

\* The same for the master's answers.
LEMMA AnswerStep ==
    ASSUME IndInv, TypeOK', NEW w \in Worker, MasterMainHandler(w)
    PROVE  ListsItsFiles' /\ HeldIsNotFree' /\ OneHolder'
<1> USE DEF IndInv
<1> DEFINE url == Program[load[w]]
<1>1. url \in Url /\ pc[w] = "waiting"
  BY CurrentUrl DEF MasterMainHandler
<1>2. ASSUME NEW ret, Answered(w, ret)
      PROVE  /\ buffer' = buffer /\ raw_data' = raw_data
             /\ pc'[w] = "answered" /\ reply'[w] = ret
             /\ \A v \in Worker : v # w => pc'[v] = pc[v] /\ reply'[v] = reply[v]
  BY <1>2 DEF Answered, TypeOK
<1>3. ASSUME NEW ret, Answered(w, ret)
      PROVE  \A x \in Row : \A v \in Worker : \A p \in Places :
                Holds(v, p, x)' => \/ Holds(v, p, x)
                                   \/ /\ v = w /\ p = "answer"
                                      /\ ret.filename = x[1]
                                      /\ ret.offset <= x[2]
                                      /\ x[2] < ret.offset + kOrcRowBatchSize
  BY <1>2, <1>3 DEF Holds
<1>4. \A x \in Row : x[1] \in File /\ x[2] \in Nat
  BY DEF Row, RowsOfFile
<1>5. ASSUME Answered(w, NoBlock), ListsItsFiles', \A x \in Row : Free(x)' => Free(x)
      PROVE  HeldIsNotFree' /\ OneHolder'
  <2>1. \A x \in Row : \A v \in Worker : \A p \in Places :
            Holds(v, p, x)' => Holds(v, p, x)
    <3>1. \A x \in Row : NoBlock.filename # x[1]
      BY <1>4, NamesAssumption DEF NoBlock
    <3>2. QED
      BY <1>3, <1>5, <3>1
  <2>2. QED
    BY <1>2, <1>5, <2>1, Ownership DEF OneHolder
<1>6. CASE fs = "null" /\ Answered(w, NoBlock) /\ UNCHANGED masterVars
  BY <1>5, <1>6 DEF ListsItsFiles, Free, masterVars
<1>7. ASSUME NEW files \in FilesOf(url),
             AnswerFinished(url, files), Answered(w, NoBlock)
      PROVE  ListsItsFiles' /\ HeldIsNotFree' /\ OneHolder'
  <2>1. /\ DOMAIN finish_dict' = DOMAIN finish_dict \cup {url}
        /\ DOMAIN files_dict' \subseteq DOMAIN files_dict \cup {url}
        /\ \A u \in DOMAIN files_dict' : u # url => files_dict'[u] = files_dict[u]
        /\ url \in DOMAIN files_dict' => files_dict'[url] = <<>>
    BY <1>7 DEF AnswerFinished, Put, Erase
  <2>2. Len(<<>>) = 0
    BY EmptySeq
  <2>3. ListsItsFiles'
    BY <1>1, <2>1, <2>2, ListingAssumption DEF ListsItsFiles
  <2>4. \A x \in Row : Free(x)' => Free(x)
    BY <2>1, <2>2 DEF Free
  <2>5. QED
    BY <1>5, <1>7, <2>3, <2>4
<1>8. ASSUME NEW files \in FilesOf(url),
             AnswerBlock(url, files), Answered(w, Block(files))
      PROVE  ListsItsFiles' /\ HeldIsNotFree' /\ OneHolder'
  <2> DEFINE n == Len(files)
             h == HandOut(files)
  <2>1. /\ files \in Seq(OrcFileDesc) /\ files # <<>>
        /\ Len(files) <= Len(PlainFiles[url]) /\ Len(PlainFiles[url]) \in Nat
        /\ \A i \in 1 .. n : files[i].filename = PlainFiles[url][i]
    BY <1>1, <1>8, FilesOfFacts, ListingAssumption DEF AnswerBlock
  <2>2. /\ n \in Nat \ {0}
        /\ h \in Seq(OrcFileDesc)
        /\ Len(h) \in {n, n - 1}
        /\ \A i \in 1 .. Len(h) :
             /\ h[i].filename = files[i].filename
             /\ i # n => h[i] = files[i]
             /\ i = n => h[i].offset = files[n].offset + kOrcRowBatchSize
    BY <2>1, HandOutFacts
  <2>3. \A i \in 1 .. Len(h) : i \in 1 .. n /\ i \in 1 .. Len(PlainFiles[url])
    BY <2>1, <2>2
  <2>4. /\ DOMAIN finish_dict' = DOMAIN finish_dict \cup {url}
        /\ DOMAIN files_dict' = DOMAIN files_dict \cup {url}
        /\ \A u \in DOMAIN files_dict : u # url => files_dict'[u] = files_dict[u]
        /\ files_dict'[url] = h
    BY <1>8 DEF AnswerBlock, Put
  <2>5. ListsItsFiles'
    <3>1. Len(h) <= Len(PlainFiles[url])
      BY <2>1, <2>2
    <3>2. \A i \in 1 .. Len(h) : h[i].filename = PlainFiles[url][i]
      BY <2>1, <2>2, <2>3
    <3>3. QED
      BY <2>4, <3>1, <3>2 DEF ListsItsFiles
  <2>6. \A i \in 1 .. n : files[i].offset \in Nat
    <3>1. \A i \in 1 .. n : files[i] \in OrcFileDesc
      BY <2>1
    <3>2. QED
      BY <3>1 DEF OrcFileDesc
  <2>7. ASSUME NEW x \in Row, NEW i \in 1 .. Len(h),
               h[i].filename = x[1], h[i].offset <= x[2]
        PROVE  Free(x)
    <3>1. files[i].filename = x[1] /\ i \in 1 .. n
      BY <2>2, <2>3, <2>7
    <3>2. files[i].offset <= x[2]
      <4>1. CASE i = n
        BY <1>4, <2>2, <2>6, <2>7, <3>1, <4>1, SizeAssumption
      <4>2. CASE i # n
        BY <2>2, <2>7, <4>2
      <4>3. QED
        BY <4>1, <4>2
    <3>3. QED
      BY <1>1, <3>1, <3>2, ListedIsFree
  <2>8. \A x \in Row : Free(x)' => Free(x)
    BY <2>4, <2>7 DEF Free
  <2>9. ASSUME NEW x \in Row,
               Block(files).filename = x[1],
               Block(files).offset <= x[2],
               x[2] < Block(files).offset + kOrcRowBatchSize
        PROVE  Free(x) /\ ~Free(x)'
    <3>1. /\ n \in 1 .. n
          /\ files[n].filename = x[1]
          /\ files[n].offset <= x[2]
          /\ x[2] < files[n].offset + kOrcRowBatchSize
      BY <2>1, <2>2, <2>9, BlockFacts
    <3>2. PlainFiles[url][n] = x[1] /\ n \in 1 .. Len(PlainFiles[url])
      BY <2>1, <2>2, <3>1
    <3>3. Free(x)
      BY <1>1, <3>1, ListedIsFree
    <3>4. ASSUME NEW u \in Url, NEW i \in 1 .. Len(PlainFiles[u]), PlainFiles[u][i] = x[1]
          PROVE  u = url /\ i = n
      BY <1>1, <3>2, <3>4, ListingAssumption
    <3>5. ASSUME NEW u \in DOMAIN files_dict, u # url, NEW i \in 1 .. Len(files_dict[u])
          PROVE  files_dict[u][i].filename # x[1]
      <4>1. u \in Url /\ files_dict[u] \in Seq(OrcFileDesc) /\ PlainFiles[u] \in Seq(File)
        BY <3>5, ListingAssumption DEF TypeOK
      <4>2. i \in 1 .. Len(PlainFiles[u]) /\ files_dict[u][i].filename = PlainFiles[u][i]
        BY <3>5, <4>1 DEF ListsItsFiles
      <4>3. QED
        BY <3>4, <3>5, <4>1, <4>2
    <3>6. ASSUME NEW i \in 1 .. Len(h), h[i].filename = x[1]
          PROVE  ~(h[i].offset <= x[2])
      <4>1. i = n
        BY <1>1, <2>1, <2>2, <2>3, <3>4, <3>6
      <4>2. h[i].offset = files[n].offset + kOrcRowBatchSize
        BY <2>2, <4>1
      <4>3. QED
        BY <1>4, <2>6, <3>1, <4>2, SizeAssumption
    <3>7. ~Free(x)'
      BY <2>4, <3>4, <3>5, <3>6 DEF Free
    <3>8. QED
      BY <3>3, <3>7
  <2>10. \A x \in Row : \A v \in Worker : \A p \in Places :
             Holds(v, p, x)' => \/ Holds(v, p, x)
                                \/ v = w /\ p = "answer" /\ Free(x) /\ ~Free(x)'
    BY <1>3, <1>8, <2>9
  <2>11. \A x \in Row : \A v \in Worker : \A p, q \in Places :
             Holds(v, p, x)' /\ Holds(v, q, x)' => p = q
    BY <2>10 DEF OneHolder, HeldIsNotFree
  <2>12. \A x \in Row : \A v \in Worker : raw_data'[v][x] <= 1
    BY <1>2, <1>8 DEF OneHolder
  <2>13. QED
    BY <2>5, <2>8, <2>10, <2>11, <2>12, Ownership
<1>9. QED
  BY <1>6, <1>7, <1>8 DEF MasterMainHandler

\* ListsItsFiles, and the ownership invariants, action by action.
LEMMA OwnershipStep ==
    ASSUME IndInv, TypeOK', [Next]_vars
    PROVE  ListsItsFiles' /\ HeldIsNotFree' /\ OneHolder'
<1> USE DEF IndInv
<1>1. ASSUME UNCHANGED masterVars
      PROVE  ListsItsFiles' /\ \A x \in Row : Free(x)' => Free(x)
  BY <1>1 DEF ListsItsFiles, Free, masterVars
<1>2. ASSUME UNCHANGED <<finish_dict, files_dict, reply, buffer, raw_data>>,
             \A w \in Worker : pc'[w] = "answered" => pc[w] = "answered"
      PROVE  ListsItsFiles' /\ HeldIsNotFree' /\ OneHolder'
  BY <1>2 DEF ListsItsFiles, HeldIsNotFree, OneHolder, Holds, Free
<1>3. CASE Setup
  BY <1>3, <1>2 DEF Setup, MasterSetupHandler, workerVars
<1>4. CASE UNCHANGED vars
  BY <1>4, <1>2 DEF vars, masterVars, workerVars
<1>5. ASSUME NEW w \in Worker, AskMaster(w) \/ OpenFails(w)
      PROVE  ListsItsFiles' /\ HeldIsNotFree' /\ OneHolder'
  <2>1. \A v \in Worker : pc'[v] = "answered" => pc[v] = "answered"
    BY <1>5 DEF AskMaster, OpenFails, TypeOK
  <2>2. QED
    BY <1>2, <1>5, <2>1 DEF AskMaster, OpenFails, masterVars
<1>6. ASSUME NEW w \in Worker, NextRow(w)
      PROVE  ListsItsFiles' /\ HeldIsNotFree' /\ OneHolder'
  <2> DEFINE y == <<buffer[w].fn, buffer[w].l>>
  <2>1. /\ pc' = pc /\ reply' = reply
        /\ pc[w] = "next"
        /\ buffer[w].l < buffer[w].end
        /\ \A v \in Worker : v # w => buffer'[v] = buffer[v] /\ raw_data'[v] = raw_data[v]
        /\ buffer'[w].fn = buffer[w].fn
        /\ buffer'[w].l = buffer[w].l + 1
        /\ buffer'[w].end = buffer[w].end
        /\ \A x \in Row : raw_data'[w][x] = IF x = y THEN raw_data[w][x] + 1 ELSE raw_data[w][x]
    <3>1. /\ buffer \in [Worker -> [fn : File \cup {""}, l : Nat, end : Nat]]
          /\ raw_data \in [Worker -> [Row -> Nat]]
      BY DEF TypeOK
    <3>2. buffer'[w] = [buffer[w] EXCEPT !.l = @ + 1]
      BY <1>6, <3>1 DEF NextRow
    <3>3. raw_data'[w] = [raw_data[w] EXCEPT ![y] = @ + 1]
      BY <1>6, <3>1 DEF NextRow
    <3>4. buffer[w] \in [fn : File \cup {""}, l : Nat, end : Nat]
      BY <3>1
    <3>5. raw_data[w] \in [Row -> Nat]
      BY <3>1
    <3>6. /\ buffer'[w].fn = buffer[w].fn
          /\ buffer'[w].l = buffer[w].l + 1
          /\ buffer'[w].end = buffer[w].end
      BY <3>2, <3>4, MovePastOne
    <3>7. \A x \in Row : raw_data'[w][x] = IF x = y THEN raw_data[w][x] + 1 ELSE raw_data[w][x]
      BY <3>3, <3>5
    <3>8. QED
      BY <1>6, <3>1, <3>6, <3>7 DEF NextRow
  <2>2. buffer[w].l \in Nat /\ buffer[w].end \in Nat
    BY WorkerTypes
  <2>3. \A x \in Row : x[2] \in Nat /\ x = <<x[1], x[2]>>
    BY DEF Row, RowsOfFile
  <2>4. \A x \in Row : \A v \in Worker : raw_data[v][x] \in Nat
    BY WorkerTypes
  <2>5. \A x \in Row : x = y => Holds(w, "buffer", x)
    BY <2>1, <2>2, <2>3 DEF Holds
  <2>6. \A x \in Row : x = y => raw_data[w][x] = 0
    BY <2>4, <2>5 DEF OneHolder, Holds, Places
  <2>7. \A x \in Row : \A v \in Worker : raw_data'[v][x] <= 1
    BY <2>1, <2>4, <2>6 DEF OneHolder
  <2>8. \A x \in Row : \A v \in Worker : \A p \in Places :
            Holds(v, p, x)' => \/ Holds(v, p, x)
                               \/ v = w /\ p = "table" /\ x = y
    BY <2>1, <2>2, <2>3 DEF Holds
  <2>9. \A x \in Row : x = y => ~Holds(w, "buffer", x)' /\ ~Holds(w, "answer", x)'
    BY <2>1, <2>2, <2>3 DEF Holds
  <2>10. \A x \in Row : \A v \in Worker : \A p \in Places :
            Holds(v, p, x)' => \E q \in Places : Holds(v, q, x)
    BY <2>5, <2>8 DEF Places
  <2>11. \A x \in Row : \A v \in Worker : \A p, q \in Places :
            Holds(v, p, x)' /\ Holds(v, q, x)' => p = q
    BY <2>8, <2>9 DEF Places, OneHolder
  <2>12. QED
    BY <1>1, <1>6, <2>7, <2>10, <2>11, Ownership DEF NextRow
<1>7. ASSUME NEW w \in Worker, LoadEnds(w), UNCHANGED <<masterVars, reply, raw_data>>,
             pc[w] = "answered"
      PROVE  ListsItsFiles' /\ HeldIsNotFree' /\ OneHolder'
  <2>1. /\ \A v \in Worker : pc'[v] = "answered" => pc[v] = "answered"
        /\ \A v \in Worker : v # w => buffer'[v] = buffer[v]
        /\ buffer'[w] = NewInputFormat
    BY <1>7 DEF LoadEnds, TypeOK
  <2>2. \A x \in Row : ~(NewInputFormat.l <= x[2] /\ x[2] < NewInputFormat.end)
    BY DEF NewInputFormat, Row, RowsOfFile
  <2>3. \A x \in Row : \A v \in Worker : \A p \in Places :
            Holds(v, p, x)' => Holds(v, p, x)
    BY <1>7, <2>1, <2>2 DEF Holds
  <2>4. QED
    BY <1>1, <1>7, <2>3, Ownership DEF OneHolder
<1>8. ASSUME NEW w \in Worker, FetchBlock(w)
      PROVE  ListsItsFiles' /\ HeldIsNotFree' /\ OneHolder'
  <2> DEFINE f == reply[w].filename
             offset == reply[w].offset
  <2>1. f \in File /\ offset \in Nat
    BY <1>8, WorkerTypes DEF FetchBlock
  <2>2. PICK end \in ReadByBatch(f, offset) :
            \/ end = offset /\ LoadEnds(w)
            \/ /\ end # offset
               /\ pc' = [pc EXCEPT ![w] = "next"]
               /\ buffer' = [buffer EXCEPT ![w] = [fn |-> f, l |-> offset, end |-> end]]
               /\ UNCHANGED load
    BY <1>8 DEF FetchBlock
  <2>3. end \in Nat /\ offset <= end /\ end <= offset + kOrcRowBatchSize
    BY <2>1, ReadFacts
  <2>4. UNCHANGED <<masterVars, reply, raw_data>> /\ pc[w] = "answered"
    BY <1>8 DEF FetchBlock
  <2>5. CASE LoadEnds(w)
    BY <1>7, <2>4, <2>5
  <2>6. CASE ~LoadEnds(w)
    <3>1. /\ \A v \in Worker : v # w => pc'[v] = pc[v] /\ buffer'[v] = buffer[v]
          /\ pc'[w] = "next"
          /\ buffer'[w].fn = f /\ buffer'[w].l = offset /\ buffer'[w].end = end
      <4>1. /\ pc \in [Worker -> {"next", "waiting", "answered", "done", "crashed"}]
            /\ buffer \in [Worker -> [fn : File \cup {""}, l : Nat, end : Nat]]
        BY DEF TypeOK
      <4>2. /\ buffer'[w] = [fn |-> f, l |-> offset, end |-> end]
            /\ pc'[w] = "next"
        BY <2>2, <2>6, <4>1
      <4>3. \A v \in Worker : v # w => pc'[v] = pc[v] /\ buffer'[v] = buffer[v]
        BY <2>2, <2>6, <4>1
      <4>4. QED
        BY <4>2, <4>3
    <3>2. \A x \in Row : x[2] \in Nat
      BY DEF Row, RowsOfFile
    <3>3. \A x \in Row : Holds(w, "buffer", x)' => Holds(w, "answer", x)
      BY <2>1, <2>3, <2>4, <3>1, <3>2, SizeAssumption DEF Holds
    <3>4. \A x \in Row : /\ ~Holds(w, "answer", x)'
                         /\ Holds(w, "table", x)' => Holds(w, "table", x)
      BY <2>4, <3>1 DEF Holds
    <3>5. \A x \in Row : \A v \in Worker : \A p \in Places :
              v # w /\ Holds(v, p, x)' => Holds(v, p, x)
      BY <2>4, <3>1 DEF Holds
    <3>6. \A x \in Row : \A v \in Worker : \A p \in Places :
              Holds(v, p, x)' => \E q \in Places : Holds(v, q, x)
      BY <3>3, <3>4, <3>5 DEF Places
    <3>7. \A x \in Row : \A v \in Worker : \A p, q \in Places :
              Holds(v, p, x)' /\ Holds(v, q, x)' => p = q
      BY <3>3, <3>4, <3>5 DEF Places, OneHolder
    <3>8. QED
      BY <1>1, <2>4, <3>6, <3>7, Ownership DEF OneHolder
  <2>7. QED
    BY <2>5, <2>6
<1>9. ASSUME NEW w \in Worker, MasterMainHandler(w)
      PROVE  ListsItsFiles' /\ HeldIsNotFree' /\ OneHolder'
  BY <1>9, AnswerStep
<1>10. QED
  BY <1>3, <1>4, <1>5, <1>6, <1>7, <1>8, <1>9 DEF Next, WorkerStep, FetchNothing

-----------------------------------------------------------------------------
\* Before the setup handler has run and anyone has asked, every row is free
\* and nobody holds one.
LEMMA InitInd == Init => IndInv
<1> SUFFICES ASSUME Init PROVE IndInv
  OBVIOUS
<1>1. Len(Program) \in Nat \ {0}
  BY ProgramAssumption, EmptySeq
<1>2. 1 \in 1 .. Len(Program) /\ 1 \in 1 .. Len(Program) + 1
  BY <1>1
<1>3. DOMAIN files_dict = {} /\ DOMAIN finish_dict = {}
  BY DEF Init, MasterInit
<1>4. TypeOK
  BY <1>2, <1>3 DEF Init, MasterInit, NoBlock, NewInputFormat, TypeOK
<1>5. LoadInProgram /\ ListsItsFiles
  BY <1>2, <1>3 DEF Init, LoadInProgram, ListsItsFiles
<1>6. \A x \in Row : \A w \in Worker : \A p \in Places : ~Holds(w, p, x)
  <2>1. \A x \in Row : x[2] \in Nat
    BY DEF Row, RowsOfFile
  <2>2. \A w \in Worker : /\ pc[w] = "next"
                          /\ buffer[w] = NewInputFormat
                          /\ \A x \in Row : raw_data[w][x] = 0
    BY DEF Init
  <2>3. NewInputFormat.l = 0 /\ NewInputFormat.end = 0
    BY DEF NewInputFormat
  <2>4. QED
    BY <2>1, <2>2, <2>3 DEF Holds
<1>7. HeldIsNotFree /\ OneHolder
  BY <1>6 DEF Init, HeldIsNotFree, OneHolder
<1>8. QED
  BY <1>4, <1>5, <1>7 DEF IndInv

\* Every step of the master and of the workers keeps the inductive invariant.
LEMMA StepInd == IndInv /\ [Next]_vars => IndInv'
BY TypeStep, OwnershipStep DEF IndInv

\* The inductive invariant holds in every behaviour.
THEOREM Invariance == Spec => []IndInv
<1>1. QED
  BY InitInd, StepInd, PTL DEF Spec

\* Every variable of the master and of the workers keeps its type: in
\* particular the master's maps hold vectors of file descriptors of known urls.
THEOREM TypeCorrect == Spec => []TypeOK
<1>1. IndInv => TypeOK
  BY DEF IndInv
<1>2. QED
  BY <1>1, Invariance, PTL

\* No row is given to read_line twice, whichever faults the run has.
THEOREM NoRowTwice == Spec => []AtMostOnce
<1>1. IndInv => AtMostOnce
  <2> SUFFICES ASSUME IndInv, NEW x \in Row, NEW w \in Worker
               PROVE  /\ raw_data[w][x] <= 1
                      /\ raw_data[w][x] = 1 =>
                            \A v \in Worker \ {w} : raw_data[v][x] = 0
    BY DEF AtMostOnce
  <2>1. \A v \in Worker : raw_data[v][x] \in Nat
    BY WorkerTypes DEF IndInv
  <2>2. \A v \in Worker : raw_data[v][x] > 0 => Holds(v, "table", x)
    BY DEF Holds
  <2>3. \A v \in Worker : Holds(w, "table", x) /\ Holds(v, "table", x) => w = v
    BY DEF IndInv, OneHolder, Places
  <2>4. QED
    BY <2>1, <2>2, <2>3 DEF IndInv, OneHolder
<1>2. QED
  BY <1>1, Invariance, PTL

-----------------------------------------------------------------------------
(***************************************************************************)
(* The counts, in a program that reads each url once, of files that do not *)
(* end where a batch ends, when the master has its connection and reading  *)
(* a file does not fail.  A file with a whole number of batches is listed  *)
(* once more when its last row is out, and the worker that is sent there   *)
(* ends its load though nobody counted it.                                 *)
(***************************************************************************)

ReadsOnce ==
    /\ \A k, l \in 1 .. Len(Program) : Program[k] = Program[l] => k = l
    /\ \A f \in File : \A m \in Nat : NumRows[f] # m * kOrcRowBatchSize
    /\ Faults \subseteq {"browse", "open"}

\* Files that a batch of rows can be handed out of.
HaveRows(files) ==
    \A i \in 1 .. Len(files) :
        /\ files[i].num_of_rows = NumRows[files[i].filename]
        /\ files[i].offset < files[i].num_of_rows
        /\ \E m \in Nat : files[i].offset = m * kOrcRowBatchSize

ListedHaveRows == \A u \in DOMAIN files_dict : HaveRows(files_dict[u])

AnswersHaveRows ==
    \A w \in Worker : pc[w] = "answered" =>
        \/ reply[w] = NoBlock
        \/ /\ reply[w].filename \in File
           /\ reply[w].offset < NumRows[reply[w].filename]
           /\ \E m \in Nat : reply[w].offset = m * kOrcRowBatchSize

NoneLeftForTheTold ==
    \A k \in 1 .. Len(Program) : Told(k) # {} =>
        /\ Program[k] \in DOMAIN finish_dict
        /\ Get(files_dict, Program[k], <<>>) = <<>>

\* What finish_dict and files_dict have of each url of the program, from the
\* first answer to after the last worker is told.
CountsTold ==
    \A k \in 1 .. Len(Program) :
        /\ Get(finish_dict, Program[k], 0) = Cardinality(Told(k))
        /\ Program[k] \in DOMAIN finish_dict =>
             (Program[k] \notin DOMAIN files_dict <=> Told(k) = Worker)

\* FinishCounts, strengthened: a worker that is sent to a file finds rows there.
CountInv ==
    /\ fs # "null"
    /\ ListedHaveRows
    /\ AnswersHaveRows
    /\ NoneLeftForTheTold
    /\ CountsTold

\* A block that is handed out has rows, and so has what is left.
LEMMA HandOutRows ==
    ASSUME ReadsOnce, NEW files \in Seq(OrcFileDesc), files # <<>>, HaveRows(files)
    PROVE  /\ Block(files).filename \in File
           /\ Block(files).offset < NumRows[Block(files).filename]
           /\ \E m \in Nat : Block(files).offset = m * kOrcRowBatchSize
           /\ HaveRows(HandOut(files))
<1> DEFINE n == Len(files)
           next == files[n].offset + kOrcRowBatchSize
<1>1. n \in Nat \ {0} /\ n \in 1 .. n /\ files[n] \in OrcFileDesc
  OBVIOUS
<1>2. PICK m \in Nat : files[n].offset = m * kOrcRowBatchSize
  BY <1>1 DEF HaveRows
<1>3. /\ files[n].num_of_rows = NumRows[files[n].filename]
      /\ files[n].offset < files[n].num_of_rows
      /\ files[n].filename \in File /\ files[n].offset \in Nat
  BY <1>1 DEF HaveRows, OrcFileDesc
<1>4. next = (m + 1) * kOrcRowBatchSize /\ m + 1 \in Nat /\ next \in Nat
  BY <1>2, <1>3, SizeAssumption
<1>5. /\ Len(HandOut(files)) \in {n, n - 1}
      /\ \A i \in 1 .. Len(HandOut(files)) : i # n => HandOut(files)[i] = files[i]
  BY HandOutFacts
<1>6. ASSUME n \in 1 .. Len(HandOut(files))
      PROVE  /\ HandOut(files)[n].num_of_rows = files[n].num_of_rows
             /\ HandOut(files)[n].filename = files[n].filename
             /\ HandOut(files)[n].offset = next
             /\ next <= files[n].num_of_rows
  <2>1. ~(next > files[n].num_of_rows)
    <3>1. SUFFICES ASSUME next > files[n].num_of_rows PROVE FALSE
      OBVIOUS
    <3>2. HandOut(files) = SubSeq(files, 1, n - 1)
      BY <3>1 DEF HandOut
    <3>3. \A i \in 1 .. n - 1 : files[i] \in OrcFileDesc
      BY <1>1
    <3>4. Len(SubSeq(files, 1, n - 1)) = IF 1 <= n - 1 THEN (n - 1) - 1 + 1 ELSE 0
      BY <1>1, <3>3, SubSeqProperties
    <3>5. QED
      BY <1>1, <1>6, <3>2, <3>4
  <2>2. HandOut(files) = [files EXCEPT ![n].offset = next]
    BY <2>1 DEF HandOut
  <2>3. HandOut(files)[n] = [files[n] EXCEPT !.offset = next]
    BY <1>1, <2>2
  <2>4. files[n].num_of_rows \in Nat
    BY <1>1 DEF OrcFileDesc
  <2>5. QED
    BY <1>1, <1>4, <2>1, <2>3, <2>4 DEF OrcFileDesc
<1>7. ASSUME NEW i \in 1 .. Len(HandOut(files))
      PROVE  /\ HandOut(files)[i].num_of_rows = NumRows[HandOut(files)[i].filename]
             /\ HandOut(files)[i].offset < HandOut(files)[i].num_of_rows
             /\ \E k \in Nat : HandOut(files)[i].offset = k * kOrcRowBatchSize
  <2>1. CASE i = n
    <3>1. files[n].num_of_rows # next
      BY <1>3, <1>4 DEF ReadsOnce
    <3>2. files[n].num_of_rows \in Nat
      BY <1>1 DEF OrcFileDesc
    <3> HIDE DEF next
    <3>3. QED
      BY <1>3, <1>4, <1>6, <2>1, <3>1, <3>2
  <2>2. CASE i # n
    <3>1. HandOut(files)[i] = files[i] /\ i \in 1 .. Len(files)
      BY <1>1, <1>5, <2>2
    <3>2. QED
      BY <3>1 DEF HaveRows
  <2>3. QED
    BY <2>1, <2>2
<1>8. HaveRows(HandOut(files))
  BY <1>7 DEF HaveRows
<1>9. QED
  BY <1>2, <1>3, <1>8 DEF Block

\* The files an answer is about have rows, listed now or before.
LEMMA FilesHaveRows ==
    ASSUME ReadsOnce, TypeOK, ListsItsFiles, ListedHaveRows,
           NEW url \in Url, NEW files \in FilesOf(url)
    PROVE  HaveRows(files)
<1>1. CASE files = <<>>
  BY <1>1 DEF HaveRows
<1>2. CASE url \in DOMAIN files_dict /\ files = files_dict[url]
  BY <1>2 DEF ListedHaveRows
<1>3. CASE url \notin DOMAIN finish_dict
  <2>1. PICK n \in 0 .. Len(PlainFiles[url]) : files = FirstFiles(url, n)
    BY <1>3, ListingAssumption DEF FilesOf, BrowseHdfs
  <2>2. ASSUME NEW i \in 1 .. Len(files)
        PROVE  /\ files[i].num_of_rows = NumRows[files[i].filename]
               /\ files[i].offset < files[i].num_of_rows
               /\ files[i].offset = 0 * kOrcRowBatchSize
    <3>1. i \in 1 .. n /\ n \in Nat /\ i \in 1 .. Len(PlainFiles[url])
      BY <2>1, ListingAssumption DEF FirstFiles
    <3>2. PlainFiles[url][i] \in File
      BY <3>1, ListingAssumption
    <3>3. NumRows[PlainFiles[url][i]] \in Nat /\ NumRows[PlainFiles[url][i]] # 0 * kOrcRowBatchSize
      BY <3>2, SizeAssumption DEF ReadsOnce
    <3>4. 0 * kOrcRowBatchSize = 0
      BY SizeAssumption
    <3>5. QED
      BY <2>1, <3>1, <3>3, <3>4 DEF FirstFiles
  <2>3. QED
    BY <2>2 DEF HaveRows
<1>4. QED
  BY <1>1, <1>2, <1>3, FilesOfFacts


\* The answer that there is nothing names no file.
LEMMA NoBlockName == NoBlock.filename = "" /\ NoBlock.filename \notin File
BY NamesAssumption DEF NoBlock

\* A worker that is sent to rows reads some of them.
LEMMA ReadGoesOn ==
    ASSUME ReadsOnce, NEW f \in File, NEW offset \in Nat, offset < NumRows[f],
           NEW end \in ReadByBatch(f, offset)
    PROVE  end # offset
<1>1. StripeEnd[f][offset] \in Nat /\ StripeEnd[f][offset] > offset /\ NumRows[f] \in Nat
  BY SizeAssumption, StripeAssumption
<1>2. end = EndOfBatch(f, offset)
  BY DEF ReadsOnce, ReadByBatch
<1>3. QED
  BY <1>1, <1>2, SizeAssumption DEF EndOfBatch

\* The workers told are finitely many.
LEMMA ToldFacts ==
    ASSUME NEW k
    PROVE  Told(k) \in SUBSET Worker /\ IsFiniteSet(Told(k)) /\ Cardinality(Told(k)) \in Nat
<1>1. Told(k) \in SUBSET Worker
  BY DEF Told
<1>2. IsFiniteSet(Worker)
  BY WorkerAssumption
<1>3. IsFiniteSet(Told(k))
  BY <1>1, <1>2, FS_Subset
<1>4. QED
  BY <1>1, <1>3, FS_CardinalityType

\* What a worker does by itself changes nobody's being told.
LEMMA ToldAsBefore ==
    ASSUME CountInv, UNCHANGED <<masterVars, reply>>, NEW w \in Worker,
           \A v \in Worker \ {w} : pc'[v] = pc[v] /\ load'[v] = load[v],
           pc'[w] # "answered",
           \A k \in 1 .. Len(Program) :
              load'[w] > k <=> \/ load[w] > k
                               \/ load[w] = k /\ pc[w] = "answered" /\ reply[w] = NoBlock
    PROVE  CountInv'
<1>1. ASSUME NEW k \in 1 .. Len(Program) PROVE Told(k)' = Told(k)
  <2>1. ASSUME NEW v \in Worker PROVE v \in Told(k)' <=> v \in Told(k)
    <3>1. CASE v = w
      BY <3>1 DEF Told
    <3>2. CASE v # w
      BY <3>2 DEF Told
    <3>3. QED
      BY <3>1, <3>2
  <2>2. QED
    BY <2>1 DEF Told
<1>2. (fs # "null")' /\ ListedHaveRows'
  BY DEF CountInv, ListedHaveRows, masterVars
<1>3. AnswersHaveRows'
  BY DEF CountInv, AnswersHaveRows
<1>4. NoneLeftForTheTold' /\ CountsTold'
  BY <1>1 DEF CountInv, NoneLeftForTheTold, CountsTold, masterVars
<1>5. QED
  BY <1>2, <1>3, <1>4 DEF CountInv

\* So every step of a worker keeps the counts.
LEMMA WorkerCounts ==
    ASSUME ReadsOnce, IndInv, CountInv, NEW w \in Worker, WorkerStep(w)
    PROVE  CountInv'
<1>1. /\ pc \in [Worker -> {"next", "waiting", "answered", "done", "crashed"}]
      /\ load \in [Worker -> 1 .. Len(Program) + 1]
      /\ load[w] \in Nat /\ Len(Program) \in Nat
  <2>1. TypeOK
    BY DEF IndInv
  <2>2. load[w] \in Nat
    BY <2>1, WorkerTypes
  <2>3. Len(Program) \in Nat
    BY ProgramAssumption
  <2>4. QED
    BY <2>1, <2>2, <2>3 DEF TypeOK
<1>2. CASE NextRow(w)
  <2>1. UNCHANGED <<masterVars, reply, pc, load>> /\ pc[w] = "next"
    BY <1>2 DEF NextRow
  <2>2. QED
    BY <2>1, ToldAsBefore
<1>3. CASE AskMaster(w)
  <2>1. UNCHANGED <<masterVars, reply, load>> /\ pc[w] = "next" /\ pc' = [pc EXCEPT ![w] = "waiting"]
    BY <1>3 DEF AskMaster
  <2>2. pc'[w] = "waiting" /\ \A v \in Worker \ {w} : pc'[v] = pc[v]
    BY <1>1, <2>1
  <2>3. QED
    BY <2>1, <2>2, ToldAsBefore
<1>4. CASE FetchNothing(w)
  <2>1. /\ UNCHANGED <<masterVars, reply>> /\ pc[w] = "answered" /\ reply[w].filename = ""
        /\ load' = [load EXCEPT ![w] = @ + 1]
        /\ pc' = [pc EXCEPT ![w] = IF load[w] = Len(Program) THEN "done" ELSE "next"]
    BY <1>4 DEF FetchNothing, LoadEnds
  <2>2. reply[w] = NoBlock
    BY <2>1, NamesAssumption DEF CountInv, AnswersHaveRows
  <2>3. /\ pc'[w] # "answered" /\ load'[w] = load[w] + 1
        /\ \A v \in Worker \ {w} : pc'[v] = pc[v] /\ load'[v] = load[v]
    BY <1>1, <2>1
  <2>4. \A k \in 1 .. Len(Program) : load'[w] > k <=> load[w] > k \/ load[w] = k
    BY <1>1, <2>3
  <2>5. QED
    BY <2>1, <2>2, <2>3, <2>4, ToldAsBefore
<1>5. CASE FetchBlock(w)
  <2> DEFINE f == reply[w].filename
             offset == reply[w].offset
  <2>1. /\ UNCHANGED <<masterVars, reply>> /\ pc[w] = "answered" /\ f # ""
    BY <1>5 DEF FetchBlock
  <2>2. reply[w] # NoBlock
    BY <2>1, NoBlockName
  <2> HIDE DEF f, offset
  <2>7. f \in File /\ offset < NumRows[f]
    BY <2>1, <2>2 DEF CountInv, AnswersHaveRows, f, offset
  <2>8. TypeOK
    BY DEF IndInv
  <2>9. offset \in Nat
    BY <2>8, WorkerTypes DEF offset
  <2>3. \A end \in ReadByBatch(f, offset) : end # offset
    BY <2>7, <2>9, ReadGoesOn
  <2>4. pc' = [pc EXCEPT ![w] = "next"] /\ load' = load
    BY <1>5, <2>3 DEF FetchBlock, f, offset
  <2>5. pc'[w] # "answered" /\ \A v \in Worker \ {w} : pc'[v] = pc[v]
    BY <1>1, <2>4
  <2>6. QED
    BY <2>1, <2>2, <2>4, <2>5, ToldAsBefore
<1>6. CASE OpenFails(w)
  <2>1. /\ UNCHANGED <<masterVars, reply, load>> /\ pc[w] = "answered"
        /\ reply[w].filename # "" /\ pc' = [pc EXCEPT ![w] = "crashed"]
    BY <1>6 DEF OpenFails
  <2>2. reply[w] # NoBlock
    BY <2>1, NoBlockName
  <2>3. pc'[w] # "answered" /\ \A v \in Worker \ {w} : pc'[v] = pc[v]
    BY <1>1, <2>1
  <2>4. QED
    BY <2>1, <2>2, <2>3, ToldAsBefore
<1>7. QED
  BY <1>2, <1>3, <1>4, <1>5, <1>6 DEF WorkerStep

\* The master counts a worker when it tells it that nothing is left.
LEMMA MasterCounts ==
    ASSUME ReadsOnce, IndInv, CountInv, NEW w \in Worker, MasterMainHandler(w)
    PROVE  CountInv'
<1>0. PICK n : n = load[w]
  OBVIOUS
<1> DEFINE url == Program[n]
<1>1. /\ TypeOK /\ ListsItsFiles /\ LoadInProgram
      /\ fs # "null" /\ ListedHaveRows /\ AnswersHaveRows /\ NoneLeftForTheTold /\ CountsTold
  BY DEF IndInv, CountInv
<1>2. pc[w] = "waiting" /\ n \in 1 .. Len(Program) /\ url \in Url /\ fs = "ok"
  BY <1>0, <1>1, CurrentUrl DEF MasterMainHandler
<1>3. \A k \in 1 .. Len(Program) : k # n => Program[k] # url
  BY <1>2 DEF ReadsOnce
<1>4. /\ pc \in [Worker -> {"next", "waiting", "answered", "done", "crashed"}]
      /\ load \in [Worker -> 1 .. Len(Program) + 1]
      /\ reply \in [Worker -> [filename : File \cup {""}, offset : Nat]]
      /\ n \in Nat /\ w \notin Told(n)
  <2>1. n \in Nat
    BY <1>0, <1>1, WorkerTypes
  <2>2. ~(n > n)
    BY <2>1
  <2>3. w \notin Told(n)
    BY <1>0, <1>2, <2>2 DEF Told
  <2>4. QED
    BY <1>1, <2>1, <2>3 DEF TypeOK
<1>5. PICK files \in FilesOf(url) :
        \/ AnswerBlock(url, files) /\ Answered(w, Block(files))
        \/ AnswerFinished(url, files) /\ Answered(w, NoBlock)
  BY <1>0, <1>1, <1>2 DEF MasterMainHandler
<1>6. fs' = fs
  BY <1>5 DEF AnswerBlock, AnswerFinished
<1>7. PICK ret : Answered(w, ret) /\ ret \in {Block(files), NoBlock}
  BY <1>5
<1>8. /\ load' = load /\ pc'[w] = "answered" /\ reply'[w] = ret
      /\ \A v \in Worker \ {w} : pc'[v] = pc[v] /\ reply'[v] = reply[v]
  BY <1>4, <1>7 DEF Answered
<1>9. ASSUME NEW k \in 1 .. Len(Program)
      PROVE  Told(k)' = IF k = n /\ ret = NoBlock THEN Told(k) \cup {w} ELSE Told(k)
  <2>1. ASSUME NEW v \in Worker
        PROVE  v \in Told(k)' <=> (v \in Told(k) \/ (v = w /\ k = n /\ ret = NoBlock))
    <3> DEFINE told(p, r) == \/ load[v] > k
                             \/ load[v] = k /\ p = "answered" /\ r = NoBlock
    <3>4. v \in Told(k) <=> told(pc[v], reply[v])
      BY DEF Told
    <3>5. v \in Told(k)' <=> told(pc'[v], reply'[v])
      BY <1>8 DEF Told
    <3>1. CASE v = w
      BY <1>0, <1>2, <1>4, <1>8, <3>1, <3>4, <3>5
    <3>2. CASE v # w
      BY <1>8, <3>2, <3>4, <3>5
    <3>3. QED
      BY <3>1, <3>2
  <2>2. Told(k) \subseteq Worker /\ Told(k)' \subseteq Worker
    BY DEF Told
  <2> DEFINE T == Told(k)'
             S == Told(k)
  <2>3. /\ \A v \in Worker : v \in T <=> (v \in S \/ (v = w /\ k = n /\ ret = NoBlock))
        /\ S \subseteq Worker /\ T \subseteq Worker
    BY <2>1, <2>2
  <2> HIDE DEF T, S
  <2>4. T = IF k = n /\ ret = NoBlock THEN S \cup {w} ELSE S
    BY <2>3
  <2>5. QED
    BY <2>4 DEF T, S
<1>10. files \in Seq(OrcFileDesc) /\ HaveRows(files)
  BY <1>1, <1>2, FilesHaveRows, FilesOfFacts
<1> HIDE DEF url
<1>11. CASE AnswerBlock(url, files) /\ Answered(w, Block(files))
  <2>1. /\ files # <<>> /\ files_dict' = Put(files_dict, url, HandOut(files))
        /\ finish_dict' = Put(finish_dict, url, Get(finish_dict, url, 0))
    BY <1>11 DEF AnswerBlock
  <2>2. /\ Block(files).filename \in File
        /\ Block(files).offset < NumRows[Block(files).filename]
        /\ \E m \in Nat : Block(files).offset = m * kOrcRowBatchSize
        /\ HaveRows(HandOut(files))
    BY <1>10, <2>1, HandOutRows
  <2>3. Block(files) # NoBlock
    BY <2>2, NoBlockName
  <2>4. reply'[w] = Block(files)
    BY <1>4, <1>11 DEF Answered
  <2>5. \A k \in 1 .. Len(Program) : Told(k)' = Told(k)
    BY <1>8, <1>9, <2>3, <2>4
  <2>6. ListedHaveRows'
    BY <1>1, <2>1, <2>2 DEF ListedHaveRows, Put
  <2>7. AnswersHaveRows'
    <3>1. ASSUME NEW v \in Worker, pc'[v] = "answered"
          PROVE  \/ reply'[v] = NoBlock
                 \/ /\ reply'[v].filename \in File
                    /\ reply'[v].offset < NumRows[reply'[v].filename]
                    /\ \E m \in Nat : reply'[v].offset = m * kOrcRowBatchSize
      <4>1. CASE v = w
        BY <2>2, <2>4, <4>1
      <4>2. CASE v # w
        BY <1>1, <1>8, <3>1, <4>2 DEF AnswersHaveRows
      <4>3. QED
        BY <4>1, <4>2
    <3>2. QED
      BY <3>1 DEF AnswersHaveRows
  <2>8. Told(n) = {}
    <3>1. ASSUME Told(n) # {} PROVE FALSE
      <4>1. url \in DOMAIN finish_dict /\ Get(files_dict, url, <<>>) = <<>>
        BY <1>1, <1>2, <3>1 DEF NoneLeftForTheTold, url
      <4>2. files = <<>>
        BY <4>1 DEF FilesOf
      <4>3. QED
        BY <2>1, <4>2
    <3>2. QED
      BY <3>1
  <2>9. NoneLeftForTheTold'
    <3>1. ASSUME NEW k \in 1 .. Len(Program), Told(k) # {}
          PROVE  /\ Program[k] \in DOMAIN finish_dict'
                 /\ Get(files_dict', Program[k], <<>>) = <<>>
      <4>1. k # n /\ Program[k] # url
        BY <1>3, <2>8, <3>1
      <4>2. QED
        BY <1>1, <2>1, <3>1, <4>1 DEF NoneLeftForTheTold, Put, Get
    <3>2. QED
      BY <2>5, <3>1 DEF NoneLeftForTheTold
  <2>10. CountsTold'
    <3>1. ASSUME NEW k \in 1 .. Len(Program)
          PROVE  /\ Get(finish_dict', Program[k], 0) = Cardinality(Told(k))
                 /\ Program[k] \in DOMAIN finish_dict' =>
                      (Program[k] \notin DOMAIN files_dict' <=> Told(k) = Worker)
      <4>1. CASE k = n
        <5>1. Told(k) # Worker /\ Program[k] = url
          BY <2>8, <4>1 DEF url
        <5>2. QED
          BY <1>1, <2>1, <5>1 DEF CountsTold, Put, Get
      <4>2. CASE k # n
        BY <1>1, <1>3, <2>1, <4>2 DEF CountsTold, Put, Get
      <4>3. QED
        BY <4>1, <4>2
    <3>2. QED
      BY <2>5, <3>1 DEF CountsTold
  <2>11. QED
    BY <1>1, <1>6, <2>6, <2>7, <2>9, <2>10 DEF CountInv
<1>12. CASE AnswerFinished(url, files) /\ Answered(w, NoBlock)
  <2> DEFINE finished == Get(finish_dict, url, 0) + 1
  <2>1. /\ files = <<>> /\ finish_dict' = Put(finish_dict, url, finished)
        /\ files_dict' = IF finished = num_workers_alive
                         THEN Erase(files_dict, url) ELSE Put(files_dict, url, <<>>)
    BY <1>12 DEF AnswerFinished
  <2>2. reply'[w] = NoBlock /\ ret = NoBlock
    BY <1>4, <1>8, <1>12 DEF Answered
  <2>3. \A k \in 1 .. Len(Program) :
           Told(k)' = IF k = n THEN Told(k) \cup {w} ELSE Told(k)
    BY <1>9, <2>2
  <2>4. Get(finish_dict, url, 0) = Cardinality(Told(n))
    BY <1>1, <1>2 DEF CountsTold, url
  <2>5. finished = Cardinality(Told(n) \cup {w}) /\ finished \in Nat
    <3>1. IsFiniteSet(Told(n)) /\ Cardinality(Told(n)) \in Nat
      BY ToldFacts
    <3>2. Cardinality(Told(n) \cup {w}) = Cardinality(Told(n)) + 1
      BY <1>4, <3>1, FS_AddElement
    <3>3. QED
      BY <2>4, <3>1, <3>2
  <2>6. finished = num_workers_alive <=> Told(n) \cup {w} = Worker
    <3>1. Told(n) \cup {w} \in SUBSET Worker
      BY ToldFacts
    <3>2. IsFiniteSet(Worker) /\ num_workers_alive = Cardinality(Worker)
      BY WorkerAssumption
    <3>3. Cardinality(Worker) = Cardinality(Told(n) \cup {w}) => Worker = Told(n) \cup {w}
      BY <3>1, <3>2, FS_Subset
    <3>4. QED
      BY <2>5, <3>2, <3>3
  <2> HIDE DEF finished
  <2>7. ListedHaveRows'
    <3>1. HaveRows(<<>>)
      BY DEF HaveRows
    <3>2. QED
      BY <1>1, <2>1, <3>1 DEF ListedHaveRows, Put, Erase
  <2>8. AnswersHaveRows'
    <3>1. ASSUME NEW v \in Worker, pc'[v] = "answered"
          PROVE  \/ reply'[v] = NoBlock
                 \/ /\ reply'[v].filename \in File
                    /\ reply'[v].offset < NumRows[reply'[v].filename]
                    /\ \E m \in Nat : reply'[v].offset = m * kOrcRowBatchSize
      BY <1>1, <1>8, <2>2, <3>1 DEF AnswersHaveRows
    <3>2. QED
      BY <3>1 DEF AnswersHaveRows
  <2>9. \A u : u # url =>
          /\ u \in DOMAIN finish_dict' <=> u \in DOMAIN finish_dict
          /\ u \in DOMAIN files_dict' <=> u \in DOMAIN files_dict
          /\ u \in DOMAIN finish_dict => finish_dict'[u] = finish_dict[u]
          /\ u \in DOMAIN files_dict => files_dict'[u] = files_dict[u]
    BY <2>1 DEF Put, Erase
  <2>10. /\ url \in DOMAIN finish_dict' /\ finish_dict'[url] = finished
         /\ url \in DOMAIN files_dict' => files_dict'[url] = <<>>
         /\ url \notin DOMAIN files_dict' <=> finished = num_workers_alive
    BY <2>1 DEF Put, Erase
  <2>11. ASSUME NEW k \in 1 .. Len(Program)
         PROVE  /\ Told(k)' # {} => /\ Program[k] \in DOMAIN finish_dict'
                                    /\ Get(files_dict', Program[k], <<>>) = <<>>
                /\ Get(finish_dict', Program[k], 0) = Cardinality(Told(k)')
                /\ Program[k] \in DOMAIN finish_dict' =>
                      (Program[k] \notin DOMAIN files_dict' <=> Told(k)' = Worker)
    <3>1. CASE k = n
      <4>1. Program[k] = url
        BY <3>1 DEF url
      <4>2. QED
        <5>1. Told(k)' = Told(k) \cup {w}
          BY <2>3, <3>1
        <5> DEFINE T == Told(k)'
        <5> HIDE DEF T
        <5>2. T = Told(n) \cup {w}
          BY <3>1, <5>1 DEF T
        <5>3. /\ T # {} => /\ Program[k] \in DOMAIN finish_dict'
                           /\ Get(files_dict', Program[k], <<>>) = <<>>
              /\ Get(finish_dict', Program[k], 0) = Cardinality(T)
              /\ Program[k] \in DOMAIN finish_dict' =>
                    (Program[k] \notin DOMAIN files_dict' <=> T = Worker)
          BY <2>5, <2>6, <2>10, <4>1, <5>2 DEF Get
        <5>4. QED
          BY <5>3 DEF T
    <3>2. CASE k # n
      <4>1. Program[k] # url /\ Told(k)' = Told(k)
        BY <1>3, <2>3, <3>2
      <4>2. QED
        BY <1>1, <2>9, <4>1 DEF Get, NoneLeftForTheTold, CountsTold
    <3>3. QED
      BY <3>1, <3>2
  <2>12. NoneLeftForTheTold' /\ CountsTold'
    BY <2>11 DEF NoneLeftForTheTold, CountsTold
  <2>13. QED
    BY <1>1, <1>6, <2>7, <2>8, <2>12 DEF CountInv
<1>13. QED
  BY <1>5, <1>11, <1>12

\* At first nobody was told anything.
LEMMA CountInit == Init => CountInv
<1> SUFFICES ASSUME Init PROVE CountInv
  OBVIOUS
<1>1. /\ fs = "unset" /\ DOMAIN files_dict = {} /\ DOMAIN finish_dict = {}
      /\ \A w \in Worker : pc[w] = "next" /\ load[w] = 1
  BY DEF Init, MasterInit
<1>2. Len(Program) \in Nat
  BY ProgramAssumption
<1>3. \A k \in 1 .. Len(Program) : Told(k) = {}
  BY <1>1, <1>2 DEF Told
<1>4. Cardinality({}) = 0
  BY FS_EmptySet
<1>5. ListedHaveRows /\ AnswersHaveRows
  BY <1>1 DEF ListedHaveRows, AnswersHaveRows
<1>6. NoneLeftForTheTold /\ CountsTold
  BY <1>1, <1>3, <1>4 DEF NoneLeftForTheTold, CountsTold, Get
<1>7. QED
  BY <1>1, <1>5, <1>6 DEF CountInv

\* Nothing that is counted changes when no variable but raw_data does.
LEMMA CountStays ==
    ASSUME CountInv, UNCHANGED <<files_dict, finish_dict, pc, load, reply>>, fs' # "null"
    PROVE  CountInv'
<1>1. ASSUME NEW k \in 1 .. Len(Program) PROVE Told(k)' = Told(k)
  BY DEF Told
<1>2. ListedHaveRows' /\ AnswersHaveRows'
  BY DEF CountInv, ListedHaveRows, AnswersHaveRows
<1>3. NoneLeftForTheTold' /\ CountsTold'
  BY <1>1 DEF CountInv, NoneLeftForTheTold, CountsTold
<1>4. QED
  BY <1>2, <1>3 DEF CountInv

\* Every step keeps the counts.
LEMMA CountStep ==
    ASSUME ReadsOnce, IndInv, CountInv, [Next]_vars
    PROVE  CountInv'
<1>1. CASE Setup
  <2>1. fs' # "null" /\ UNCHANGED <<files_dict, finish_dict, pc, load, reply>>
    BY <1>1 DEF Setup, MasterSetupHandler, ReadsOnce, workerVars
  <2>2. QED
    BY <2>1, CountStays
<1>2. ASSUME NEW w \in Worker, WorkerStep(w) PROVE CountInv'
  BY <1>2, WorkerCounts
<1>3. ASSUME NEW w \in Worker, MasterMainHandler(w) PROVE CountInv'
  BY <1>3, MasterCounts
<1>4. CASE UNCHANGED vars
  BY <1>4, CountStays DEF CountInv, vars, masterVars, workerVars
<1>5. QED
  BY <1>1, <1>2, <1>3, <1>4 DEF Next

\* Whatever the workers' steps and the master's answers interleave: until the
\* last worker is told that a url is used up, finish_dict counts those who were
\* told; then its entry of files_dict goes.
THEOREM FinishCountsTheTold ==
    ASSUME ReadsOnce
    PROVE  Spec => []FinishCounts
<1>1. Init => IndInv /\ CountInv
  BY InitInd, CountInit
<1>2. IndInv /\ CountInv /\ [Next]_vars => (IndInv /\ CountInv)'
  BY StepInd, CountStep
<1>3. IndInv /\ CountInv => FinishCounts
  <2>1. SUFFICES ASSUME CountInv, NEW k \in 1 .. Len(Program)
                 PROVE  /\ Told(k) # Worker =>
                             Get(finish_dict, Program[k], 0) = Cardinality(Told(k))
                        /\ Told(k) \notin {{}, Worker} => Program[k] \in DOMAIN files_dict
                        /\ Told(k) = Worker => Program[k] \notin DOMAIN files_dict
    BY DEF FinishCounts
  <2>2. /\ Get(finish_dict, Program[k], 0) = Cardinality(Told(k))
        /\ Program[k] \in DOMAIN finish_dict =>
             (Program[k] \notin DOMAIN files_dict <=> Told(k) = Worker)
    BY <2>1 DEF CountInv, CountsTold
  <2>3. Told(k) # {} => Program[k] \in DOMAIN finish_dict
    BY <2>1 DEF CountInv, NoneLeftForTheTold
  <2>4. Told(k) = Worker => Told(k) # {}
    BY WorkerAssumption, SizeAssumption, FS_EmptySet
  <2>5. QED
    BY <2>2, <2>3, <2>4
<1>4. QED
  BY <1>1, <1>2, <1>3, PTL DEF Spec

\* Nor does a worker leave a url that has a block to hand out.
LEMMA LeavesStep ==
    ASSUME ReadsOnce, IndInv, CountInv, [Next]_vars
    PROVE  \A w \in Worker : load'[w] # load[w] => Pending(Program[load[w]]) = {}
<1> SUFFICES ASSUME NEW w \in Worker, load'[w] # load[w]
             PROVE  Pending(Program[load[w]]) = {}
  OBVIOUS
<1>1. load \in [Worker -> 1 .. Len(Program) + 1] /\ LoadInProgram
  BY DEF IndInv, TypeOK
<1>2. PICK v \in Worker : FetchNothing(v) \/ FetchBlock(v)
  BY DEF Next, vars, Setup, workerVars, WorkerStep, NextRow, AskMaster, OpenFails,
         MasterMainHandler, Answered
<1>3. CASE FetchNothing(v)
  <2>1. v = w /\ pc[w] = "answered" /\ reply[w].filename = ""
    BY <1>1, <1>3 DEF FetchNothing, LoadEnds
  <2>2. reply[w] = NoBlock
    BY <2>1, NamesAssumption DEF CountInv, AnswersHaveRows
  <2>3. load[w] \in 1 .. Len(Program) /\ w \in Told(load[w])
    BY <1>1, <2>1, <2>2 DEF LoadInProgram, Told
  <2>4. /\ Program[load[w]] \in DOMAIN finish_dict
        /\ Get(files_dict, Program[load[w]], <<>>) = <<>>
    BY <2>3 DEF CountInv, NoneLeftForTheTold
  <2>5. Len(<<>>) = 0 /\ 1 .. 0 = {}
    BY EmptySeq
  <2>6. QED
    BY <2>4, <2>5 DEF Pending
<1>4. CASE FetchBlock(v)
  <2> DEFINE f == reply[v].filename
             offset == reply[v].offset
  <2>1. pc[v] = "answered" /\ f # ""
    BY <1>4 DEF FetchBlock
  <2>2. reply[v] # NoBlock
    BY <2>1, NoBlockName
  <2> HIDE DEF f, offset
  <2>3. f \in File /\ offset < NumRows[f]
    BY <2>1, <2>2 DEF CountInv, AnswersHaveRows, f, offset
  <2>4. offset \in Nat
    BY WorkerTypes DEF IndInv, offset
  <2>5. \A end \in ReadByBatch(f, offset) : end # offset
    BY <2>3, <2>4, ReadGoesOn
  <2>6. load' = load
    BY <1>4, <2>5 DEF FetchBlock, f, offset
  <2>7. QED
    BY <2>6
<1>5. QED
  BY <1>2, <1>3, <1>4

\* A worker goes on to its next load only when the master has no row of the
\* url left for anybody.
THEOREM NobodyLeavesRows ==
    ASSUME ReadsOnce
    PROVE  Spec => LeavesAtTheEnd
<1>1. Init => IndInv /\ CountInv
  BY InitInd, CountInit
<1>2. IndInv /\ CountInv /\ [Next]_vars => (IndInv /\ CountInv)'
  BY StepInd, CountStep
<1>3. IndInv /\ CountInv /\ [Next]_vars =>
         [\A w \in Worker : load'[w] # load[w] => Pending(Program[load[w]]) = {}]_vars
  BY LeavesStep
<1>4. QED
  BY <1>1, <1>2, <1>3, PTL DEF Spec, LeavesAtTheEnd

-----------------------------------------------------------------------------
(***************************************************************************)
(* The rows are taken as RowDistribution promises, when besides the master *)
(* lists every file of a directory, every file is in a table of the        *)
(* program, and stripes end where batches end.  Opening a file may still   *)
(* fail: the worker crashes, and a job without it does not end.            *)
(***************************************************************************)

ReadsEveryFile ==
    /\ ReadsOnce
    /\ "browse" \notin Faults
    /\ \A f \in File : \E k \in 1 .. Len(Program) : \E i \in 1 .. Len(PlainFiles[Program[k]]) :
          PlainFiles[Program[k]][i] = f
    /\ \A f \in File : \A r \in 0 .. NumRows[f] :
          \E m \in Nat : StripeEnd[f][r] = m * kOrcRowBatchSize

\* A worker asks for more, or stops, only when its buffer is used up.
UsedUp == \A w \in Worker : pc[w] # "next" => buffer[w].l = buffer[w].end

\* The rows in a buffer are rows of its file.
BufferedAreRows ==
    \A w \in Worker : buffer[w].l < buffer[w].end =>
        /\ buffer[w].fn \in File
        /\ buffer[w].end <= NumRows[buffer[w].fn]

\* Unless a worker crashed, no row is lost on its way.
NoneLost ==
    \/ \E w \in Worker : pc[w] = "crashed"
    \/ \A x \in Row : Free(x) \/ \E w \in Worker, p \in Places : Holds(w, p, x)

\* IndInv and CountInv, strengthened: rows are not only not doubled, but kept.
KeptInv == UsedUp /\ BufferedAreRows /\ NoneLost

\* A multiple that is greater is greater by one batch at least.
LEMMA NextMultiple ==
    ASSUME NEW b \in Nat \ {0}, NEW m \in Nat, NEW k \in Nat, m * b < k * b
    PROVE  m * b + b <= k * b
<1>1. CASE k <= m
  <2>1. PICK d \in Nat : m = k + d
    <3>1. m - k \in Nat /\ m = k + (m - k)
      BY <1>1
    <3>2. QED
      BY <3>1
  <2>2. m * b = k * b + d * b /\ d * b >= 0
    BY <2>1
  <2>3. QED
    BY <2>2
<1>2. CASE k > m
  <2>1. PICK d \in Nat : k = m + 1 + d
    <3>1. k - m - 1 \in Nat /\ k = m + 1 + (k - m - 1)
      BY <1>2
    <3>2. QED
      BY <3>1
  <2>2. k * b = m * b + b + d * b /\ d * b >= 0
    BY <2>1
  <2>3. QED
    BY <2>2
<1>3. QED
  BY <1>1, <1>2

\* A read where a batch starts returns the batch, or what is left of the file.
LEMMA WholeBatch ==
    ASSUME ReadsEveryFile, NEW f \in File, NEW offset \in Nat, offset < NumRows[f],
           NEW m \in Nat, offset = m * kOrcRowBatchSize,
           NEW end \in ReadByBatch(f, offset)
    PROVE  /\ end \in Nat /\ end <= NumRows[f]
           /\ \A r \in Nat : r < NumRows[f] /\ r < offset + kOrcRowBatchSize => r < end
<1>1. end = EndOfBatch(f, offset)
  BY DEF ReadsEveryFile, ReadsOnce, ReadByBatch
<1>2. NumRows[f] \in Nat /\ offset \in 0 .. NumRows[f]
  BY SizeAssumption
<1>3. StripeEnd[f][offset] \in Nat /\ StripeEnd[f][offset] > offset
  BY <1>2, StripeAssumption
<1>4. PICK k \in Nat : StripeEnd[f][offset] = k * kOrcRowBatchSize
  BY <1>2 DEF ReadsEveryFile
<1>5. offset + kOrcRowBatchSize <= StripeEnd[f][offset]
  BY <1>3, <1>4, NextMultiple, SizeAssumption
<1>6. QED
  BY <1>1, <1>2, <1>3, <1>5, SizeAssumption DEF EndOfBatch

\* At first every row is still in its table's directory.
LEMMA KeptInit == ReadsEveryFile /\ Init => KeptInv
<1> SUFFICES ASSUME ReadsEveryFile, Init PROVE KeptInv
  OBVIOUS
<1>1. /\ DOMAIN finish_dict = {}
      /\ \A w \in Worker : pc[w] = "next" /\ buffer[w] = NewInputFormat
  BY DEF Init, MasterInit
<1>2. NewInputFormat.l = 0 /\ NewInputFormat.end = 0 /\ ~(0 < 0)
  BY DEF NewInputFormat
<1>3. UsedUp /\ BufferedAreRows
  BY <1>1, <1>2 DEF UsedUp, BufferedAreRows
<1>4. ASSUME NEW x \in Row PROVE Free(x)
  <2>1. x[1] \in File
    BY DEF Row, RowsOfFile
  <2>2. PICK k \in 1 .. Len(Program) : \E i \in 1 .. Len(PlainFiles[Program[k]]) :
                                          PlainFiles[Program[k]][i] = x[1]
    BY <2>1 DEF ReadsEveryFile
  <2>3. Program[k] \in Url
    BY ProgramAssumption
  <2>4. QED
    BY <1>1, <2>2, <2>3 DEF Free
<1>5. QED
  BY <1>3, <1>4 DEF KeptInv, NoneLost

\* A step of one worker that leaves the master alone loses no row if the
\* worker goes on holding what it held.
LEMMA KeepsWhatItHeld ==
    ASSUME NoneLost, UNCHANGED masterVars, NEW w \in Worker,
           \A v \in Worker \ {w} : /\ pc'[v] = pc[v] /\ reply'[v] = reply[v]
                                   /\ buffer'[v] = buffer[v] /\ raw_data'[v] = raw_data[v],
           pc[w] # "crashed",
           \A x \in Row : \A p \in Places :
              Holds(w, p, x) => \E q \in Places : Holds(w, q, x)'
    PROVE  NoneLost'
<1>1. CASE \E v \in Worker : pc[v] = "crashed"
  BY <1>1 DEF NoneLost
<1>2. CASE ~\E v \in Worker : pc[v] = "crashed"
  <2>1. ASSUME NEW x \in Row
        PROVE  Free(x)' \/ \E v \in Worker, p \in Places : Holds(v, p, x)'
    <3>1. CASE Free(x)
      BY <3>1 DEF Free, masterVars
    <3>2. CASE \E v \in Worker, p \in Places : Holds(v, p, x)
      <4>1. PICK v \in Worker, p \in Places : Holds(v, p, x)
        BY <3>2
      <4>2. CASE v = w
        BY <4>1, <4>2
      <4>3. CASE v # w
        <5>1. Holds(v, p, x)'
          BY <4>1, <4>3 DEF Holds
        <5>2. QED
          BY <5>1
      <4>4. QED
        BY <4>2, <4>3
    <3>3. QED
      BY <1>2, <3>1, <3>2 DEF NoneLost
  <2>2. QED
    BY <2>1 DEF NoneLost
<1>3. QED
  BY <1>1, <1>2

\* next(): the row at the head of the buffer goes to the table.
LEMMA RowIsTaken ==
    ASSUME IndInv, KeptInv, NEW w \in Worker, NextRow(w)
    PROVE  /\ <<buffer[w].fn, buffer[w].l>> \in Row
           /\ Holds(w, "buffer", <<buffer[w].fn, buffer[w].l>>)
           /\ KeptInv'
<1> DEFINE f == buffer[w].fn
           l == buffer[w].l
           row == <<f, l>>
<1>1. /\ pc[w] = "next" /\ l < buffer[w].end
      /\ raw_data' = [raw_data EXCEPT ![w][row] = @ + 1]
      /\ buffer' = [buffer EXCEPT ![w].l = @ + 1]
      /\ UNCHANGED <<masterVars, pc, load, reply>>
  BY DEF NextRow
<1>2. TypeOK /\ UsedUp /\ BufferedAreRows /\ NoneLost
  BY DEF IndInv, KeptInv
<1>3. f \in File /\ buffer[w].end <= NumRows[f]
  BY <1>1, <1>2 DEF BufferedAreRows
<1>4. buffer[w] \in [fn : File \cup {""}, l : Nat, end : Nat] /\ raw_data[w] \in [Row -> Nat]
  BY <1>2, WorkerTypes
<1>5. l \in Nat /\ buffer[w].end \in Nat
  BY <1>4
<1>6. row \in Row
  BY <1>1, <1>3, <1>5, SizeAssumption DEF Row, RowsOfFile
<1>7. Holds(w, "buffer", row)
  BY <1>1, <1>5 DEF Holds
<1>8. buffer \in [Worker -> [fn : File \cup {""}, l : Nat, end : Nat]] /\ raw_data \in [Worker -> [Row -> Nat]]
  BY <1>2 DEF TypeOK
<1>9. /\ buffer'[w] = [buffer[w] EXCEPT !.l = l + 1]
      /\ \A v \in Worker \ {w} : buffer'[v] = buffer[v]
  BY <1>1, <1>8
<1>10. buffer'[w].fn = f /\ buffer'[w].l = l + 1 /\ buffer'[w].end = buffer[w].end
  BY <1>4, <1>9
<1>11. /\ raw_data'[w] = [raw_data[w] EXCEPT ![row] = @ + 1]
       /\ \A v \in Worker \ {w} : raw_data'[v] = raw_data[v]
  BY <1>1, <1>8
<1> HIDE DEF f, l, row
<1>12. /\ raw_data'[w][row] > 0
       /\ \A x \in Row : raw_data[w][x] > 0 => raw_data'[w][x] > 0
  <2>1. raw_data[w][row] \in Nat /\ raw_data'[w][row] = raw_data[w][row] + 1
    BY <1>4, <1>6, <1>11
  <2>2. \A x \in Row : x # row => raw_data'[w][x] = raw_data[w][x]
    BY <1>4, <1>11
  <2>3. QED
    BY <2>1, <2>2
<1>13. UsedUp'
  <2>1. \A v \in Worker : pc'[v] # "next" => v # w
    BY <1>1
  <2>2. QED
    BY <1>1, <1>2, <1>9, <2>1 DEF UsedUp
<1>14. BufferedAreRows'
  <2>1. ASSUME NEW v \in Worker, buffer'[v].l < buffer'[v].end
        PROVE  buffer'[v].fn \in File /\ buffer'[v].end <= NumRows[buffer'[v].fn]
    <3>1. CASE v = w
      BY <1>3, <1>10, <3>1 DEF f
    <3>2. CASE v # w
      BY <1>2, <1>9, <2>1, <3>2 DEF BufferedAreRows
    <3>3. QED
      BY <3>1, <3>2
  <2>2. QED
    BY <2>1 DEF BufferedAreRows
<1>15. ASSUME NEW x \in Row, NEW p \in Places, Holds(w, p, x)
       PROVE  \E q \in Places : Holds(w, q, x)'
  <2>1. x = <<x[1], x[2]>> /\ x[2] \in Nat
    BY DEF Row, RowsOfFile
  <2>2. CASE p = "answer"
    BY <1>1, <1>15, <2>2 DEF Holds
  <2>3. CASE p = "table"
    BY <1>12, <1>15, <2>3 DEF Holds
  <2>4. CASE p = "buffer"
    <3>1. buffer[w].fn = x[1] /\ l <= x[2] /\ x[2] < buffer[w].end
      BY <1>15, <2>4 DEF Holds, l
    <3>2. CASE x[2] = l
      <4>1. x = row
        BY <2>1, <3>1, <3>2 DEF row, f
      <4>2. Holds(w, "table", x)'
        BY <1>12, <4>1 DEF Holds
      <4>3. QED
        BY <4>2 DEF Places
    <3>3. CASE x[2] # l
      <4>1. l + 1 <= x[2]
        BY <1>5, <2>1, <3>1, <3>3
      <4>2. Holds(w, "buffer", x)'
        BY <1>10, <3>1, <4>1 DEF Holds, f
      <4>3. QED
        BY <4>2 DEF Places
    <3>4. QED
      BY <3>2, <3>3
  <2>5. QED
    BY <2>2, <2>3, <2>4 DEF Places
<1>16. NoneLost'
  BY <1>1, <1>2, <1>9, <1>11, <1>15, KeepsWhatItHeld
<1>17. QED
  BY <1>6, <1>7, <1>13, <1>14, <1>16 DEF KeptInv, row, f, l

\* A step that leaves the buffers and the tables alone, at the end of which the
\* worker that took it does not wait for a row.
LEMMA BuffersStay ==
    ASSUME UsedUp, BufferedAreRows, UNCHANGED buffer, NEW w \in Worker,
           buffer[w].l = buffer[w].end,
           \A v \in Worker \ {w} : pc'[v] = pc[v]
    PROVE  UsedUp' /\ BufferedAreRows'
BY DEF UsedUp, BufferedAreRows

\* A load ends with an empty buffer, and no row in the answer.
LEMMA FetchedNothing ==
    ASSUME IndInv, CountInv, KeptInv, NEW w \in Worker, FetchNothing(w)
    PROVE  KeptInv'
<1>1. /\ pc[w] = "answered" /\ reply[w].filename = ""
      /\ load' = [load EXCEPT ![w] = @ + 1]
      /\ pc' = [pc EXCEPT ![w] = IF load[w] = Len(Program) THEN "done" ELSE "next"]
      /\ buffer' = [buffer EXCEPT ![w] = NewInputFormat]
      /\ UNCHANGED <<masterVars, reply, raw_data>>
  BY DEF FetchNothing, LoadEnds
<1>2. /\ TypeOK /\ UsedUp /\ BufferedAreRows /\ NoneLost
      /\ \A v \in Worker : buffer[v] \in [fn : File \cup {""}, l : Nat, end : Nat]
  BY WorkerTypes DEF IndInv, KeptInv
<1>3. /\ pc \in [Worker -> {"next", "waiting", "answered", "done", "crashed"}]
      /\ DOMAIN buffer = Worker /\ buffer = [v \in Worker |-> buffer[v]]
  BY <1>2 DEF TypeOK
<1>4. /\ \A v \in Worker \ {w} : pc'[v] = pc[v] /\ buffer'[v] = buffer[v]
      /\ buffer'[w] = NewInputFormat
  BY <1>1, <1>3
<1>5. NewInputFormat.l = NewInputFormat.end /\ ~(NewInputFormat.l < NewInputFormat.end)
  <2>1. NewInputFormat.l = 0 /\ NewInputFormat.end = 0
    BY DEF NewInputFormat
  <2>2. QED
    BY <2>1
<1>6. UsedUp' /\ BufferedAreRows'
  BY <1>2, <1>4, <1>5 DEF UsedUp, BufferedAreRows
<1>7. ASSUME NEW x \in Row, NEW p \in Places, Holds(w, p, x)
      PROVE  \E q \in Places : Holds(w, q, x)'
  <2>1. x[1] \in File /\ x[2] \in Nat
    BY DEF Row, RowsOfFile
  <2>2. p # "answer"
    BY <1>1, <1>7, <2>1, NamesAssumption DEF Holds
  <2>3. p # "buffer"
    <3>1. buffer[w].l = buffer[w].end /\ buffer[w].end \in Nat
      BY <1>1, <1>2 DEF UsedUp
    <3>2. QED
      BY <1>7, <2>1, <3>1 DEF Holds
  <2>4. Holds(w, "table", x)'
    BY <1>1, <1>7, <2>2, <2>3 DEF Holds, Places
  <2>5. QED
    BY <2>4 DEF Places
<1>8. NoneLost'
  BY <1>1, <1>2, <1>4, <1>7, KeepsWhatItHeld
<1>9. QED
  BY <1>6, <1>8 DEF KeptInv

\* The whole block that was handed out goes to the buffer.
LEMMA FetchedBlock ==
    ASSUME ReadsEveryFile, IndInv, CountInv, KeptInv, NEW w \in Worker, FetchBlock(w)
    PROVE  KeptInv' /\ load' = load /\ pc' = [pc EXCEPT ![w] = "next"]
<1> DEFINE f == reply[w].filename
           offset == reply[w].offset
<1>1. /\ pc[w] = "answered" /\ f # ""
      /\ UNCHANGED <<masterVars, reply, raw_data>>
  BY DEF FetchBlock
<1>2. reply[w] # NoBlock
  BY <1>1, NoBlockName
<1>3. /\ TypeOK /\ UsedUp /\ BufferedAreRows /\ NoneLost
  BY DEF IndInv, KeptInv
<1>4. \A v \in Worker : buffer[v] \in [fn : File \cup {""}, l : Nat, end : Nat]
  BY <1>3, WorkerTypes
<1>5. offset \in Nat
  BY <1>3, WorkerTypes
<1> HIDE DEF f, offset
<1>6. f \in File /\ offset < NumRows[f] /\ \E m \in Nat : offset = m * kOrcRowBatchSize
  BY <1>1, <1>2 DEF CountInv, AnswersHaveRows, f, offset
<1>7. PICK m \in Nat : offset = m * kOrcRowBatchSize
  BY <1>6
<1>8. \A end \in ReadByBatch(f, offset) : end # offset
  BY <1>5, <1>6, ReadGoesOn DEF ReadsEveryFile
<1>9. PICK end \in ReadByBatch(f, offset) :
        /\ pc' = [pc EXCEPT ![w] = "next"]
        /\ buffer' = [buffer EXCEPT ![w] = [fn |-> f, l |-> offset, end |-> end]]
        /\ UNCHANGED load
  BY <1>8 DEF FetchBlock, f, offset
<1>10. /\ end \in Nat /\ end <= NumRows[f]
       /\ \A r \in Nat : r < NumRows[f] /\ r < offset + kOrcRowBatchSize => r < end
  BY <1>5, <1>6, <1>7, WholeBatch
<1>11. /\ pc \in [Worker -> {"next", "waiting", "answered", "done", "crashed"}]
       /\ DOMAIN buffer = Worker /\ buffer = [v \in Worker |-> buffer[v]]
  BY <1>3 DEF TypeOK
<1>12. /\ \A v \in Worker \ {w} : pc'[v] = pc[v] /\ buffer'[v] = buffer[v]
       /\ pc'[w] = "next"
       /\ buffer'[w].fn = f /\ buffer'[w].l = offset /\ buffer'[w].end = end
  BY <1>9, <1>11
<1>13. UsedUp'
  BY <1>3, <1>12 DEF UsedUp
<1>14. BufferedAreRows'
  <2>1. ASSUME NEW v \in Worker, buffer'[v].l < buffer'[v].end
        PROVE  buffer'[v].fn \in File /\ buffer'[v].end <= NumRows[buffer'[v].fn]
    <3>1. CASE v = w
      BY <1>6, <1>10, <1>12, <3>1
    <3>2. CASE v # w
      BY <1>3, <1>12, <2>1, <3>2 DEF BufferedAreRows
    <3>3. QED
      BY <3>1, <3>2
  <2>2. QED
    BY <2>1 DEF BufferedAreRows
<1>15. ASSUME NEW x \in Row, NEW p \in Places, Holds(w, p, x)
       PROVE  \E q \in Places : Holds(w, q, x)'
  <2>1. x[1] \in File /\ x[2] \in Nat /\ x[2] < NumRows[x[1]]
    BY DEF Row, RowsOfFile
  <2>2. CASE p = "answer"
    <3>1. f = x[1] /\ offset <= x[2] /\ x[2] < offset + kOrcRowBatchSize
      BY <1>15, <2>2 DEF Holds, f, offset
    <3>2. x[2] < end
      BY <1>10, <2>1, <3>1
    <3>3. Holds(w, "buffer", x)'
      BY <1>12, <3>1, <3>2 DEF Holds
    <3>4. QED
      BY <3>3 DEF Places
  <2>3. p # "buffer"
    <3>1. buffer[w].l = buffer[w].end /\ buffer[w].end \in Nat
      BY <1>1, <1>3, <1>4 DEF UsedUp
    <3>2. QED
      BY <1>15, <2>1, <3>1 DEF Holds
  <2>4. CASE p = "table"
    <3>1. Holds(w, "table", x)'
      BY <1>1, <1>15, <2>4 DEF Holds
    <3>2. QED
      BY <3>1 DEF Places
  <2>5. QED
    BY <2>2, <2>3, <2>4 DEF Places
<1>16. NoneLost'
  BY <1>1, <1>3, <1>12, <1>15, KeepsWhatItHeld
<1>17. QED
  BY <1>9, <1>13, <1>14, <1>16 DEF KeptInv

\* A worker that asks holds what it held; one that crashes loses its answer.
LEMMA AskedOrCrashed ==
    ASSUME IndInv, KeptInv, NEW w \in Worker, AskMaster(w) \/ OpenFails(w)
    PROVE  KeptInv'
<1>1. /\ TypeOK /\ UsedUp /\ BufferedAreRows /\ NoneLost
  BY DEF IndInv, KeptInv
<1>2. pc \in [Worker -> {"next", "waiting", "answered", "done", "crashed"}]
  BY <1>1 DEF TypeOK
<1>3. /\ UNCHANGED <<masterVars, load, reply, buffer, raw_data>>
      /\ buffer[w].l = buffer[w].end
  BY <1>1 DEF AskMaster, OpenFails, UsedUp
<1>4. \A v \in Worker \ {w} : pc'[v] = pc[v]
  BY <1>2 DEF AskMaster, OpenFails
<1>5. UsedUp' /\ BufferedAreRows'
  BY <1>1, <1>3, <1>4, BuffersStay
<1>6. CASE AskMaster(w)
  <2>1. pc[w] = "next"
    BY <1>6 DEF AskMaster
  <2>2. ASSUME NEW x \in Row, NEW p \in Places, Holds(w, p, x)
        PROVE  \E q \in Places : Holds(w, q, x)'
    <3>1. Holds(w, p, x)'
      BY <1>3, <2>1, <2>2 DEF Holds
    <3>2. QED
      BY <3>1
  <2>3. NoneLost'
    BY <1>1, <1>3, <1>4, <2>1, <2>2, KeepsWhatItHeld
  <2>4. QED
    BY <1>5, <2>3 DEF KeptInv
<1>7. CASE OpenFails(w)
  <2>1. pc'[w] = "crashed"
    BY <1>2, <1>7 DEF OpenFails
  <2>2. QED
    BY <1>5, <2>1 DEF KeptInv, NoneLost
<1>8. QED
  BY <1>6, <1>7

\* What the master gives up of a free row is in the answer it gives.
LEMMA AnsweredRows ==
    ASSUME ReadsEveryFile, IndInv, CountInv, KeptInv, NEW w \in Worker, MasterMainHandler(w)
    PROVE  KeptInv'
<1> DEFINE url == Program[load[w]]
<1>1. /\ TypeOK /\ ListsItsFiles /\ UsedUp /\ BufferedAreRows /\ NoneLost /\ fs # "null"
  BY DEF IndInv, KeptInv, CountInv
<1>2. url \in Url /\ pc[w] = "waiting"
  BY CurrentUrl DEF MasterMainHandler, IndInv
<1>3. PICK files \in FilesOf(url) :
        \/ AnswerBlock(url, files) /\ Answered(w, Block(files))
        \/ AnswerFinished(url, files) /\ Answered(w, NoBlock)
  BY <1>1 DEF MasterMainHandler
<1>4. PICK ret : Answered(w, ret) /\ (ret = Block(files) \/ files = <<>>)
  BY <1>3 DEF AnswerFinished
<1>5. /\ pc \in [Worker -> {"next", "waiting", "answered", "done", "crashed"}]
      /\ DOMAIN reply = Worker
  BY <1>1 DEF TypeOK
<1>6. /\ buffer' = buffer /\ raw_data' = raw_data
      /\ pc'[w] = "answered" /\ reply'[w] = ret
      /\ \A v \in Worker \ {w} : pc'[v] = pc[v] /\ reply'[v] = reply[v]
  BY <1>4, <1>5 DEF Answered
<1>7. files \in Seq(OrcFileDesc) /\ files_dict \in [DOMAIN files_dict -> Seq(OrcFileDesc)]
  BY <1>1, <1>2, FilesOfFacts DEF TypeOK
<1>8. url \notin DOMAIN finish_dict => files = FirstFiles(url, Len(PlainFiles[url]))
  BY DEF FilesOf, BrowseHdfs, ReadsEveryFile
<1>9. url \in DOMAIN files_dict => files = files_dict[url]
  BY <1>1 DEF FilesOf, Get, TypeOK
<1>10. /\ url \in DOMAIN finish_dict'
       /\ \A u \in DOMAIN finish_dict' : u # url => u \in DOMAIN finish_dict
       /\ \A u \in DOMAIN files_dict : u # url =>
            u \in DOMAIN files_dict' /\ files_dict'[u] = files_dict[u]
       /\ files # <<>> => url \in DOMAIN files_dict' /\ files_dict'[url] = HandOut(files)
  BY <1>3 DEF AnswerBlock, AnswerFinished, Put, Erase
<1> HIDE DEF url
\* A free row is free afterwards, or is in the answer.
<1>11. ASSUME NEW x \in Row, NEW i \in 1 .. Len(files),
              files[i].filename = x[1], files[i].offset <= x[2]
       PROVE  Free(x)' \/ Holds(w, "answer", x)'
  <2> DEFINE n == Len(files)
  <2>1. files # <<>> /\ n \in Nat \ {0} /\ i \in 1 .. n /\ x[2] \in Nat
    BY <1>7, <1>11, EmptySeq DEF Row, RowsOfFile
  <2>2. url \in DOMAIN files_dict' /\ files_dict'[url] = HandOut(files)
    BY <1>10, <2>1
  <2>3. ASSUME NEW j \in 1 .. Len(HandOut(files)), HandOut(files)[j].filename = x[1],
               HandOut(files)[j].offset <= x[2]
        PROVE  Free(x)'
    BY <2>2, <2>3 DEF Free
  <2>4. /\ HandOut(files) \in Seq(OrcFileDesc) /\ Len(HandOut(files)) \in {n, n - 1}
        /\ \A j \in 1 .. Len(HandOut(files)) :
             /\ HandOut(files)[j].filename = files[j].filename
             /\ j # n => HandOut(files)[j] = files[j]
             /\ j = n => HandOut(files)[j].offset = files[n].offset + kOrcRowBatchSize
    BY <1>7, <2>1, HandOutFacts
  <2>5. CASE i # n
    <3>1. i \in 1 .. Len(HandOut(files))
      BY <2>1, <2>4, <2>5
    <3>2. HandOut(files)[i] = files[i]
      BY <2>4, <2>5, <3>1
    <3>3. QED
      BY <1>11, <2>3, <3>1, <3>2
  <2>6. CASE i = n
    <3>1. ret.filename = files[n].filename /\ ret.offset = files[n].offset
      BY <1>4, <1>7, <2>1, BlockFacts
    <3>2. CASE x[2] < files[n].offset + kOrcRowBatchSize
      BY <1>6, <1>11, <2>6, <3>1, <3>2 DEF Holds
    <3>3. CASE ~(x[2] < files[n].offset + kOrcRowBatchSize)
      <4>1. files[n] \in OrcFileDesc /\ HaveRows(files)
        BY <1>1, <1>2, <1>7, <2>1, FilesHaveRows DEF ReadsEveryFile, CountInv, url
      <4>2. files[n].offset \in Nat /\ files[n].num_of_rows = NumRows[x[1]]
        BY <1>11, <2>1, <2>6, <4>1 DEF HaveRows, OrcFileDesc
      <4>3. x[2] < NumRows[x[1]] /\ NumRows[x[1]] \in Nat
        BY SizeAssumption DEF Row, RowsOfFile
      <4>4. ~(files[n].offset + kOrcRowBatchSize > files[n].num_of_rows)
        BY <2>1, <3>3, <4>2, <4>3, SizeAssumption
      <4>5. HandOut(files) = [files EXCEPT ![n].offset = files[n].offset + kOrcRowBatchSize]
        BY <4>4 DEF HandOut
      <4>6. Len(HandOut(files)) = n
        BY <1>7, <4>5
      <4>7. /\ n \in 1 .. Len(HandOut(files)) /\ HandOut(files)[n].filename = x[1]
            /\ HandOut(files)[n].offset = files[n].offset + kOrcRowBatchSize
        BY <1>11, <2>1, <2>4, <2>6, <4>6
      <4>8. HandOut(files)[n].offset <= x[2]
        BY <2>1, <3>3, <4>2, <4>7, SizeAssumption
      <4>9. QED
        BY <2>3, <4>7, <4>8
    <3>4. QED
      BY <3>2, <3>3
  <2>7. QED
    BY <2>5, <2>6
<1>12. ASSUME NEW x \in Row, Free(x)
       PROVE  Free(x)' \/ Holds(w, "answer", x)'
  <2>1. CASE \E u \in Url \ DOMAIN finish_dict :
               \E i \in 1 .. Len(PlainFiles[u]) : PlainFiles[u][i] = x[1]
    <3>0. PICK u \in Url \ DOMAIN finish_dict :
            \E i \in 1 .. Len(PlainFiles[u]) : PlainFiles[u][i] = x[1]
      BY <2>1
    <3>1. PICK i \in 1 .. Len(PlainFiles[u]) : PlainFiles[u][i] = x[1]
      BY <3>0
    <3>2. CASE u = url
      <4>1. files = FirstFiles(url, Len(PlainFiles[url])) /\ Len(PlainFiles[url]) \in Nat
        BY <1>2, <1>8, <3>1, <3>2, ListingAssumption DEF url
      <4>2. /\ Len(files) = Len(PlainFiles[url]) /\ i \in 1 .. Len(files)
            /\ files[i].filename = x[1] /\ files[i].offset = 0
        BY <3>1, <3>2, <4>1 DEF FirstFiles
      <4>3. files[i].offset <= x[2]
        BY <4>2 DEF Row, RowsOfFile
      <4>4. QED
        BY <1>11, <4>2, <4>3
    <3>3. CASE u # url
      <4>1. u \notin DOMAIN finish_dict'
        BY <1>10, <3>1, <3>3
      <4>2. QED
        BY <3>1, <4>1 DEF Free
    <3>4. QED
      BY <3>2, <3>3
  <2>2. CASE \E u \in DOMAIN files_dict : \E i \in 1 .. Len(files_dict[u]) :
               files_dict[u][i].filename = x[1] /\ files_dict[u][i].offset <= x[2]
    <3>0. PICK u \in DOMAIN files_dict :
            \E i \in 1 .. Len(files_dict[u]) :
               files_dict[u][i].filename = x[1] /\ files_dict[u][i].offset <= x[2]
      BY <2>2
    <3>1. PICK i \in 1 .. Len(files_dict[u]) :
            files_dict[u][i].filename = x[1] /\ files_dict[u][i].offset <= x[2]
      BY <3>0
    <3>2. CASE u = url
      BY <1>9, <1>11, <3>1, <3>2 DEF url
    <3>3. CASE u # url
      BY <1>10, <3>1, <3>3 DEF Free
    <3>4. QED
      BY <3>2, <3>3
  <2>3. QED
    BY <1>12, <2>1, <2>2 DEF Free
<1>13. UsedUp' /\ BufferedAreRows'
  <2>1. buffer[w].l = buffer[w].end
    BY <1>1, <1>2 DEF UsedUp
  <2>2. QED
    BY <1>1, <1>6, <2>1, BuffersStay
<1>14. NoneLost'
  <2>1. CASE \E v \in Worker : pc[v] = "crashed"
    <3>1. PICK v \in Worker : pc[v] = "crashed"
      BY <2>1
    <3>2. v # w
      BY <1>2, <3>1
    <3>3. pc'[v] = "crashed"
      BY <1>6, <3>1, <3>2
    <3>4. QED
      BY <3>3 DEF NoneLost
  <2>2. CASE ~\E v \in Worker : pc[v] = "crashed"
    <3>1. ASSUME NEW x \in Row
          PROVE  Free(x)' \/ \E v \in Worker, p \in Places : Holds(v, p, x)'
      <4>1. CASE Free(x)
        BY <1>12, <4>1 DEF Places
      <4>2. CASE \E v \in Worker, p \in Places : Holds(v, p, x)
        <5>1. PICK v \in Worker, p \in Places : Holds(v, p, x)
          BY <4>2
        <5>2. Holds(v, p, x)'
          BY <1>2, <1>6, <5>1 DEF Holds
        <5>3. QED
          BY <5>2
      <4>3. QED
        BY <1>1, <2>2, <4>1, <4>2 DEF NoneLost
    <3>2. QED
      BY <3>1 DEF NoneLost
  <2>3. QED
    BY <2>1, <2>2
<1>15. QED
  BY <1>13, <1>14 DEF KeptInv

\* Every step keeps the rows.
LEMMA KeptStep ==
    ASSUME ReadsEveryFile, IndInv, CountInv, KeptInv, [Next]_vars
    PROVE  KeptInv'
<1>1. ASSUME UNCHANGED <<files_dict, finish_dict, pc, reply, buffer, raw_data>>
      PROVE  KeptInv'
  <2>1. /\ \A x \in Row : Free(x)' <=> Free(x)
        /\ \A x \in Row : \A w \in Worker : \A p \in Places : Holds(w, p, x)' <=> Holds(w, p, x)
    BY <1>1 DEF Free, Holds
  <2>2. QED
    BY <1>1, <2>1 DEF KeptInv, UsedUp, BufferedAreRows, NoneLost
<1>2. CASE Setup \/ UNCHANGED vars
  BY <1>1, <1>2 DEF Setup, MasterSetupHandler, workerVars, vars, masterVars
<1>3. ASSUME NEW w \in Worker, WorkerStep(w) \/ MasterMainHandler(w)
      PROVE  KeptInv'
  BY <1>3, RowIsTaken, FetchedNothing, FetchedBlock, AskedOrCrashed, AnsweredRows DEF WorkerStep
<1>4. QED
  BY <1>2, <1>3 DEF Next

\* When the last worker is done, every row is in a table.
LEMMA NothingIsLeft ==
    ASSUME ReadsEveryFile, IndInv, CountInv, KeptInv, AllDone,
           \A w \in Worker : load[w] = Len(Program) + 1,
           NEW x \in Row
    PROVE  \E w \in Worker : raw_data[w][x] = 1
<1>1. Len(Program) \in Nat /\ x[1] \in File /\ x[2] \in Nat
  BY ProgramAssumption DEF Row, RowsOfFile
<1>2. ~Free(x)
  <2>1. PICK k \in 1 .. Len(Program) : \E i \in 1 .. Len(PlainFiles[Program[k]]) :
                                          PlainFiles[Program[k]][i] = x[1]
    BY <1>1 DEF ReadsEveryFile
  <2>2. PICK i \in 1 .. Len(PlainFiles[Program[k]]) : PlainFiles[Program[k]][i] = x[1]
    BY <2>1
  <2>3. Program[k] \in Url
    BY ProgramAssumption
  <2>4. Worker # {}
    <3>1. Cardinality(Worker) # 0
      BY WorkerAssumption, SizeAssumption
    <3>2. QED
      BY <3>1, FS_EmptySet
  <2>5. Told(k) # {}
    <3>1. \A w \in Worker : load[w] > k
      BY <1>1
    <3>2. QED
      BY <2>4, <3>1 DEF Told
  <2>6. /\ Program[k] \in DOMAIN finish_dict
        /\ Get(files_dict, Program[k], <<>>) = <<>>
    BY <2>5 DEF CountInv, NoneLeftForTheTold
  <2>7. ASSUME NEW u \in Url, NEW j \in 1 .. Len(PlainFiles[u]), PlainFiles[u][j] = x[1]
        PROVE  u = Program[k]
    BY <2>2, <2>3, <2>7, ListingAssumption
  <2>8. ASSUME NEW u \in DOMAIN files_dict, NEW j \in 1 .. Len(files_dict[u]),
               files_dict[u][j].filename = x[1]
        PROVE  FALSE
    <3>1. /\ u \in Url /\ files_dict[u] \in Seq(OrcFileDesc) /\ PlainFiles[u] \in Seq(File)
      BY ListingAssumption DEF IndInv, TypeOK
    <3>2. j \in 1 .. Len(PlainFiles[u]) /\ PlainFiles[u][j] = x[1]
      BY <2>8, <3>1 DEF IndInv, ListsItsFiles
    <3>3. u = Program[k]
      BY <2>7, <3>1, <3>2
    <3>4. files_dict[u] = <<>>
      BY <2>6, <3>3 DEF Get
    <3>5. QED
      BY <3>4, EmptySeq
  <2>9. QED
    BY <2>6, <2>7, <2>8 DEF Free
<1>3. \A w \in Worker : pc[w] # "crashed" /\ pc[w] # "answered" /\ pc[w] # "next"
  BY DEF AllDone
<1>4. PICK w \in Worker, p \in Places : Holds(w, p, x)
  BY <1>2, <1>3 DEF KeptInv, NoneLost
<1>5. p # "answer"
  BY <1>3, <1>4 DEF Holds
<1>6. p # "buffer"
  <2>1. buffer[w].l = buffer[w].end /\ buffer[w].end \in Nat
    BY <1>3, WorkerTypes DEF KeptInv, UsedUp, IndInv
  <2>2. QED
    BY <1>1, <1>4, <2>1 DEF Holds
<1>7. raw_data[w][x] > 0
  BY <1>4, <1>5, <1>6 DEF Holds, Places
<1>8. raw_data[w][x] <= 1 /\ raw_data[w][x] \in Nat
  BY WorkerTypes DEF IndInv, OneHolder
<1>9. QED
  BY <1>7, <1>8

\* A worker that is done went through its whole program.
DoneAtTheEnd == \A w \in Worker : pc[w] = "done" => load[w] = Len(Program) + 1

RefInv == IndInv /\ CountInv /\ KeptInv /\ DoneAtTheEnd

\* The invariants together, at first and in every step.
LEMMA RefInduction ==
    ASSUME ReadsEveryFile
    PROVE  /\ Init => RefInv
           /\ RefInv /\ [Next]_vars => RefInv'
<1>1. ReadsOnce
  BY DEF ReadsEveryFile
<1>2. Init => RefInv
  BY InitInd, CountInit, KeptInit DEF RefInv, DoneAtTheEnd, Init
<1>3. ASSUME RefInv, [Next]_vars PROVE DoneAtTheEnd'
  <2>1. /\ pc \in [Worker -> {"next", "waiting", "answered", "done", "crashed"}]
        /\ load \in [Worker -> 1 .. Len(Program) + 1]
    BY <1>3 DEF RefInv, IndInv, TypeOK
  <2>2. CASE Setup \/ UNCHANGED vars
    BY <1>3, <2>2 DEF Setup, workerVars, vars, RefInv, DoneAtTheEnd
  <2>3. ASSUME NEW w \in Worker,
               NextRow(w) \/ AskMaster(w) \/ OpenFails(w) \/ MasterMainHandler(w)
        PROVE  DoneAtTheEnd'
    <3>1. load' = load /\ \A v \in Worker : pc'[v] = "done" => pc[v] = "done"
      BY <2>1, <2>3 DEF NextRow, AskMaster, OpenFails, MasterMainHandler, Answered
    <3>2. QED
      BY <1>3, <3>1 DEF RefInv, DoneAtTheEnd
  <2>4. ASSUME NEW w \in Worker, LoadEnds(w) PROVE DoneAtTheEnd'
    <3>1. /\ load'[w] = load[w] + 1
          /\ pc'[w] = "done" => load[w] = Len(Program)
          /\ \A v \in Worker \ {w} : load'[v] = load[v] /\ pc'[v] = pc[v]
      BY <2>1, <2>4 DEF LoadEnds
    <3>2. QED
      BY <1>3, <3>1 DEF RefInv, DoneAtTheEnd
  <2>5. ASSUME NEW w \in Worker, FetchNothing(w) PROVE DoneAtTheEnd'
    BY <2>4, <2>5 DEF FetchNothing
  <2>6. ASSUME NEW w \in Worker, FetchBlock(w) PROVE DoneAtTheEnd'
    <3>1. load' = load /\ pc' = [pc EXCEPT ![w] = "next"]
      BY <1>3, <2>6, FetchedBlock DEF RefInv
    <3>2. \A v \in Worker : pc'[v] = "done" => pc[v] = "done"
      BY <2>1, <3>1
    <3>3. QED
      BY <1>3, <3>1, <3>2 DEF RefInv, DoneAtTheEnd
  <2>7. QED
    BY <1>3, <2>2, <2>3, <2>5, <2>6 DEF Next, WorkerStep
<1>4. RefInv /\ [Next]_vars => RefInv'
  BY <1>1, <1>3, StepInd, CountStep, KeptStep DEF RefInv
<1>5. QED
  BY <1>2, <1>4

\* When the last worker is done, every row is in a table.
AllInTables == AllDone => \A x \in Row : \E w \in Worker : raw_data[w][x] = 1

\* The invariants leave no other place for a row.
LEMMA RefInvTables == ReadsEveryFile /\ RefInv => AllInTables
BY NothingIsLeft DEF AllInTables, AllDone, RefInv, DoneAtTheEnd

\* The workers that are done, as RowDistribution counts them.
DoneWorkers == {w \in Worker : pc[w] = "done"}

\* A step of NextRow is a Take; the step that ends a worker's last load is a
\* Stop; no other step shows.
LEMMA MapsToAStep ==
    ASSUME ReadsEveryFile, RefInv, RefInv', AllInTables', [Next]_vars
    PROVE  [Distribution!Next]_<<raw_data, DoneWorkers>>
<1>1. /\ pc \in [Worker -> {"next", "waiting", "answered", "done", "crashed"}]
      /\ load \in [Worker -> 1 .. Len(Program) + 1]
      /\ raw_data \in [Worker -> [Row -> Nat]]
  BY DEF RefInv, IndInv, TypeOK
<1>2. ASSUME UNCHANGED raw_data, \A w \in Worker : pc'[w] = "done" <=> pc[w] = "done"
      PROVE  UNCHANGED <<raw_data, DoneWorkers>>
  BY <1>2 DEF DoneWorkers
<1>3. CASE Setup \/ UNCHANGED vars
  BY <1>2, <1>3 DEF Setup, workerVars, vars
<1>4. ASSUME NEW w \in Worker, AskMaster(w) \/ OpenFails(w) \/ MasterMainHandler(w)
      PROVE  UNCHANGED <<raw_data, DoneWorkers>>
  BY <1>1, <1>2, <1>4 DEF AskMaster, OpenFails, MasterMainHandler, Answered
<1>5. ASSUME NEW w \in Worker, FetchBlock(w)
      PROVE  UNCHANGED <<raw_data, DoneWorkers>>
  <2>1. pc' = [pc EXCEPT ![w] = "next"] /\ pc[w] = "answered" /\ raw_data' = raw_data
    BY <1>5, FetchedBlock DEF RefInv, FetchBlock
  <2>2. QED
    BY <1>1, <1>2, <2>1
<1>6. ASSUME NEW w \in Worker, NextRow(w)
      PROVE  Distribution!Next
  <2> DEFINE x == <<buffer[w].fn, buffer[w].l>>
  <2>1. /\ pc[w] = "next" /\ UNCHANGED pc
        /\ raw_data' = [raw_data EXCEPT ![w][x] = raw_data[w][x] + 1]
    BY <1>6 DEF NextRow
  <2>2. x \in Row /\ Holds(w, "buffer", x)
    BY <1>6, RowIsTaken DEF RefInv
  <2> HIDE DEF x
  <2>3. ASSUME NEW v \in Worker PROVE raw_data[v][x] = 0
    <3>1. ~Holds(v, "table", x)
      BY <2>2 DEF RefInv, IndInv, OneHolder, Places
    <3>2. raw_data[v][x] \in Nat
      BY <1>1, <2>2
    <3>3. QED
      BY <3>1, <3>2 DEF Holds
  <2>4. raw_data' = [raw_data EXCEPT ![w][x] = 1]
    <3>1. raw_data[w][x] + 1 = 1
      BY <2>3
    <3>2. QED
      BY <2>1, <3>1
  <2>5. w \notin DoneWorkers /\ DoneWorkers' = DoneWorkers
    BY <2>1 DEF DoneWorkers
  <2>6. Distribution!Take(w, x)
    BY <2>3, <2>4, <2>5 DEF Distribution!Take, DoneWorkers
  <2>7. QED
    BY <2>2, <2>6 DEF Distribution!Next
<1>7. ASSUME NEW w \in Worker, FetchNothing(w)
      PROVE  [Distribution!Next]_<<raw_data, DoneWorkers>>
  <2>1. /\ pc[w] = "answered" /\ UNCHANGED raw_data
        /\ pc' = [pc EXCEPT ![w] = IF load[w] = Len(Program) THEN "done" ELSE "next"]
    BY <1>7 DEF FetchNothing, LoadEnds
  <2>2. CASE load[w] # Len(Program)
    BY <1>1, <1>2, <2>1, <2>2
  <2>3. CASE load[w] = Len(Program)
    <3>1. /\ w \notin DoneWorkers
          /\ DoneWorkers' = DoneWorkers \cup {w}
      BY <1>1, <2>1, <2>3 DEF DoneWorkers
    <3>2. ASSUME DoneWorkers' = Worker, NEW x \in Row
          PROVE  \E v \in Worker : raw_data[v][x] = 1
      <4>1. AllDone'
        BY <3>2 DEF AllDone, DoneWorkers
      <4>2. \E v \in Worker : raw_data'[v][x] = 1
        BY <4>1 DEF AllInTables
      <4>3. QED
        BY <2>1, <4>2
    <3>3. Distribution!Stop(w)
      BY <2>1, <3>1, <3>2 DEF Distribution!Stop, DoneWorkers
    <3>4. QED
      BY <3>3 DEF Distribution!Next
  <2>4. QED
    BY <2>2, <2>3
<1>8. QED
  BY <1>3, <1>4, <1>5, <1>6, <1>7 DEF Next, WorkerStep

\* The workers, the master and their messages implement RowDistribution: each
\* row is taken once, by one worker, and nobody is the last to stop before all
\* rows are taken.
THEOREM ImplementsRowDistribution ==
    ASSUME ReadsEveryFile
    PROVE  Spec => Distribution!Spec
<1>1. Init => RefInv
  BY RefInduction
<1>2. RefInv /\ [Next]_vars => RefInv'
  BY RefInduction
<1>3. RefInv => AllInTables
  BY RefInvTables
<1>4. Init => Distribution!Init
  BY DEF Init, Distribution!Init
<1>5. RefInv /\ RefInv' /\ AllInTables' /\ [Next]_vars =>
         [Distribution!Next]_(Distribution!vars)
  BY MapsToAStep DEF Distribution!vars, DoneWorkers
<1>6. QED
  BY <1>1, <1>2, <1>3, <1>4, <1>5, PTL DEF Spec, Distribution!Spec

\* So when every worker is done, every row of every table of the program was
\* given to some read_line.
THEOREM EveryRowIsRead ==
    ASSUME ReadsEveryFile
    PROVE  Spec => []Complete
<1>1. Init => RefInv
  BY RefInduction
<1>2. RefInv /\ [Next]_vars => RefInv'
  BY RefInduction
<1>3. RefInv => Complete
  <2> SUFFICES ASSUME RefInv, AllDone,
                      NEW k \in 1 .. Len(Program), NEW x \in RowsOf(Program[k])
               PROVE  \E w \in Worker : raw_data[w][x] > 0
    BY DEF Complete
  <2>1. Program[k] \in Url
    BY ProgramAssumption
  <2>2. x \in Row
    BY <2>1, ListingAssumption DEF RowsOf, Row
  <2>3. PICK w \in Worker : raw_data[w][x] = 1
    BY <2>2, RefInvTables DEF AllInTables
  <2>4. QED
    BY <2>3
<1>4. QED
  BY <1>1, <1>2, <1>3, PTL DEF Spec
=============================================================================
