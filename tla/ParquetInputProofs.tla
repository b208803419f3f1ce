------------------------- MODULE ParquetInputProofs -------------------------
(***************************************************************************)
(* For all workers, files, urls, row groups, programs and faults of        *)
(* ParquetInput: an answer hands out a row group that is left, once, drops *)
(* no file before its end, and counts a url once for each worker told; no  *)
(* row group is lost; and where the names of the program allow it, a row   *)
(* is read by one worker, the loads of a program keep apart, and workers   *)
(* and master implement RowDistribution.                                   *)
(***************************************************************************)
EXTENDS ParquetInput, RecursionTheorems

(***************************************************************************)
(* The answers of the assigner.                                            *)
(***************************************************************************)

\* Writing entries to a map.
LEMMA WriteFacts ==
    ASSUME NEW f, NEW g
    PROVE  /\ DOMAIN Write(f, g) = DOMAIN f \cup DOMAIN g
           /\ \A x \in DOMAIN f : Write(f, g)[x] = f[x]
           /\ \A x \in DOMAIN g \ DOMAIN f : Write(f, g)[x] = g[x]
  BY DEF Write

-----------------------------------------------------------------------------
\* finish_url forgets the names, and nothing else.
LEMMA FinishUrlFacts ==
    ASSUME NEW d, DictsOK(d), NEW S, NEW e, e = FinishUrl(d, S)
    PROVE  /\ DictsOK(e)
           /\ CountedAreOver(d) => CountedAreOver(e)
           /\ DOMAIN e.file_size = DOMAIN d.file_size \ S
           /\ \A p \in DOMAIN e.file_size : /\ e.file_size[p] = d.file_size[p]
                                            /\ e.file_offset[p] = d.file_offset[p]
           /\ DOMAIN e.finish_dict = DOMAIN d.finish_dict \ S
           /\ \A n \in DOMAIN e.finish_dict : e.finish_dict[n] = d.finish_dict[n]
           /\ \A p, g : Left(e, p, g) <=> Left(d, p, g) /\ p \notin S
<1>1. /\ DOMAIN e = {"file_size", "file_offset", "finish_dict"}
      /\ e.file_size = [p \in DOMAIN d.file_size \ S |-> d.file_size[p]]
      /\ e.file_offset = [p \in DOMAIN d.file_offset \ S |-> d.file_offset[p]]
      /\ e.finish_dict = [n \in DOMAIN d.finish_dict \ S |-> d.finish_dict[n]]
  BY DEF FinishUrl, Restrict
<1>2. DictsOK(e)
  BY <1>1 DEF DictsOK
<1>3. CountedAreOver(d) => CountedAreOver(e)
  BY <1>1 DEF CountedAreOver, DictsOK
<1>4. QED
  BY <1>1, <1>2, <1>3 DEF DictsOK, Left

\* Counting an answer moves no offset.
LEMMA CountFinishedFacts ==
    ASSUME NEW d, DictsOK(d), NEW S \in SUBSET (Path \cup Url),
           NEW e, e = CountFinished(d, S)
    PROVE  /\ DictsOK(e)
           /\ e.file_size = d.file_size /\ e.file_offset = d.file_offset
           /\ DOMAIN e.finish_dict = DOMAIN d.finish_dict \cup S
           /\ \A n \in S : e.finish_dict[n] = Get(d.finish_dict, n, 0) + 1
           /\ \A n \in DOMAIN d.finish_dict \ S : e.finish_dict[n] = d.finish_dict[n]
           /\ \A p, g : Left(e, p, g) <=> Left(d, p, g)
           /\ CountedAreOver(d) /\ (\A p \in S : ~IsPending(d, p)) => CountedAreOver(e)
<1> DEFINE counts == [s \in S |-> Get(d.finish_dict, s, 0) + 1]
<1>1. /\ DOMAIN e = {"file_size", "file_offset", "finish_dict"}
      /\ e.file_size = d.file_size /\ e.file_offset = d.file_offset
      /\ e.finish_dict = Write(counts, d.finish_dict)
  BY DEF CountFinished, DictsOK
<1>2. /\ DOMAIN e.finish_dict = DOMAIN d.finish_dict \cup S
      /\ \A n \in S : e.finish_dict[n] = Get(d.finish_dict, n, 0) + 1
      /\ \A n \in DOMAIN d.finish_dict \ S : e.finish_dict[n] = d.finish_dict[n]
  <2>1. DOMAIN counts = S /\ \A n \in S : counts[n] = Get(d.finish_dict, n, 0) + 1
    OBVIOUS
  <2> HIDE DEF counts
  <2>2. /\ DOMAIN e.finish_dict = DOMAIN counts \cup DOMAIN d.finish_dict
        /\ \A n \in DOMAIN counts : e.finish_dict[n] = counts[n]
        /\ \A n \in DOMAIN d.finish_dict \ DOMAIN counts :
              e.finish_dict[n] = d.finish_dict[n]
    BY <1>1 DEF Write
  <2>3. QED
    BY <2>1, <2>2
<1>3. \A n : Get(d.finish_dict, n, 0) + 1 \in Nat
  BY DEF Get, DictsOK
<1>4. DictsOK(e)
  <2>1. \A n \in DOMAIN e.finish_dict : e.finish_dict[n] \in Nat
    BY <1>2, <1>3 DEF DictsOK
  <2>2. DOMAIN e.finish_dict \subseteq Path \cup Url
    BY <1>2 DEF DictsOK
  <2>3. DOMAIN e.file_size \subseteq DOMAIN e.finish_dict
    BY <1>1, <1>2 DEF DictsOK
  <2>4. QED
    BY <1>1, <2>1, <2>2, <2>3 DEF DictsOK
<1>5. ASSUME CountedAreOver(d), \A p \in S : ~IsPending(d, p)
      PROVE  CountedAreOver(e)
  <2>1. SUFFICES ASSUME NEW p \in DOMAIN d.file_size, e.finish_dict[p] > 0
                 PROVE  d.file_offset[p] = d.file_size[p]
    BY <1>1 DEF CountedAreOver
  <2>2. /\ p \in DOMAIN d.file_offset /\ p \in DOMAIN d.finish_dict
        /\ d.file_offset[p] \in 0 .. d.file_size[p] /\ d.file_size[p] \in {0, Len(RowGroups[p])}
    BY <2>1 DEF DictsOK
  <2>3. CASE p \in S
    <3>1. ~(d.file_offset[p] < d.file_size[p])
      BY <1>5, <2>1, <2>2, <2>3 DEF IsPending, Get
    <3>2. Len(RowGroups[p]) \in Nat
      BY <2>1, FilesAssumption DEF DictsOK
    <3>3. QED
      BY <2>2, <3>1, <3>2
  <2>4. CASE p \notin S
    BY <1>2, <1>5, <2>1, <2>2, <2>4 DEF CountedAreOver
  <2>5. QED
    BY <2>3, <2>4
<1>6. QED
  BY <1>1, <1>2, <1>4, <1>5 DEF Left

\* A file whose row groups are left is known, and so are its numbers.
LEMMA PendingFacts ==
    ASSUME NEW d, DictsOK(d), NEW p
    PROVE  /\ IsPending(d, p) => /\ p \in Path /\ p \in DOMAIN d.file_size
                                 /\ p \in DOMAIN d.finish_dict
                                 /\ d.file_offset[p] \in Nat
                                 /\ d.file_size[p] = Len(RowGroups[p])
                                 /\ d.file_offset[p] < Len(RowGroups[p])
                                 /\ Left(d, p, d.file_offset[p])
           /\ ~IsPending(d, p) => /\ p \in DOMAIN d.file_size => d.file_offset[p] = d.file_size[p]
                                  /\ \A g \in Nat : ~Left(d, p, g)
<1>1. CASE p \in DOMAIN d.file_size
  <2>1. /\ p \in Path /\ p \in DOMAIN d.file_offset /\ p \in DOMAIN d.finish_dict
        /\ d.file_size[p] \in {0, Len(RowGroups[p])}
        /\ d.file_offset[p] \in 0 .. d.file_size[p]
    BY <1>1 DEF DictsOK
  <2>2. Len(RowGroups[p]) \in Nat
    BY <2>1, FilesAssumption
  <2>3. IsPending(d, p) <=> d.file_offset[p] < d.file_size[p]
    BY <1>1, <2>1 DEF IsPending, Get
  <2>4. QED
    BY <1>1, <2>1, <2>2, <2>3 DEF Left
<1>2. CASE p \notin DOMAIN d.file_size
  BY <1>2 DEF DictsOK, IsPending, Get, Left
<1>3. QED
  BY <1>1, <1>2

\* A row group is handed out once: after it, the next ones are left.
LEMMA HandOutFacts ==
    ASSUME NEW d, DictsOK(d), NEW p, IsPending(d, p),
           NEW g, g = d.file_offset[p], NEW e, e = HandOut(d, p).dicts
    PROVE  /\ DictsOK(e)
           /\ CountedAreOver(d) => CountedAreOver(e)
           /\ HandOut(d, p).ret = [filename |-> p, offset |-> g]
           /\ p \in Path /\ g \in Nat /\ g < Len(RowGroups[p])
           /\ e.file_size = d.file_size /\ e.finish_dict = d.finish_dict
           /\ Left(d, p, g) /\ ~Left(e, p, g)
           /\ \A q : \A h \in Nat : Left(e, q, h) => Left(d, q, h)
           /\ \A q : \A h \in Nat : Left(d, q, h) => Left(e, q, h) \/ (q = p /\ h = g)
<1>1. /\ p \in Path /\ p \in DOMAIN d.file_size /\ p \in DOMAIN d.finish_dict
      /\ g \in Nat /\ d.file_size[p] = Len(RowGroups[p])
      /\ g < Len(RowGroups[p]) /\ Left(d, p, g)
  BY PendingFacts
<1>2. Len(RowGroups[p]) \in Nat /\ p \in DOMAIN d.file_offset
  BY <1>1, FilesAssumption DEF DictsOK
<1>3. e = [d EXCEPT !.file_offset[p] = @ + 1]
  BY DEF HandOut
<1>4. /\ DOMAIN e = {"file_size", "file_offset", "finish_dict"}
      /\ e.file_size = d.file_size /\ e.finish_dict = d.finish_dict
      /\ e.file_offset = [d.file_offset EXCEPT ![p] = g + 1]
  BY <1>2, <1>3 DEF DictsOK
<1>5. /\ DOMAIN e.file_offset = DOMAIN d.file_offset
      /\ e.file_offset[p] = g + 1
      /\ \A q \in DOMAIN d.file_offset : q # p => e.file_offset[q] = d.file_offset[q]
  BY <1>2, <1>4
<1>6. DictsOK(e)
  <2>1. ASSUME NEW q \in DOMAIN e.file_size
        PROVE  e.file_offset[q] \in 0 .. e.file_size[q]
    <3>1. d.file_offset[q] \in 0 .. d.file_size[q] /\ q \in DOMAIN d.file_offset
      BY <1>4, <2>1 DEF DictsOK
    <3>2. CASE q = p
      BY <1>1, <1>2, <1>4, <1>5, <3>2
    <3>3. CASE q # p
      BY <1>4, <1>5, <3>1, <3>3
    <3>4. QED
      BY <3>2, <3>3
  <2>2. QED
    BY <1>4, <1>5, <2>1 DEF DictsOK
<1>7. ASSUME CountedAreOver(d) PROVE CountedAreOver(e)
  <2>1. SUFFICES ASSUME NEW q \in DOMAIN d.file_size, d.finish_dict[q] > 0
                 PROVE  e.file_offset[q] = d.file_size[q]
    BY <1>4 DEF CountedAreOver
  <2>2. d.file_offset[q] = d.file_size[q] /\ q \in DOMAIN d.file_offset
    BY <1>7, <2>1 DEF CountedAreOver, DictsOK
  <2>3. q # p
    BY <1>1, <1>2, <2>2
  <2>4. QED
    BY <1>5, <2>2, <2>3
<1>8. ~Left(e, p, g)
  BY <1>1, <1>5 DEF Left
<1>9. ASSUME NEW q, NEW h \in Nat, Left(e, q, h) PROVE Left(d, q, h)
  <2>1. q \in DOMAIN d.file_size /\ q \in DOMAIN d.file_offset /\ h < d.file_size[q]
    BY <1>4, <1>9 DEF Left, DictsOK
  <2>2. CASE q = p
    BY <1>1, <1>5, <1>9, <2>1, <2>2 DEF Left
  <2>3. CASE q # p
    BY <1>4, <1>5, <1>9, <2>1, <2>3 DEF Left
  <2>4. QED
    BY <2>2, <2>3
<1>10. HandOut(d, p).ret = [filename |-> p, offset |-> g]
  BY DEF HandOut
<1>11. ASSUME NEW q, NEW h \in Nat, Left(d, q, h), ~(q = p /\ h = g) PROVE Left(e, q, h)
  <2>1. q \in DOMAIN d.file_size /\ q \in DOMAIN d.file_offset
    BY <1>11 DEF Left, DictsOK
  <2>2. d.file_offset[q] <= h /\ h < d.file_size[q]
    BY <1>11 DEF Left
  <2>3. CASE q = p
    <3>1. g <= h /\ h # g
      BY <1>11, <2>2, <2>3
    <3>2. g + 1 <= h
      BY <1>1, <3>1
    <3>3. QED
      BY <1>4, <1>5, <2>1, <2>2, <2>3, <3>2 DEF Left
  <2>4. CASE q # p
    BY <1>4, <1>5, <2>1, <2>2, <2>4 DEF Left
  <2>5. QED
    BY <2>3, <2>4
<1>12. QED
  BY <1>1, <1>4, <1>6, <1>7, <1>8, <1>9, <1>10, <1>11

\* Telling a worker that nothing is left counts the url, or forgets it with
\* the last worker.
LEMMA TellFacts ==
    ASSUME NEW d, DictsOK(d), NEW url \in Url, ~IsPending(d, url),
           NEW c, c = Get(d.finish_dict, url, 0) + 1, NEW e, e = Tell(d, url).dicts
    PROVE  /\ DictsOK(e)
           /\ CountedAreOver(d) => CountedAreOver(e)
           /\ Tell(d, url).ret = NoBlock
           /\ DOMAIN e.file_size \subseteq DOMAIN d.file_size
           /\ DOMAIN d.file_size \ {url} \subseteq DOMAIN e.file_size
           /\ \A q : \A h \in Nat : Left(e, q, h) <=> Left(d, q, h)
           /\ c = num_workers_alive => url \notin DOMAIN e.finish_dict
           /\ c # num_workers_alive => url \in DOMAIN e.finish_dict /\ e.finish_dict[url] = c
           /\ \A n : n # url => (n \in DOMAIN e.finish_dict <=> n \in DOMAIN d.finish_dict)
           /\ \A n \in DOMAIN e.finish_dict : n # url => e.finish_dict[n] = d.finish_dict[n]
<1> DEFINE counted == CountFinished(d, {url})
<1>1. {url} \in SUBSET (Path \cup Url)
  OBVIOUS
<1>2. /\ DictsOK(counted)
      /\ counted.file_size = d.file_size /\ counted.file_offset = d.file_offset
      /\ DOMAIN counted.finish_dict = DOMAIN d.finish_dict \cup {url}
      /\ counted.finish_dict[url] = c
      /\ \A n \in DOMAIN d.finish_dict \ {url} : counted.finish_dict[n] = d.finish_dict[n]
      /\ \A q, h : Left(counted, q, h) <=> Left(d, q, h)
      /\ CountedAreOver(d) => CountedAreOver(counted)
  BY <1>1, CountFinishedFacts
<1>3. /\ Tell(d, url).ret = NoBlock
      /\ e = IF c = num_workers_alive THEN FinishUrl(counted, {url}) ELSE counted
  BY <1>2 DEF Tell
<1>4. CASE c # num_workers_alive
  <2>1. e = counted
    BY <1>3, <1>4
  <2> HIDE DEF counted
  <2>2. QED
    BY <1>2, <1>3, <1>4, <2>1
<1>5. CASE c = num_workers_alive
  <2>1. e = FinishUrl(counted, {url})
    BY <1>3, <1>5
  <2> HIDE DEF counted
  <2>2. /\ DictsOK(e)
        /\ CountedAreOver(counted) => CountedAreOver(e)
        /\ DOMAIN e.file_size = DOMAIN counted.file_size \ {url}
        /\ DOMAIN e.finish_dict = DOMAIN counted.finish_dict \ {url}
        /\ \A n \in DOMAIN e.finish_dict : e.finish_dict[n] = counted.finish_dict[n]
        /\ \A q, h : Left(e, q, h) <=> Left(counted, q, h) /\ q \notin {url}
    BY <1>2, <2>1, FinishUrlFacts
  <2>3. \A h \in Nat : ~Left(d, url, h)
    BY PendingFacts
  <2>4. QED
    BY <1>2, <1>3, <1>5, <2>2, <2>3
<1>6. QED
  BY <1>4, <1>5

-----------------------------------------------------------------------------
\* Browsing enters files from their first row group, not yet counted.
LEMMA EnterFacts ==
    ASSUME NEW d, DictsOK(d), NEW paths \in SUBSET Path, NEW e, e = Enter(d, paths)
    PROVE  /\ DictsOK(e)
           /\ CountedAreOver(d) => CountedAreOver(e)
           /\ DOMAIN e.file_size = DOMAIN d.file_size \cup paths
           /\ \A p \in DOMAIN d.file_size : ~IsPending(e, p) => ~IsPending(d, p)
           /\ \A p, h : Left(e, p, h) => Left(d, p, h) \/ p \in paths
           /\ \A p : \A h \in Nat : Left(d, p, h) => Left(e, p, h)
           /\ \A p \in paths : \A h \in Nat : h < Len(RowGroups[p]) => Left(e, p, h)
           /\ DOMAIN e.finish_dict = DOMAIN d.finish_dict \cup paths
           /\ \A n \in paths : e.finish_dict[n] = 0
           /\ \A n \in DOMAIN d.finish_dict \ paths : e.finish_dict[n] = d.finish_dict[n]
<1>1. /\ DOMAIN e = {"file_size", "file_offset", "finish_dict"}
      /\ e.file_size = Write([p \in paths |-> Len(RowGroups[p])], d.file_size)
      /\ e.file_offset = Write(Zeros(paths), d.file_offset)
      /\ e.finish_dict = Write(Zeros(paths), d.finish_dict)
  BY DEF Enter
<1>2. /\ DOMAIN e.file_size = DOMAIN d.file_size \cup paths
      /\ \A p \in paths : e.file_size[p] = Len(RowGroups[p])
      /\ \A p \in DOMAIN d.file_size \ paths : e.file_size[p] = d.file_size[p]
  BY <1>1 DEF Write
<1>3. /\ DOMAIN e.file_offset = DOMAIN d.file_size \cup paths
      /\ \A p \in paths : e.file_offset[p] = 0
      /\ \A p \in DOMAIN d.file_size \ paths : e.file_offset[p] = d.file_offset[p]
  BY <1>1 DEF Write, Zeros, DictsOK
<1>4. /\ DOMAIN e.finish_dict = DOMAIN d.finish_dict \cup paths
      /\ \A n \in paths : e.finish_dict[n] = 0
      /\ \A n \in DOMAIN d.finish_dict \ paths : e.finish_dict[n] = d.finish_dict[n]
  BY <1>1 DEF Write, Zeros
<1>5. \A p \in Path : Len(RowGroups[p]) \in Nat
  BY FilesAssumption
<1>6. DictsOK(e)
  <2>1. \A p \in DOMAIN e.file_size : /\ e.file_size[p] \in {0, Len(RowGroups[p])}
                                      /\ e.file_offset[p] \in 0 .. e.file_size[p]
    BY <1>2, <1>3, <1>5 DEF DictsOK
  <2>2. \A n \in DOMAIN e.finish_dict : e.finish_dict[n] \in Nat
    BY <1>4 DEF DictsOK
  <2>3. /\ DOMAIN e.file_size \subseteq Path
        /\ DOMAIN e.file_offset = DOMAIN e.file_size
        /\ DOMAIN e.file_size \subseteq DOMAIN e.finish_dict
        /\ DOMAIN e.finish_dict \subseteq Path \cup Url
    BY <1>2, <1>3, <1>4 DEF DictsOK
  <2>4. QED
    BY <1>1, <2>1, <2>2, <2>3 DEF DictsOK
<1>7. CountedAreOver(d) => CountedAreOver(e)
  BY <1>2, <1>3, <1>4 DEF CountedAreOver, DictsOK
<1>8. ASSUME NEW p \in DOMAIN d.file_size, IsPending(d, p) PROVE IsPending(e, p)
  <2>1. p \in Path /\ d.file_size[p] = Len(RowGroups[p]) /\ d.file_offset[p] \in Nat
        /\ d.file_offset[p] < Len(RowGroups[p]) /\ p \in DOMAIN d.file_offset
    BY <1>8, PendingFacts DEF DictsOK
  <2>2. e.file_offset[p] < e.file_size[p]
    <3>1. CASE p \in paths
      BY <1>2, <1>3, <1>5, <2>1, <3>1
    <3>2. CASE p \notin paths
      BY <1>2, <1>3, <2>1, <3>2
    <3>3. QED
      BY <3>1, <3>2
  <2>3. QED
    BY <1>2, <1>3, <2>2 DEF IsPending, Get
<1>9. \A p, h : Left(e, p, h) => Left(d, p, h) \/ p \in paths
  BY <1>2, <1>3 DEF Left
<1>10. \A p \in paths : \A h \in Nat : h < Len(RowGroups[p]) => Left(e, p, h)
  BY <1>2, <1>3 DEF Left
<1>11. ASSUME NEW p, NEW h \in Nat, Left(d, p, h) PROVE Left(e, p, h)
  <2>1. CASE p \in paths
    <3>1. p \in DOMAIN d.file_size /\ h < d.file_size[p]
      BY <1>11 DEF Left
    <3>2. d.file_size[p] \in {0, Len(RowGroups[p])}
      BY <3>1 DEF DictsOK
    <3>3. h < Len(RowGroups[p])
      BY <1>11, <3>1, <3>2
    <3>4. QED
      BY <1>10, <2>1, <3>3
  <2>2. CASE p \notin paths
    BY <1>2, <1>3, <1>11, <2>2 DEF Left
  <2>3. QED
    BY <2>1, <2>2
<1>12. QED
  BY <1>2, <1>4, <1>6, <1>7, <1>8, <1>9, <1>10, <1>11

\* All row groups of the files that the url's browse enters are left.
AllAreLeft(d, url) ==
    \A p \in Opens(url) : \A h \in Nat : h < Len(RowGroups[p]) => Left(d, p, h)

\* The master knows d, and b once it has browsed for the url.  A browse that
\* nothing interrupts makes all row groups of the url's files known.
Browsed(d, url, b) ==
    /\ DictsOK(b) /\ CountedAreOver(b)
    /\ DOMAIN d.file_size \subseteq DOMAIN b.file_size
    /\ DOMAIN b.file_size \subseteq DOMAIN d.file_size \cup Opens(url)
    /\ \A p \in DOMAIN d.file_size : ~IsPending(b, p) => ~IsPending(d, p)
    /\ \A p, h : Left(b, p, h) =>
          Left(d, p, h) \/ (url \notin DOMAIN d.finish_dict /\ p \in Opens(url))
    /\ \A p : \A h \in Nat : Left(d, p, h) => Left(b, p, h)
    /\ url \in DOMAIN d.finish_dict \/ "browse" \in Faults \/ AllAreLeft(b, url)
    /\ DOMAIN d.finish_dict \subseteq DOMAIN b.finish_dict
    /\ DOMAIN b.finish_dict \subseteq DOMAIN d.finish_dict \cup Opens(url) \cup {url}
    /\ \A n \in DOMAIN d.finish_dict \ Opens(url) : b.finish_dict[n] = d.finish_dict[n]
    /\ url \in DOMAIN d.finish_dict => b.finish_dict[url] = d.finish_dict[url]
    /\ \A n \in DOMAIN b.finish_dict \ DOMAIN d.finish_dict : b.finish_dict[n] = 0

\* Nothing is browsed when the url is known, or has no file to open.
LEMMA KnownIsBrowsed ==
    ASSUME NEW d, DictsOK(d), CountedAreOver(d), NEW url,
           url \in DOMAIN d.finish_dict \/ "browse" \in Faults \/ Opens(url) = {}
    PROVE  Browsed(d, url, d)
  BY DEF Browsed, AllAreLeft

\* What entering some of the url's files makes known.
LEMMA EnterBrowses ==
    ASSUME NEW d, DictsOK(d), CountedAreOver(d),
           NEW url \in Url, url \notin DOMAIN d.finish_dict,
           NEW paths \in SUBSET (Path \cap Opens(url)),
           "browse" \in Faults \/ paths = Opens(url)
    PROVE  Browsed(d, url, Enter(d, paths))
<1> DEFINE e == Enter(d, paths)
<1>1. paths \in SUBSET Path /\ paths \subseteq Opens(url)
  OBVIOUS
<1>2. /\ DictsOK(e)
      /\ CountedAreOver(d) => CountedAreOver(e)
      /\ DOMAIN e.file_size = DOMAIN d.file_size \cup paths
      /\ \A p \in DOMAIN d.file_size : ~IsPending(e, p) => ~IsPending(d, p)
      /\ \A p, h : Left(e, p, h) => Left(d, p, h) \/ p \in paths
      /\ \A p : \A h \in Nat : Left(d, p, h) => Left(e, p, h)
      /\ \A p \in paths : \A h \in Nat : h < Len(RowGroups[p]) => Left(e, p, h)
      /\ DOMAIN e.finish_dict = DOMAIN d.finish_dict \cup paths
      /\ \A n \in paths : e.finish_dict[n] = 0
      /\ \A n \in DOMAIN d.finish_dict \ paths : e.finish_dict[n] = d.finish_dict[n]
  BY <1>1, EnterFacts
<1> HIDE DEF e
<1>3. "browse" \in Faults \/ AllAreLeft(e, url)
  BY <1>2 DEF AllAreLeft
<1>4. Browsed(d, url, e)
  BY <1>1, <1>2, <1>3 DEF Browsed
<1>5. QED
  BY <1>4 DEF e

\* finish_dict_ gets an entry for the url.
LEMMA EntryBrowses ==
    ASSUME NEW d, NEW url \in Url, NEW b, Browsed(d, url, b),
           NEW e, DOMAIN e = DOMAIN b, e.file_size = b.file_size,
           e.file_offset = b.file_offset,
           DOMAIN e.finish_dict = DOMAIN b.finish_dict \cup {url},
           \A n \in DOMAIN b.finish_dict : e.finish_dict[n] = b.finish_dict[n],
           url \notin DOMAIN b.finish_dict => e.finish_dict[url] = 0
    PROVE  Browsed(d, url, e)
<1>1. DictsOK(b) /\ CountedAreOver(b)
  BY DEF Browsed
<1>2. DictsOK(e) /\ CountedAreOver(e)
  <2>1. \A n \in DOMAIN e.finish_dict : e.finish_dict[n] \in Nat
    BY <1>1 DEF DictsOK
  <2>2. /\ DOMAIN e.file_size \subseteq DOMAIN e.finish_dict
        /\ DOMAIN e.finish_dict \subseteq Path \cup Url
    BY <1>1 DEF DictsOK
  <2>3. DictsOK(e)
    BY <1>1, <2>1, <2>2 DEF DictsOK
  <2>4. \A p \in DOMAIN e.file_size : e.finish_dict[p] = b.finish_dict[p]
    BY <1>1 DEF DictsOK
  <2>5. QED
    BY <1>1, <2>3, <2>4 DEF CountedAreOver
<1>3. \A p : IsPending(e, p) <=> IsPending(b, p)
  BY DEF IsPending
<1>4. \A p, h : Left(e, p, h) <=> Left(b, p, h)
  BY DEF Left
<1>5. AllAreLeft(b, url) => AllAreLeft(e, url)
  BY <1>4 DEF AllAreLeft
<1>6. QED
  BY <1>2, <1>3, <1>4, <1>5 DEF Browsed

\* What answer finds in the maps, known before or browsed for.
LEMMA LocalBrowses ==
    ASSUME NEW d, DictsOK(d), CountedAreOver(d), NEW url \in Url, IsLocal(url),
           NEW b \in Known(d, url, BrowseLocal(d, url))
    PROVE  /\ Browsed(d, url, b)
           /\ Kind[url] = "directory" => url \in DOMAIN b.finish_dict
<1>1. CASE url \in DOMAIN d.finish_dict
  BY <1>1, KnownIsBrowsed DEF Known
<1>2. CASE url \notin DOMAIN d.finish_dict /\ Kind[url] = "file"
  <2>1. {url} \in SUBSET (Path \cap Opens(url))
    BY <1>2, NamesAssumption DEF Opens
  <2>2. b = Enter(d, {url}) \/ (b = d /\ "browse" \in Faults)
    BY <1>2 DEF Known, BrowseLocal
  <2>3. {url} = Opens(url)
    BY <1>2 DEF Opens
  <2>4. QED
    BY <1>2, <2>1, <2>2, <2>3, EnterBrowses, KnownIsBrowsed
<1>3. CASE url \notin DOMAIN d.finish_dict /\ Kind[url] = "directory"
  <2>1. b = [d EXCEPT !.finish_dict = Write(Zeros({url}), @)]
    BY <1>3 DEF Known, BrowseLocal
  <2>2. /\ DOMAIN b = DOMAIN d
        /\ b.file_size = d.file_size /\ b.file_offset = d.file_offset
        /\ b.finish_dict = Write(Zeros({url}), d.finish_dict)
    BY <2>1 DEF DictsOK
  <2>3. /\ DOMAIN b.finish_dict = DOMAIN d.finish_dict \cup {url}
        /\ \A n \in DOMAIN d.finish_dict : b.finish_dict[n] = d.finish_dict[n]
        /\ b.finish_dict[url] = 0
    BY <1>3, <2>2 DEF Write, Zeros
  <2>4. Opens(url) = {}
    BY <1>3 DEF Opens
  <2>5. QED
    BY <2>2, <2>3, <2>4, KnownIsBrowsed, EntryBrowses
<1>4. CASE url \notin DOMAIN d.finish_dict /\ Kind[url] = "missing"
  <2>1. b = d
    BY <1>4 DEF Known, BrowseLocal
  <2>2. Opens(url) = {}
    BY <1>4 DEF Opens
  <2>3. QED
    BY <1>4, <2>1, <2>2, KnownIsBrowsed
<1>5. QED
  BY <1>1, <1>2, <1>3, <1>4, NamesAssumption

\* The same for HDFS, and the url gets an entry.
LEMMA HdfsBrowses ==
    ASSUME NEW d, DictsOK(d), CountedAreOver(d), NEW url \in Url, ~IsLocal(url),
           NEW known \in Known(d, url, BrowseHdfs(d, url)),
           NEW b, b = [known EXCEPT !.finish_dict = Write(@, Zeros({url}))]
    PROVE  Browsed(d, url, b) /\ url \in DOMAIN b.finish_dict
<1>1. Browsed(d, url, known)
  <2>1. CASE url \in DOMAIN d.finish_dict
    BY <2>1, KnownIsBrowsed DEF Known
  <2>2. CASE url \notin DOMAIN d.finish_dict
    <3>1. PICK n \in 0 .. Len(Files[url]) :
                /\ known = Enter(d, {Files[url][i] : i \in 1 .. n})
                /\ "browse" \in Faults \/ n = Len(Files[url])
      <4> DEFINE ns == IF "browse" \in Faults THEN 0 .. Len(Files[url]) ELSE {Len(Files[url])}
      <4>1. Len(Files[url]) \in Nat
        BY FilesAssumption
      <4>2. /\ ns \subseteq 0 .. Len(Files[url])
            /\ \A n \in ns : "browse" \in Faults \/ n = Len(Files[url])
        BY <4>1
      <4>3. known \in {Enter(d, {Files[url][i] : i \in 1 .. n}) : n \in ns}
        BY <2>2 DEF Known, BrowseHdfs
      <4> HIDE DEF ns
      <4>4. QED
        BY <4>2, <4>3
    <3>2. {Files[url][i] : i \in 1 .. n} \in SUBSET (Path \cap Opens(url))
      BY <3>1, FilesAssumption DEF Opens, Range
    <3>3. "browse" \in Faults \/ {Files[url][i] : i \in 1 .. n} = Opens(url)
      <4>1. DOMAIN Files[url] = 1 .. Len(Files[url])
        BY FilesAssumption
      <4>2. Opens(url) = {Files[url][i] : i \in DOMAIN Files[url]}
        BY DEF Opens, Range
      <4>3. QED
        BY <3>1, <4>1, <4>2
    <3>4. QED
      BY <2>2, <3>1, <3>2, <3>3, EnterBrowses
  <2>3. QED
    BY <2>1, <2>2
<1>2. DOMAIN known = {"file_size", "file_offset", "finish_dict"}
  BY <1>1 DEF Browsed, DictsOK
<1>3. /\ DOMAIN b = DOMAIN known
      /\ b.file_size = known.file_size /\ b.file_offset = known.file_offset
      /\ b.finish_dict = Write(known.finish_dict, Zeros({url}))
  BY <1>2
<1>4. /\ DOMAIN b.finish_dict = DOMAIN known.finish_dict \cup {url}
      /\ \A n \in DOMAIN known.finish_dict : b.finish_dict[n] = known.finish_dict[n]
      /\ url \notin DOMAIN known.finish_dict => b.finish_dict[url] = 0
  BY <1>3 DEF Write, Zeros
<1>5. QED
  BY <1>1, <1>3, <1>4, EntryBrowses

-----------------------------------------------------------------------------
\* The files that an answer to url may count beside the url itself.
Others(d, url) == Range(Files[url]) \cup (IF IsLocal(url) THEN {} ELSE DOMAIN d.file_size)

\* An answer that nothing is left counts the worker for the url; the count of
\* the last worker is not kept.
CountsUrl(d, url, a) ==
    LET c == Get(d.finish_dict, url, 0)
    IN  IF a.ret # NoBlock
        THEN url \in DOMAIN a.dicts.finish_dict /\ a.dicts.finish_dict[url] = c
        ELSE IF c + 1 = num_workers_alive
             THEN url \notin DOMAIN a.dicts.finish_dict
             ELSE url \in DOMAIN a.dicts.finish_dict /\ a.dicts.finish_dict[url] = c + 1

KeepsCount(d, n, a) ==
    /\ n \in DOMAIN a.dicts.finish_dict <=> n \in DOMAIN d.finish_dict
    /\ n \in DOMAIN d.finish_dict => a.dicts.finish_dict[n] = d.finish_dict[n]

\* Where a worker that asked for url may be sent.
SentTo(url, p) ==
    IF IsLocal(url) THEN p \in Opens(url) \cup Range(Files[url]) ELSE TRUE

\* No row group but the one handed out stops being left,
OnlyThatGoes(d, a) ==
    \A p : \A h \in Nat :
        Left(d, p, h) => Left(a.dicts, p, h) \/ a.ret = [filename |-> p, offset |-> h]

\* and the answer is that nothing is left only when it is so.
NothingIsLeft(d, url) == \A p \in Opens(url) : \A h \in Nat : ~Left(d, p, h)

\* An answer a, of maps d in which the url was looked up.
Result(d, url, a) ==
    /\ DictsOK(a.dicts) /\ CountedAreOver(a.dicts)
    /\ \A p \in DOMAIN d.file_size \ DOMAIN a.dicts.file_size : ~IsPending(d, p)
    /\ DOMAIN a.dicts.file_size \subseteq DOMAIN d.file_size \cup Opens(url)
    /\ \A p : \A h \in Nat : Left(a.dicts, p, h) => Left(d, p, h)
    /\ \/ a.ret = NoBlock
       \/ \E p \in Path, g \in Nat :
            /\ a.ret = [filename |-> p, offset |-> g] /\ g < Len(RowGroups[p])
            /\ Left(d, p, g) /\ ~Left(a.dicts, p, g) /\ SentTo(url, p)
    /\ OnlyThatGoes(d, a) /\ (a.ret = NoBlock => NothingIsLeft(d, url))
    /\ url \notin Others(d, url) => CountsUrl(d, url, a)
    /\ \A n : n \notin Others(d, url) \cup {url} => KeepsCount(d, n, a)

\* The maps e, after the loop of an answer counted and dropped files of d.
Looped(d, url, e) ==
    /\ DictsOK(e) /\ CountedAreOver(e)
    /\ DOMAIN e.file_size \subseteq DOMAIN d.file_size \cup Opens(url)
    /\ \A p \in DOMAIN d.file_size : IsPending(d, p) => p \in DOMAIN e.file_size /\ IsPending(e, p)
    /\ \A p : \A h \in Nat : Left(e, p, h) <=> Left(d, p, h)
    /\ \A n : n \notin Others(d, url) =>
          /\ n \in DOMAIN d.finish_dict =>
                n \in DOMAIN e.finish_dict /\ e.finish_dict[n] = d.finish_dict[n]
          /\ n \in DOMAIN e.finish_dict \ DOMAIN d.finish_dict =>
                n = url /\ e.finish_dict[n] = 0

\* Telling the worker, and handing out a row group, are answers.
LEMMA TellAnswers ==
    ASSUME NEW d, NEW url \in Url, NEW e, Looped(d, url, e), ~IsPending(e, url),
           \A p \in Opens(url) : ~IsPending(e, p)
    PROVE  Result(d, url, Tell(e, url))
<1> DEFINE a == Tell(e, url)
           c == Get(e.finish_dict, url, 0) + 1
<1>1. DictsOK(e) /\ CountedAreOver(e)
  BY DEF Looped
<1>2. /\ DictsOK(a.dicts)
      /\ CountedAreOver(e) => CountedAreOver(a.dicts)
      /\ a.ret = NoBlock
      /\ DOMAIN a.dicts.file_size \subseteq DOMAIN e.file_size
      /\ DOMAIN e.file_size \ {url} \subseteq DOMAIN a.dicts.file_size
      /\ \A q : \A h \in Nat : Left(a.dicts, q, h) <=> Left(e, q, h)
      /\ c = num_workers_alive => url \notin DOMAIN a.dicts.finish_dict
      /\ c # num_workers_alive => /\ url \in DOMAIN a.dicts.finish_dict
                                  /\ a.dicts.finish_dict[url] = c
      /\ \A n : n # url => (n \in DOMAIN a.dicts.finish_dict <=> n \in DOMAIN e.finish_dict)
      /\ \A n \in DOMAIN a.dicts.finish_dict :
            n # url => a.dicts.finish_dict[n] = e.finish_dict[n]
  BY <1>1, TellFacts
<1> HIDE DEF a
<1>3. ASSUME url \notin Others(d, url) PROVE CountsUrl(d, url, a)
  <2>1. c = Get(d.finish_dict, url, 0) + 1
    BY <1>3 DEF Looped, Get
  <2>2. QED
    BY <1>2, <2>1 DEF CountsUrl
<1>4. ASSUME NEW n, n \notin Others(d, url) \cup {url} PROVE KeepsCount(d, n, a)
  BY <1>2, <1>4 DEF KeepsCount, Looped
<1>5. \A p \in DOMAIN d.file_size \ DOMAIN a.dicts.file_size : ~IsPending(d, p)
  BY <1>2 DEF Looped
<1>6. \A p : \A h \in Nat : Left(a.dicts, p, h) => Left(d, p, h)
  BY <1>2 DEF Looped
<1>7. DOMAIN a.dicts.file_size \subseteq DOMAIN d.file_size \cup Opens(url)
  BY <1>2 DEF Looped
<1>8. OnlyThatGoes(d, a)
  BY <1>2 DEF OnlyThatGoes, Looped
<1>9. NothingIsLeft(d, url)
  <2>1. \A p \in Opens(url) : \A h \in Nat : ~Left(e, p, h)
    BY <1>1, PendingFacts
  <2>2. QED
    BY <2>1 DEF NothingIsLeft, Looped
<1>10. Result(d, url, a)
  BY <1>1, <1>2, <1>3, <1>4, <1>5, <1>6, <1>7, <1>8, <1>9 DEF Result
<1>11. QED
  BY <1>10 DEF a

\* Handing out a row group that the loop stopped at answers as promised.
LEMMA HandOutAnswers ==
    ASSUME NEW d, NEW url \in Url, NEW e, Looped(d, url, e),
           url \in DOMAIN d.finish_dict, NEW p, IsPending(e, p), SentTo(url, p)
    PROVE  Result(d, url, HandOut(e, p))
<1> DEFINE a == HandOut(e, p)
           g == e.file_offset[p]
<1>1. DictsOK(e) /\ CountedAreOver(e)
  BY DEF Looped
<1>2. /\ DictsOK(a.dicts)
      /\ CountedAreOver(e) => CountedAreOver(a.dicts)
      /\ a.ret = [filename |-> p, offset |-> g]
      /\ p \in Path /\ g \in Nat /\ g < Len(RowGroups[p])
      /\ a.dicts.file_size = e.file_size /\ a.dicts.finish_dict = e.finish_dict
      /\ Left(e, p, g) /\ ~Left(a.dicts, p, g)
      /\ \A q : \A h \in Nat : Left(a.dicts, q, h) => Left(e, q, h)
      /\ \A q : \A h \in Nat : Left(e, q, h) => Left(a.dicts, q, h) \/ (q = p /\ h = g)
  BY <1>1, HandOutFacts
<1> HIDE DEF a, g
<1>3. a.ret # NoBlock
  <2>1. a.ret.filename = p /\ NoBlock.filename = ""
    BY <1>2 DEF NoBlock
  <2>2. QED
    BY <1>2, <2>1, NamesAssumption
<1>4. ASSUME url \notin Others(d, url) PROVE CountsUrl(d, url, a)
  BY <1>2, <1>3, <1>4 DEF CountsUrl, Looped, Get
<1>5. ASSUME NEW n, n \notin Others(d, url) \cup {url} PROVE KeepsCount(d, n, a)
  BY <1>2, <1>5 DEF KeepsCount, Looped
<1>6. \A q \in DOMAIN d.file_size \ DOMAIN a.dicts.file_size : ~IsPending(d, q)
  BY <1>2 DEF Looped
<1>7. \A q : \A h \in Nat : Left(a.dicts, q, h) => Left(d, q, h)
  BY <1>2 DEF Looped
<1>8. DOMAIN a.dicts.file_size \subseteq DOMAIN d.file_size \cup Opens(url)
  BY <1>2 DEF Looped
<1>9. Left(d, p, g)
  BY <1>2 DEF Looped
<1>10. OnlyThatGoes(d, a)
  BY <1>2 DEF OnlyThatGoes, Looped
<1>11. Result(d, url, a)
  BY <1>1, <1>2, <1>3, <1>4, <1>5, <1>6, <1>7, <1>8, <1>9, <1>10 DEF Result
<1>12. QED
  BY <1>11 DEF a

\* What the loops do: count files that are read up, and drop such files.
LEMMA CountLoops ==
    ASSUME NEW d, NEW url, NEW e, Looped(d, url, e),
           NEW S \in SUBSET (Path \cap Others(d, url)), \A p \in S : ~IsPending(e, p)
    PROVE  Looped(d, url, CountFinished(e, S))
<1> DEFINE f == CountFinished(e, S)
<1>1. DictsOK(e) /\ CountedAreOver(e) /\ S \in SUBSET (Path \cup Url)
  BY DEF Looped
<1>2. /\ DictsOK(f)
      /\ f.file_size = e.file_size /\ f.file_offset = e.file_offset
      /\ DOMAIN f.finish_dict = DOMAIN e.finish_dict \cup S
      /\ \A n \in DOMAIN e.finish_dict \ S : f.finish_dict[n] = e.finish_dict[n]
      /\ \A p, g : Left(f, p, g) <=> Left(e, p, g)
      /\ CountedAreOver(e) /\ (\A p \in S : ~IsPending(e, p)) => CountedAreOver(f)
  BY <1>1, CountFinishedFacts
<1> HIDE DEF f
<1>3. \A p : IsPending(f, p) <=> IsPending(e, p)
  BY <1>2 DEF IsPending
<1>4. Looped(d, url, f)
  BY <1>1, <1>2, <1>3 DEF Looped
<1>5. QED
  BY <1>4 DEF f

\* Dropping files that are over goes on with the loop.
LEMMA FinishLoops ==
    ASSUME NEW d, NEW url, NEW e, Looped(d, url, e),
           NEW S \in SUBSET Others(d, url), \A p \in S : ~IsPending(e, p)
    PROVE  Looped(d, url, FinishUrl(e, S))
<1> DEFINE f == FinishUrl(e, S)
<1>1. DictsOK(e) /\ CountedAreOver(e)
  BY DEF Looped
<1>2. /\ DictsOK(f)
      /\ CountedAreOver(e) => CountedAreOver(f)
      /\ DOMAIN f.file_size = DOMAIN e.file_size \ S
      /\ \A p \in DOMAIN f.file_size : /\ f.file_size[p] = e.file_size[p]
                                       /\ f.file_offset[p] = e.file_offset[p]
      /\ DOMAIN f.finish_dict = DOMAIN e.finish_dict \ S
      /\ \A n \in DOMAIN f.finish_dict : f.finish_dict[n] = e.finish_dict[n]
      /\ \A p, g : Left(f, p, g) <=> Left(e, p, g) /\ p \notin S
  BY <1>1, FinishUrlFacts
<1> HIDE DEF f
<1>3. \A p \in DOMAIN f.file_size : IsPending(f, p) <=> IsPending(e, p)
  BY <1>1, <1>2 DEF IsPending, Get, DictsOK
<1>4. \A p \in S : \A h \in Nat : ~Left(e, p, h)
  BY <1>1, PendingFacts
<1>5. Looped(d, url, f)
  BY <1>1, <1>2, <1>3, <1>4 DEF Looped
<1>6. QED
  BY <1>5 DEF f

\* The loop starts with what the maps hold.
LEMMA NothingLooped ==
    ASSUME NEW d, DictsOK(d), CountedAreOver(d), NEW url
    PROVE  Looped(d, url, d)
  BY PendingFacts DEF Looped
-----------------------------------------------------------------------------
\* answer_hdfs.  The files it drops and counts are read up: the count of a
\* file that is not is zero, and the next one is the first that is not.
LEMMA HdfsResult ==
    ASSUME NEW d, DictsOK(d), CountedAreOver(d), NEW url \in Url, ~IsLocal(url),
           url \in DOMAIN d.finish_dict
    PROVE  Result(d, url, AnswerHdfs(d, url))
<1> DEFINE over == {p \in DOMAIN d.file_size : d.finish_dict[p] = num_workers_alive}
           kept == FinishUrl(d, over)
           pending == {p \in DOMAIN kept.file_size : IsPending(kept, p)}
           next == CHOOSE p \in pending : \A q \in pending : PathOrder[p] <= PathOrder[q]
           passed == Passed(kept, pending, next)
           counted == CountFinished(kept, passed)
<1>1. Looped(d, url, kept)
  <2>1. over \in SUBSET Others(d, url)
    BY DEF Others
  <2>2. \A p \in over : ~IsPending(d, p)
    <3>1. SUFFICES ASSUME NEW p \in over PROVE ~IsPending(d, p)
      OBVIOUS
    <3>2. d.file_offset[p] = d.file_size[p] /\ p \in DOMAIN d.file_offset
      BY CountAssumption DEF CountedAreOver, DictsOK
    <3>3. d.file_size[p] \in Nat
      BY FilesAssumption DEF DictsOK
    <3>4. QED
      BY <3>2, <3>3 DEF IsPending, Get
  <2>3. Looped(d, url, d)
    BY NothingLooped
  <2> HIDE DEF over
  <2>4. QED
    BY <2>1, <2>2, <2>3, FinishLoops
<1>2. DictsOK(kept) /\ DOMAIN kept.file_size \subseteq DOMAIN d.file_size
  <2> HIDE DEF over
  <2>1. DictsOK(kept) /\ DOMAIN kept.file_size = DOMAIN d.file_size \ over
    BY FinishUrlFacts
  <2>2. QED
    BY <2>1
<1> HIDE DEF kept
<1>3. pending # {} => next \in pending /\ \A q \in pending : PathOrder[next] <= PathOrder[q]
  <2>1. SUFFICES ASSUME pending # {}
                 PROVE  \E p \in pending : \A q \in pending : PathOrder[p] <= PathOrder[q]
    OBVIOUS
  <2> DEFINE places == {PathOrder[p] : p \in pending}
  <2>2. places \in SUBSET Nat /\ places # {}
    BY <1>2, <2>1, OrderAssumption DEF DictsOK
  <2>3. \E m \in places : \A n \in places : m <= n
    <3> HIDE DEF places
    <3>1. QED
      BY <2>2, LeastNumber
  <2>4. QED
    BY <2>3
<1>4. /\ passed \in SUBSET (Path \cap Others(d, url))
      /\ \A p \in passed : ~IsPending(kept, p)
  <2>1. passed \subseteq DOMAIN kept.file_size
    BY DEF Passed
  <2>2. ASSUME NEW p \in passed, IsPending(kept, p) PROVE FALSE
    <3>1. p \in pending
      BY <2>1, <2>2
    <3> HIDE DEF pending, next
    <3>2. PathOrder[p] < PathOrder[next]
      BY <2>2, <3>1 DEF Passed
    <3>3. PathOrder[next] <= PathOrder[p] /\ next \in Path /\ p \in Path
      BY <1>2, <1>3, <3>1 DEF pending, DictsOK
    <3>4. QED
      BY <3>2, <3>3, OrderAssumption
  <2>3. QED
    BY <1>2, <2>1, <2>2 DEF DictsOK, Others
<1> HIDE DEF passed, pending, next
<1>5. Looped(d, url, counted)
  BY <1>1, <1>4, CountLoops
<1>6. \A p : IsPending(counted, p) <=> IsPending(kept, p)
  <2>1. passed \in SUBSET (Path \cup Url)
    BY <1>4
  <2>2. counted.file_size = kept.file_size /\ counted.file_offset = kept.file_offset
    BY <1>2, <2>1, CountFinishedFacts
  <2>3. QED
    BY <2>2 DEF IsPending
<1>7. AnswerHdfs(d, url) = IF pending = {} THEN Tell(counted, url) ELSE HandOut(counted, next)
  BY DEF AnswerHdfs, kept, pending, next, passed
<1> HIDE DEF counted
<1>8. CASE pending = {}
  <2>1. \A p : ~IsPending(kept, p)
    BY <1>2, <1>8, PendingFacts DEF pending
  <2>2. QED
    BY <1>5, <1>6, <1>7, <1>8, <2>1, TellAnswers
<1>9. CASE pending # {}
  <2>1. IsPending(counted, next)
    BY <1>3, <1>6, <1>9 DEF pending
  <2>2. SentTo(url, next)
    BY DEF SentTo
  <2>3. QED
    BY <1>5, <1>7, <1>9, <2>1, <2>2, HandOutAnswers
<1>10. QED
  BY <1>8, <1>9

\* answer, for a directory: the files before the next one are read up.
LEMMA DirectoryResult ==
    ASSUME NEW d, DictsOK(d), CountedAreOver(d), NEW url \in Url, IsLocal(url),
           Kind[url] = "directory", url \in DOMAIN d.finish_dict
    PROVE  Result(d, url, AnswerDirectory(d, url))
<1> DEFINE known == {i \in DOMAIN Files[url] : Files[url][i] \in DOMAIN d.finish_dict}
           pending == {i \in known : IsPending(d, Files[url][i])}
           next == CHOOSE i \in pending : \A j \in pending : i <= j
           before == {j \in known : \A k \in pending : j < k}
           passed == {Files[url][i] : i \in before}
           counted == CountFinished(d, passed)
           over == {p \in passed : counted.finish_dict[p] = num_workers_alive}
           kept == FinishUrl(counted, over)
<1>1. Files[url] \in Seq(Path) /\ DOMAIN Files[url] \subseteq Nat
  BY FilesAssumption
<1>2. pending # {} => next \in pending
  <2>1. pending \in SUBSET Nat
    BY <1>1
  <2> HIDE DEF pending
  <2>2. QED
    BY <2>1, LeastNumber
<1>3. /\ passed \in SUBSET (Path \cap Others(d, url))
      /\ \A p \in passed : ~IsPending(d, p)
      /\ pending # {} => Files[url][next] \notin passed
  <2>1. passed \subseteq Range(Files[url]) /\ Range(Files[url]) \subseteq Path
    BY <1>1 DEF Range
  <2>2. ASSUME NEW i \in before, IsPending(d, Files[url][i]) PROVE FALSE
    <3>1. i \in pending /\ i < i /\ i \in Nat
      BY <1>1, <2>2
    <3>2. QED
      BY <3>1
  <2>3. pending # {} => IsPending(d, Files[url][next])
    BY <1>2
  <2>4. \A p \in passed : ~IsPending(d, p)
    BY <2>2
  <2> HIDE DEF passed
  <2>5. QED
    BY <2>1, <2>3, <2>4 DEF Others
<1>4. AnswerDirectory(d, url) =
        IF pending = {} THEN Tell(kept, url) ELSE HandOut(kept, Files[url][next])
  BY DEF AnswerDirectory
<1>5. url \notin Path
  BY NamesAssumption
<1>6. pending # {} => IsPending(d, Files[url][next]) /\ SentTo(url, Files[url][next])
  BY <1>1, <1>2 DEF SentTo, Range
<1> HIDE DEF passed, pending, next
<1>7. Looped(d, url, counted)
  <2>1. Looped(d, url, d)
    BY NothingLooped
  <2>2. QED
    BY <1>3, <2>1, CountLoops
<1>8. \A p : IsPending(counted, p) <=> IsPending(d, p)
  <2>1. passed \in SUBSET (Path \cup Url)
    BY <1>3
  <2>2. counted.file_size = d.file_size /\ counted.file_offset = d.file_offset
    BY <2>1, CountFinishedFacts
  <2>3. QED
    BY <2>2 DEF IsPending
<1> HIDE DEF counted
<1>9. Looped(d, url, kept)
  <2>1. over \in SUBSET Others(d, url) /\ \A p \in over : ~IsPending(counted, p)
    BY <1>3, <1>8
  <2> HIDE DEF over
  <2>2. QED
    BY <1>7, <2>1, FinishLoops
<1>10. \A p : p \notin passed => (IsPending(kept, p) <=> IsPending(counted, p))
  BY DEF FinishUrl, Restrict, IsPending, Get
<1> HIDE DEF kept
<1>11. CASE pending = {}
  <2>1. ~IsPending(kept, url)
    BY <1>5, <1>9, PendingFacts DEF Looped
  <2>2. Opens(url) = {}
    BY DEF Opens
  <2>3. QED
    BY <1>4, <1>9, <1>11, <2>1, <2>2, TellAnswers
<1>12. CASE pending # {}
  <2>1. IsPending(kept, Files[url][next])
    BY <1>3, <1>6, <1>8, <1>10, <1>12
  <2>2. QED
    BY <1>4, <1>6, <1>9, <1>12, <2>1, HandOutAnswers
<1>13. QED
  BY <1>11, <1>12

\* answer, for a file: its own numbers are looked up, and entered as zero.
LEMMA FileResult ==
    ASSUME NEW d, DictsOK(d), CountedAreOver(d), NEW url \in Url, IsLocal(url),
           Kind[url] = "file"
    PROVE  Result(d, url, AnswerFile(d, url))
<1> DEFINE known == [d EXCEPT !.file_offset = Write(@, Zeros({url})),
                              !.file_size = Write(@, Zeros({url}))]
           entered == [known EXCEPT !.finish_dict = Write(@, Zeros({url}))]
<1>1. AnswerFile(d, url) = IF IsPending(known, url) THEN HandOut(known, url)
                           ELSE Tell(known, url)
  BY DEF AnswerFile
<1>2. /\ DOMAIN known = {"file_size", "file_offset", "finish_dict"}
      /\ known.file_size = Write(d.file_size, Zeros({url}))
      /\ known.file_offset = Write(d.file_offset, Zeros({url}))
      /\ known.finish_dict = d.finish_dict
  BY DEF DictsOK
<1> HIDE DEF known
<1>3. /\ DOMAIN entered = {"file_size", "file_offset", "finish_dict"}
      /\ entered.file_size = known.file_size /\ entered.file_offset = known.file_offset
      /\ entered.finish_dict = Write(d.finish_dict, Zeros({url}))
  BY <1>2
<1> HIDE DEF entered
<1>4. /\ DOMAIN entered.file_size = DOMAIN d.file_size \cup {url}
      /\ DOMAIN entered.file_offset = DOMAIN d.file_size \cup {url}
      /\ \A p \in DOMAIN d.file_size : /\ entered.file_size[p] = d.file_size[p]
                                       /\ entered.file_offset[p] = d.file_offset[p]
      /\ url \notin DOMAIN d.file_size => /\ entered.file_size[url] = 0
                                         /\ entered.file_offset[url] = 0
      /\ DOMAIN entered.finish_dict = DOMAIN d.finish_dict \cup {url}
      /\ \A n \in DOMAIN d.finish_dict : entered.finish_dict[n] = d.finish_dict[n]
      /\ url \notin DOMAIN d.finish_dict => entered.finish_dict[url] = 0
  BY <1>2, <1>3 DEF Write, Zeros, DictsOK
<1>5. url \in Path /\ Opens(url) = {url}
  BY NamesAssumption DEF Opens
<1>6. DictsOK(entered)
  <2>1. \A p \in DOMAIN entered.file_size :
            /\ entered.file_size[p] \in {0, Len(RowGroups[p])}
            /\ entered.file_offset[p] \in 0 .. entered.file_size[p]
    BY <1>4 DEF DictsOK
  <2>2. \A n \in DOMAIN entered.finish_dict : entered.finish_dict[n] \in Nat
    BY <1>4 DEF DictsOK
  <2>3. /\ DOMAIN entered.file_size \subseteq Path
        /\ DOMAIN entered.file_offset = DOMAIN entered.file_size
        /\ DOMAIN entered.file_size \subseteq DOMAIN entered.finish_dict
        /\ DOMAIN entered.finish_dict \subseteq Path \cup Url
    BY <1>4, <1>5 DEF DictsOK
  <2>4. QED
    BY <1>3, <2>1, <2>2, <2>3 DEF DictsOK
<1>7. CountedAreOver(entered)
  BY <1>4 DEF CountedAreOver, DictsOK
<1>8. \A p \in DOMAIN d.file_size : IsPending(entered, p) <=> IsPending(d, p)
  BY <1>4 DEF IsPending, Get, DictsOK
<1>9. \A p : \A h \in Nat : Left(entered, p, h) <=> Left(d, p, h)
  BY <1>4 DEF Left
<1>10. Looped(d, url, entered)
  BY <1>4, <1>5, <1>6, <1>7, <1>8, <1>9 DEF Looped
<1>11. \A p : IsPending(known, p) <=> IsPending(entered, p)
  BY <1>3 DEF IsPending
<1>12. CASE IsPending(known, url)
  <2>1. url \in DOMAIN d.file_size
    BY <1>4, <1>11, <1>12 DEF IsPending, Get
  <2>2. url \in DOMAIN d.finish_dict
    BY <2>1 DEF DictsOK
  <2>3. DictsOK(known)
    <3>1. /\ known.file_size = entered.file_size /\ known.file_offset = entered.file_offset
          /\ DOMAIN known.finish_dict = DOMAIN entered.finish_dict
          /\ \A n \in DOMAIN entered.finish_dict :
                known.finish_dict[n] = entered.finish_dict[n]
      BY <1>2, <1>3, <1>4, <2>2
    <3>2. QED
      BY <1>2, <1>6, <3>1 DEF DictsOK
  <2>4. CountedAreOver(known)
    BY <1>2, <1>3, <1>4, <1>7, <2>1 DEF CountedAreOver, DictsOK
  <2>5. Looped(d, url, known)
    <3>1. \A p : \A h \in Nat : Left(known, p, h) <=> Left(d, p, h)
      BY <1>3, <1>9 DEF Left
    <3>2. DOMAIN known.file_size \subseteq DOMAIN d.file_size \cup Opens(url)
      BY <1>3, <1>4, <1>5
    <3>3. QED
      BY <1>2, <1>3, <1>4, <1>8, <1>11, <2>3, <2>4, <3>1, <3>2 DEF Looped
  <2>6. Result(d, url, HandOut(known, url))
    BY <1>5, <1>12, <2>2, <2>5, HandOutAnswers DEF SentTo
  <2>7. QED
    BY <1>1, <1>12, <2>6
<1>13. CASE ~IsPending(known, url)
  <2>1. Result(d, url, Tell(entered, url))
    BY <1>5, <1>10, <1>11, <1>13, TellAnswers
  <2>2. CountFinished(entered, {url}) = CountFinished(known, {url})
    <3> DEFINE A == Write([n \in {url} |-> Get(entered.finish_dict, n, 0) + 1], entered.finish_dict)
               B == Write([n \in {url} |-> Get(d.finish_dict, n, 0) + 1], d.finish_dict)
    <3>1. A = B
      <4>1. Get(entered.finish_dict, url, 0) = Get(d.finish_dict, url, 0)
        BY <1>4 DEF Get
      <4>2. DOMAIN A = DOMAIN d.finish_dict \cup {url} /\ DOMAIN B = DOMAIN A
        BY <1>4 DEF Write
      <4>3. \A n \in DOMAIN d.finish_dict \cup {url} : A[n] = B[n]
        BY <1>4, <4>1 DEF Write
      <4>4. QED
        BY <4>2, <4>3 DEF Write
    <3> HIDE DEF A, B
    <3>2. CountFinished(entered, {url}) = [entered EXCEPT !.finish_dict = A]
      BY DEF CountFinished, A
    <3>3. CountFinished(known, {url}) = [known EXCEPT !.finish_dict = B]
      BY <1>2 DEF CountFinished, B
    <3>4. [entered EXCEPT !.finish_dict = A] = [known EXCEPT !.finish_dict = A]
      BY <1>2, <1>3
    <3>5. QED
      BY <3>1, <3>2, <3>3, <3>4
  <2>3. Tell(entered, url) = Tell(known, url)
    BY <2>2 DEF Tell
  <2>4. QED
    BY <1>1, <1>13, <2>1, <2>3
<1>14. QED
  BY <1>12, <1>13

\* All row groups of the url's files are left, but the one handed out.
AllButThat(url, a) ==
    \A p \in Opens(url) : \A h \in Nat :
        h < Len(RowGroups[p]) =>
            Left(a.dicts, p, h) \/ a.ret = [filename |-> p, offset |-> h]

\* An answer a to a question for url, of maps d: a row group that was left, or
\* of a file browsed for just now, and is left no more, while all others stay
\* left; or none, when no row group of the url's files is left.
Answer(d, url, a) ==
    /\ DictsOK(a.dicts) /\ CountedAreOver(a.dicts)
    /\ \A p \in DOMAIN d.file_size \ DOMAIN a.dicts.file_size :
          d.file_offset[p] = d.file_size[p]
    /\ DOMAIN a.dicts.file_size \subseteq DOMAIN d.file_size \cup Opens(url)
    /\ \A p : \A h \in Nat : Left(a.dicts, p, h) =>
          Left(d, p, h) \/ (url \notin DOMAIN d.finish_dict /\ p \in Opens(url))
    /\ \/ a.ret = NoBlock
       \/ \E p \in Path, g \in Nat :
            /\ a.ret = [filename |-> p, offset |-> g] /\ g < Len(RowGroups[p])
            /\ Left(d, p, g) \/ (url \notin DOMAIN d.finish_dict /\ p \in Opens(url))
            /\ ~Left(a.dicts, p, g) /\ SentTo(url, p)
    /\ OnlyThatGoes(d, a) /\ (a.ret = NoBlock => NothingIsLeft(a.dicts, url))
    /\ url \notin DOMAIN d.finish_dict /\ "browse" \notin Faults => AllButThat(url, a)
    /\ url \notin Others(d, url) => CountsUrl(d, url, a)
    /\ \A n : n \notin Others(d, url) \cup Opens(url) \cup {url} => KeepsCount(d, n, a)

\* An answer from what was browsed now is one from what was there before.
LEMMA BrowsedResult ==
    ASSUME NEW d, DictsOK(d), NEW url \in Url, NEW b, Browsed(d, url, b),
           NEW a, Result(b, url, a)
    PROVE  Answer(d, url, a)
<1>1. Others(b, url) \subseteq Others(d, url)
  BY DEF Browsed, Others, Opens
<1>2. /\ DictsOK(a.dicts) /\ CountedAreOver(a.dicts)
      /\ \A p \in DOMAIN b.file_size \ DOMAIN a.dicts.file_size : ~IsPending(b, p)
      /\ DOMAIN a.dicts.file_size \subseteq DOMAIN b.file_size \cup Opens(url)
      /\ \A p : \A h \in Nat : Left(a.dicts, p, h) => Left(b, p, h)
      /\ \/ a.ret = NoBlock
         \/ \E p \in Path, g \in Nat :
              /\ a.ret = [filename |-> p, offset |-> g] /\ g < Len(RowGroups[p])
              /\ Left(b, p, g) /\ ~Left(a.dicts, p, g) /\ SentTo(url, p)
      /\ OnlyThatGoes(b, a) /\ (a.ret = NoBlock => NothingIsLeft(b, url))
      /\ url \notin Others(b, url) => CountsUrl(b, url, a)
      /\ \A n : n \notin Others(b, url) \cup {url} => KeepsCount(b, n, a)
  BY DEF Result
<1>3. /\ DOMAIN d.file_size \subseteq DOMAIN b.file_size
      /\ DOMAIN b.file_size \subseteq DOMAIN d.file_size \cup Opens(url)
      /\ \A p \in DOMAIN d.file_size : ~IsPending(b, p) => ~IsPending(d, p)
      /\ \A p, h : Left(b, p, h) =>
            Left(d, p, h) \/ (url \notin DOMAIN d.finish_dict /\ p \in Opens(url))
      /\ \A p : \A h \in Nat : Left(d, p, h) => Left(b, p, h)
      /\ url \in DOMAIN d.finish_dict \/ "browse" \in Faults \/ AllAreLeft(b, url)
      /\ DOMAIN d.finish_dict \subseteq DOMAIN b.finish_dict
      /\ DOMAIN b.finish_dict \subseteq DOMAIN d.finish_dict \cup Opens(url) \cup {url}
      /\ \A n \in DOMAIN d.finish_dict \ Opens(url) : b.finish_dict[n] = d.finish_dict[n]
      /\ url \in DOMAIN d.finish_dict => b.finish_dict[url] = d.finish_dict[url]
      /\ \A n \in DOMAIN b.finish_dict \ DOMAIN d.finish_dict : b.finish_dict[n] = 0
  BY DEF Browsed
<1>4. \A p \in DOMAIN d.file_size \ DOMAIN a.dicts.file_size :
          d.file_offset[p] = d.file_size[p]
  BY <1>2, <1>3, PendingFacts
<1>5. ASSUME url \notin Others(d, url) PROVE CountsUrl(d, url, a)
  <2>1. Get(d.finish_dict, url, 0) = Get(b.finish_dict, url, 0)
    BY <1>3 DEF Get
  <2>2. QED
    BY <1>1, <1>2, <1>5, <2>1 DEF CountsUrl
<1>6. ASSUME NEW n, n \notin Others(d, url) \cup Opens(url) \cup {url}
      PROVE  KeepsCount(d, n, a)
  BY <1>1, <1>2, <1>3, <1>6 DEF KeepsCount
<1>7. OnlyThatGoes(d, a)
  BY <1>2, <1>3 DEF OnlyThatGoes
<1>8. a.ret = NoBlock => NothingIsLeft(a.dicts, url)
  BY <1>2 DEF NothingIsLeft
<1>9. url \notin DOMAIN d.finish_dict /\ "browse" \notin Faults => AllButThat(url, a)
  BY <1>2, <1>3 DEF AllAreLeft, AllButThat, OnlyThatGoes
<1>10. QED
  BY <1>2, <1>3, <1>4, <1>5, <1>6, <1>7, <1>8, <1>9 DEF Answer

\* Every answer of the assigner is one.
THEOREM AnswersHandOutOnce ==
    ASSUME DictsOK(dicts), CountedAreOver(dicts), NEW url \in Url,
           NEW a \in IF IsLocal(url) THEN LocalAnswers(url) ELSE HdfsAnswers(url)
    PROVE  Answer(dicts, url, a)
<1>1. CASE IsLocal(url)
  <2>1. PICK b \in Known(dicts, url, BrowseLocal(dicts, url)) :
            a = CASE Kind[url] = "file" -> AnswerFile(b, url)
                  [] Kind[url] = "directory" -> AnswerDirectory(b, url)
                  [] Kind[url] = "missing" -> Tell(b, url)
    BY <1>1 DEF LocalAnswers
  <2>2. /\ Browsed(dicts, url, b)
        /\ Kind[url] = "directory" => url \in DOMAIN b.finish_dict
    BY <1>1, LocalBrowses
  <2>3. DictsOK(b) /\ CountedAreOver(b)
    BY <2>2 DEF Browsed
  <2>4. CASE Kind[url] = "file"
    BY <1>1, <2>1, <2>2, <2>3, <2>4, FileResult, BrowsedResult
  <2>5. CASE Kind[url] = "directory"
    BY <1>1, <2>1, <2>2, <2>3, <2>5, DirectoryResult, BrowsedResult
  <2>6. CASE Kind[url] = "missing"
    <3>1. ~IsPending(b, url)
      BY <1>1, <2>3, <2>6, PendingFacts, NamesAssumption
    <3>2. Looped(b, url, b)
      BY <2>3, NothingLooped
    <3>3. Opens(url) = {}
      BY <1>1, <2>6 DEF Opens
    <3>4. Result(b, url, Tell(b, url))
      BY <3>1, <3>2, <3>3, TellAnswers
    <3>5. a = Tell(b, url)
      BY <2>1, <2>6
    <3>6. QED
      BY <2>2, <3>4, <3>5, BrowsedResult
  <2>7. QED
    BY <2>4, <2>5, <2>6, NamesAssumption
<1>2. CASE ~IsLocal(url)
  <2>1. PICK known \in Known(dicts, url, BrowseHdfs(dicts, url)) :
            a = AnswerHdfs([known EXCEPT !.finish_dict = Write(@, Zeros({url}))], url)
    BY <1>2 DEF HdfsAnswers
  <2> DEFINE b == [known EXCEPT !.finish_dict = Write(@, Zeros({url}))]
  <2>2. Browsed(dicts, url, b) /\ url \in DOMAIN b.finish_dict
    BY <1>2, HdfsBrowses
  <2> HIDE DEF b
  <2>3. Result(b, url, a)
    BY <1>2, <2>1, <2>2, HdfsResult DEF Browsed, b
  <2>4. QED
    BY <2>2, <2>3, BrowsedResult
<1>3. QED
  BY <1>1, <1>2

-----------------------------------------------------------------------------
(***************************************************************************)
(* The workers with the assigner.                                          *)
(***************************************************************************)

\* A row says which file and row group it is of.
LEMMA RowFacts ==
    ASSUME NEW x \in Row
    PROVE  /\ x[1] \in Path /\ x[2] \in Nat /\ x[2] < Len(RowGroups[x[1]])
           /\ x \in RowsOfFile(x[1])
<1>1. PICK p \in Path : x \in RowsOfFile(p)
  BY DEF Row
<1>2. PICK g \in DOMAIN RowGroups[p] : x \in RowsOfGroup(p, g - 1)
  BY <1>1 DEF RowsOfFile
<1>3. x[1] = p /\ x[2] = g - 1
  BY <1>2 DEF RowsOfGroup
<1>4. g \in 1 .. Len(RowGroups[p]) /\ Len(RowGroups[p]) \in Nat
  BY <1>2, FilesAssumption
<1>5. QED
  BY <1>1, <1>3, <1>4

\* The rows of a file are rows of that file,
LEMMA FileFacts ==
    ASSUME NEW p \in Path
    PROVE  /\ RowsOfFile(p) \subseteq Row
           /\ \A x \in RowsOfFile(p) : x[1] = p
  BY DEF Row, RowsOfFile, RowsOfGroup

\* and so are those of a row group it has.
LEMMA GroupFacts ==
    ASSUME NEW p \in Path, NEW g \in Nat, g < Len(RowGroups[p])
    PROVE  /\ RowsOfGroup(p, g) \subseteq RowsOfFile(p)
           /\ RowsOfGroup(p, g) \subseteq Row
           /\ \A x \in RowsOfGroup(p, g) : x[1] = p /\ x[2] = g
<1>1. g + 1 \in DOMAIN RowGroups[p] /\ (g + 1) - 1 = g
  BY FilesAssumption
<1>2. RowsOfGroup(p, g) \subseteq RowsOfFile(p)
  BY <1>1 DEF RowsOfFile
<1>3. QED
  BY <1>2, FileFacts DEF RowsOfGroup

\* Reading a row group prints rows of it, and empty lines.  Without a failure
\* to read, something is printed.
LEMMA LinesFacts ==
    ASSUME NEW p \in Path, NEW g \in Nat, g < Len(RowGroups[p]),
           NEW print \in ReadByRow(p, g), NEW lines, lines = print.lines
    PROVE  /\ lines \in Seq(RowsOfGroup(p, g) \cup {EmptyLine})
           /\ print.torn \in BOOLEAN
           /\ "read" \notin Faults => lines # <<>>
<1> DEFINE n == RowGroups[p][g + 1]
           S == RowsOfGroup(p, g) \cup {EmptyLine}
           whole == RowGroupLines(p, g)
<1>1. n \in Nat
  <2>1. RowGroups[p] \in Seq(Nat) /\ g + 1 \in 1 .. Len(RowGroups[p])
    BY FilesAssumption
  <2>2. QED
    BY <2>1
<1>2. [i \in 1 .. n |-> <<p, g, i>>] \in Seq(S) /\ Len([i \in 1 .. n |-> <<p, g, i>>]) = n
  BY <1>1 DEF RowsOfGroup
<1>3. whole \in Seq(S) /\ Len(whole) = n + 1
  <2> DEFINE rows == [i \in 1 .. n |-> <<p, g, i>>]
  <2>1. <<EmptyLine>> \in Seq(S) /\ Len(<<EmptyLine>>) = 1
    OBVIOUS
  <2>2. whole = rows \o <<EmptyLine>>
    BY DEF RowGroupLines
  <2> HIDE DEF rows, S
  <2>3. QED
    BY <1>1, <1>2, <2>1, <2>2 DEF rows
<1>4. PICK m \in 0 .. n + 1, piece \in BOOLEAN :
          /\ print = [lines |-> SubSeq(whole, 1, m), torn |-> piece]
          /\ "read" \notin Faults => m = n + 1
  <2> HIDE DEF whole
  <2>1. n + 1 \in 0 .. n + 1 /\ \A m \in 0 .. n - 1 : m \in 0 .. n + 1
    BY <1>1
  <2> DEFINE First(m, piece) == [lines |-> SubSeq(whole, 1, m), torn |-> piece]
  <2>2. print \in IF "read" \in Faults
                  THEN {First(m, FALSE) : m \in 0 .. n + 1} \cup {First(m, TRUE) : m \in 0 .. n - 1}
                  ELSE {First(n + 1, FALSE)}
    BY DEF ReadByRow, whole
  <2> HIDE DEF n
  <2>3. QED
    BY <2>1, <2>2
<1>5. lines = SubSeq(whole, 1, m) /\ print.torn = piece
  BY <1>4
<1>6. SubSeq(whole, 1, m) \in Seq(S) /\ Len(SubSeq(whole, 1, m)) = m
  <2>1. m \in Nat /\ m <= Len(whole)
    BY <1>1, <1>3, <1>4
  <2> HIDE DEF whole, S
  <2>2. 1 \in Int /\ m \in Int /\ \A i \in 1 .. m : whole[i] \in S
    BY <1>1, <1>3, <2>1
  <2>3. QED
    BY <2>1, <2>2, SubSeqProperties
<1>7. "read" \notin Faults => lines # <<>>
  <2> HIDE DEF whole, n, S
  <2>1. "read" \notin Faults => Len(SubSeq(whole, 1, m)) > 0
    BY <1>1, <1>4, <1>6
  <2>2. Len(lines) = 0 => "read" \in Faults
    <3>1. Len(lines) = Len(SubSeq(whole, 1, m))
      BY <1>5, Zenon
    <3>2. QED
      BY <2>1, <3>1
  <2>3. Len(<<>>) = 0
    OBVIOUS
  <2>4. QED
    BY <2>2, <2>3, Zenon
<1>8. QED
  BY <1>4, <1>5, <1>6, <1>7

-----------------------------------------------------------------------------
\* The types, of one worker.
LEMMA WorkerTypes ==
    ASSUME TypeOK, NEW w \in Worker
    PROVE  /\ pc[w] \in {"next", "waiting", "answered", "done", "crashed"}
           /\ load[w] \in 1 .. Len(Program) + 1 /\ Len(Program) \in Nat
           /\ Loads = 1 .. Len(Program)
           /\ buffer[w] \in Seq(Row \cup {EmptyLine}) /\ Len(buffer[w]) \in Nat
           /\ taken[w] \in Nat /\ taken[w] <= Len(buffer[w])
           /\ got[w] \in [Loads -> SUBSET Row]
<1>1. Len(Program) \in Nat /\ Loads = 1 .. Len(Program)
  BY ProgramAssumption DEF Loads
<1>2. /\ pc \in [Worker -> {"next", "waiting", "answered", "done", "crashed"}]
      /\ load \in [Worker -> 1 .. Len(Program) + 1]
      /\ buffer \in [Worker -> Seq(Row \cup {EmptyLine})]
      /\ taken \in [Worker -> Nat] /\ taken[w] <= Len(buffer[w])
      /\ got \in [Worker -> [Loads -> SUBSET Row]]
  BY DEF TypeOK
<1>3. QED
  BY <1>1, <1>2

\* What a worker that was handed a row group reads.
LEMMA ReplyFacts ==
    ASSUME TypeOK, GroupsExist, NEW w \in Worker, reply[w] # NoBlock
    PROVE  /\ reply[w] = [filename |-> reply[w].filename, offset |-> reply[w].offset]
           /\ reply[w].filename \in Path /\ reply[w].filename # ""
           /\ reply[w].offset \in Nat
           /\ reply[w].offset < Len(RowGroups[reply[w].filename])
<1>1. reply[w] \in [filename : Path \cup {""}, offset : Nat]
  BY DEF TypeOK
<1>2. QED
  BY <1>1, NamesAssumption DEF GroupsExist

\* The answer that ends a load names no file.
LEMMA NoBlockFacts == NoBlock \in [filename : Path \cup {""}, offset : Nat] /\ NoBlock.filename = ""
  BY DEF NoBlock

\* At the start the maps are empty and nobody is sent anywhere.
LEMMA TypesInit == Init => IndInv
<1> SUFFICES ASSUME Init PROVE IndInv
  OBVIOUS
<1>1. /\ dicts = [file_size |-> <<>>, file_offset |-> <<>>, finish_dict |-> <<>>]
      /\ fs = "null"
      /\ pc = [w \in Worker |-> "next"]
      /\ load = [w \in Worker |-> 1]
      /\ reply = [w \in Worker |-> NoBlock]
      /\ cur_fn = [w \in Worker |-> ""]
      /\ buffer = [w \in Worker |-> <<>>]
      /\ torn = [w \in Worker |-> FALSE]
      /\ taken = [w \in Worker |-> 0]
      /\ got = [w \in Worker |-> [k \in Loads |-> {}]]
  BY DEF Init, MasterInit
<1>2. DictsOK(dicts) /\ CountedAreOver(dicts)
  <2>1. /\ DOMAIN dicts = {"file_size", "file_offset", "finish_dict"}
        /\ dicts.file_size = <<>> /\ dicts.file_offset = <<>> /\ dicts.finish_dict = <<>>
    BY <1>1
  <2>2. /\ DOMAIN dicts.file_size = {} /\ DOMAIN dicts.file_offset = {}
        /\ DOMAIN dicts.finish_dict = {}
    BY <2>1
  <2>3. QED
    BY <2>1, <2>2 DEF DictsOK, CountedAreOver
<1>3. Len(Program) \in Nat /\ Len(Program) # 0 /\ Loads = 1 .. Len(Program)
  BY ProgramAssumption DEF Loads
<1>4. /\ load = [w \in Worker |-> 1] /\ reply = [w \in Worker |-> NoBlock]
      /\ buffer = [w \in Worker |-> <<>>] /\ taken = [w \in Worker |-> 0]
  BY DEF Init
<1>5. LoadInProgram
  <2>1. 1 \in Loads /\ \A w \in Worker : load[w] = 1
    BY <1>3, <1>4
  <2>2. QED
    BY <2>1 DEF LoadInProgram
<1>6. GroupsExist
  <2>1. \A w \in Worker : reply[w] = NoBlock
    BY <1>4
  <2>2. QED
    BY <2>1 DEF GroupsExist
<1>7. TypeOK
  <2>1. \A w \in Worker : taken[w] <= Len(buffer[w])
    <3>1. \A w \in Worker : taken[w] = 0 /\ buffer[w] = <<>>
      BY <1>4
    <3>2. Len(<<>>) = 0
      OBVIOUS
    <3>3. QED
      BY <3>1, <3>2
  <2>2. load \in [Worker -> 1 .. Len(Program) + 1]
    <3>1. 1 \in 1 .. Len(Program) + 1
      BY <1>3
    <3>2. QED
      BY <1>4, <3>1
  <2>3. buffer \in [Worker -> Seq(Row \cup {EmptyLine})] /\ taken \in [Worker -> Nat]
    <3>1. <<>> \in Seq(Row \cup {EmptyLine})
      OBVIOUS
    <3>2. QED
      BY <1>4, <3>1
  <2>4. got \in [Worker -> [Loads -> SUBSET Row]]
    <3>1. [k \in Loads |-> {}] \in [Loads -> SUBSET Row]
      OBVIOUS
    <3>2. QED
      BY <3>1 DEF Init
  <2>5. reply \in [Worker -> [filename : Path \cup {""}, offset : Nat]]
    BY <1>4, NoBlockFacts
  <2>6. /\ pc \in [Worker -> {"next", "waiting", "answered", "done", "crashed"}]
        /\ cur_fn \in [Worker -> Path \cup {""}] /\ fs \in {"null", "ok"}
        /\ torn \in [Worker -> BOOLEAN]
    BY <1>1
  <2>7. QED
    BY <1>2, <2>1, <2>2, <2>3, <2>4, <2>5, <2>6 DEF TypeOK
<1>8. QED
  BY <1>2, <1>5, <1>6, <1>7 DEF IndInv

\* What the master does with a question.
LEMMA MasterFacts ==
    ASSUME IndInv, NEW w \in Worker, MasterMainHandler(w),
           NEW url, url = Program[load[w]]
    PROVE  /\ url \in Url /\ load[w] \in Loads /\ pc[w] = "waiting"
           /\ fs' \in {"null", "ok"}
           /\ UNCHANGED <<load, cur_fn, buffer, torn, taken, got>>
           /\ pc' = [pc EXCEPT ![w] = "answered"]
           /\ \/ /\ dicts' = dicts /\ reply' = [reply EXCEPT ![w] = NoBlock]
                 /\ ~IsLocal(url) /\ (Protocol[url] = "hdfs" => "connect" \in Faults)
              \/ \E a : /\ Answer(dicts, url, a)
                        /\ dicts' = a.dicts /\ reply' = [reply EXCEPT ![w] = a.ret]
<1>1. pc[w] = "waiting"
  BY DEF MasterMainHandler
<1>2. load[w] \in Loads /\ url \in Url
  <2>1. load[w] \in Loads
    BY <1>1 DEF IndInv, LoadInProgram
  <2>2. QED
    BY <2>1, ProgramAssumption DEF Loads
<1>3. fs \in {"null", "ok"} /\ DictsOK(dicts) /\ CountedAreOver(dicts)
  BY DEF IndInv, TypeOK
<1>4. /\ fs' \in {"null", "ok"}
      /\ Protocol[url] = "hdfs" => fs' = "ok" \/ "connect" \in Faults
  <2>1. CASE Protocol[url] = "hdfs"
    BY <1>3, <2>1 DEF MasterMainHandler, InitHdfs
  <2>2. CASE Protocol[url] # "hdfs"
    BY <1>3, <2>2 DEF MasterMainHandler
  <2>3. QED
    BY <2>1, <2>2
<1>5. CASE IsLocal(url) \/ (Protocol[url] = "hdfs" /\ fs' = "ok")
  <2>1. PICK a \in Answers(url) : dicts' = a.dicts /\ Answered(w, a.ret)
    BY <1>5 DEF MasterMainHandler
  <2>2. Answer(dicts, url, a)
    BY <1>2, <1>3, <2>1, AnswersHandOutOnce DEF Answers
  <2>3. QED
    BY <1>1, <1>2, <1>4, <2>1, <2>2 DEF Answered
<1>6. CASE ~(IsLocal(url) \/ (Protocol[url] = "hdfs" /\ fs' = "ok"))
  BY <1>1, <1>2, <1>4, <1>6 DEF MasterMainHandler, Answered
<1>7. QED
  BY <1>5, <1>6

\* What a worker that read a row group has in its buffer then.
LEMMA FetchFacts ==
    ASSUME TypeOK, GroupsExist, NEW w \in Worker, FetchBlock(w),
           NEW p, p = reply[w].filename, NEW g, g = reply[w].offset
    PROVE  /\ pc[w] = "answered" /\ reply[w] # NoBlock
           /\ p \in Path /\ g \in Nat /\ g < Len(RowGroups[p])
           /\ p # cur_fn[w] => ~Elsewhere(w, p)
           /\ UNCHANGED <<masterVars, reply, got>> /\ torn' \in [Worker -> BOOLEAN]
           /\ \/ LoadEnds(w) /\ "read" \in Faults
              \/ \E lines \in Seq(RowsOfGroup(p, g) \cup {EmptyLine}) :
                    /\ pc' = [pc EXCEPT ![w] = "next"]
                    /\ cur_fn' = [cur_fn EXCEPT ![w] = p]
                    /\ buffer' = [buffer EXCEPT ![w] = buffer[w] \o lines]
                    /\ taken' = [taken EXCEPT ![w] = 0]
                    /\ UNCHANGED load
<1>1. pc[w] = "answered" /\ p # "" /\ (p # cur_fn[w] => ~Elsewhere(w, p))
  BY DEF FetchBlock
<1>2. reply[w] # NoBlock
  BY <1>1, NoBlockFacts
<1>3. p \in Path /\ g \in Nat /\ g < Len(RowGroups[p])
  BY <1>2, ReplyFacts
<1>4. PICK print \in ReadByRow(p, g) :
          IF Printed(w, print.lines) = <<>> /\ ~print.torn
          THEN LoadEnds(w)
          ELSE /\ pc' = [pc EXCEPT ![w] = "next"]
               /\ cur_fn' = [cur_fn EXCEPT ![w] = p]
               /\ buffer' = [buffer EXCEPT ![w] = Printed(w, print.lines)]
               /\ torn' = [torn EXCEPT ![w] = print.torn]
               /\ taken' = [taken EXCEPT ![w] = 0]
               /\ UNCHANGED <<masterVars, load, reply, got>>
  BY DEF FetchBlock
<1> DEFINE lines == print.lines
<1>5. /\ lines \in Seq(RowsOfGroup(p, g) \cup {EmptyLine})
      /\ print.torn \in BOOLEAN
      /\ "read" \notin Faults => lines # <<>>
  BY <1>3, LinesFacts
<1>9. torn \in [Worker -> BOOLEAN]
  BY DEF TypeOK
<1> HIDE DEF lines
<1>10. lines = print.lines
  BY DEF lines
<1>6. CASE Printed(w, lines) = <<>> /\ ~print.torn
  <2>1. buffer[w] \in Seq(Row \cup {EmptyLine})
    BY WorkerTypes
  <2>2. lines = <<>>
    BY <1>5, <1>6, <2>1 DEF Printed
  <2>3. QED
    BY <1>1, <1>2, <1>3, <1>4, <1>5, <1>6, <1>9, <1>10, <2>2 DEF LoadEnds, NewSplitter
<1>7. CASE ~(Printed(w, lines) = <<>> /\ ~print.torn)
  BY <1>1, <1>2, <1>3, <1>4, <1>5, <1>7, <1>9, <1>10 DEF Printed
<1>8. QED
  BY <1>6, <1>7

\* What next returns: a line of the buffer, counted for the load if it is a row.
LEMMA LineFacts ==
    ASSUME IndInv, NEW w \in Worker, NextLine(w), NEW n, n = taken[w] + 1,
           NEW x, x = buffer[w][n]
    PROVE  /\ pc[w] = "next" /\ load[w] \in Loads
           /\ n \in DOMAIN buffer[w] /\ n <= Len(buffer[w])
           /\ x \in Row \cup {EmptyLine}
           /\ \/ x = EmptyLine /\ got' = got
              \/ /\ x \in Row /\ x # EmptyLine
                 /\ got' = [got EXCEPT ![w] = [got[w] EXCEPT ![load[w]] =
                                        got[w][load[w]] \cup {x}]]
           /\ taken' = [taken EXCEPT ![w] = n]
           /\ UNCHANGED <<masterVars, pc, load, reply, cur_fn, buffer, torn>>
<1>1. pc[w] = "next" /\ taken[w] < Len(buffer[w])
  BY DEF NextLine
<1>2. /\ buffer[w] \in Seq(Row \cup {EmptyLine}) /\ Len(buffer[w]) \in Nat
      /\ taken[w] \in Nat
  BY WorkerTypes DEF IndInv
<1>3. n \in 1 .. Len(buffer[w])
  BY <1>1, <1>2
<1>4. load[w] \in Loads
  BY <1>1 DEF IndInv, LoadInProgram
<1>5. x \in Row \cup {EmptyLine}
  BY <1>2, <1>3
<1>6. QED
  BY <1>1, <1>2, <1>3, <1>4, <1>5 DEF NextLine

\* A worker begins its next load, or ends its program.
LEMMA EndFacts ==
    ASSUME IndInv, NEW w \in Worker, LoadEnds(w), pc[w] = "answered"
    PROVE  /\ load[w] \in Loads /\ load[w] + 1 \in 1 .. Len(Program) + 1
           /\ Len(Program) \in Nat
           /\ load' = [load EXCEPT ![w] = load[w] + 1]
           /\ pc' \in [Worker -> {"next", "waiting", "answered", "done", "crashed"}]
           /\ \A v \in Worker : v # w => pc'[v] = pc[v]
           /\ pc'[w] = IF load[w] = Len(Program) THEN "done" ELSE "next"
           /\ cur_fn' = [cur_fn EXCEPT ![w] = ""]
           /\ buffer' = [buffer EXCEPT ![w] = <<>>]
           /\ torn' = [torn EXCEPT ![w] = FALSE]
           /\ taken' = [taken EXCEPT ![w] = 0]
           /\ UNCHANGED <<masterVars, reply, got>>
<1>1. load[w] \in Loads
  BY DEF IndInv, LoadInProgram
<1>2. Len(Program) \in Nat /\ Loads = 1 .. Len(Program)
  BY WorkerTypes DEF IndInv
<1>3. pc \in [Worker -> {"next", "waiting", "answered", "done", "crashed"}]
  BY DEF IndInv, TypeOK
<1>4. load[w] + 1 \in 1 .. Len(Program) + 1
  BY <1>1, <1>2
<1>5. /\ load' = [load EXCEPT ![w] = load[w] + 1]
      /\ pc' = [pc EXCEPT ![w] = IF load[w] = Len(Program) THEN "done" ELSE "next"]
      /\ cur_fn' = [cur_fn EXCEPT ![w] = ""]
      /\ buffer' = [buffer EXCEPT ![w] = <<>>]
      /\ torn' = [torn EXCEPT ![w] = FALSE]
      /\ taken' = [taken EXCEPT ![w] = 0]
      /\ UNCHANGED <<masterVars, reply, got>>
  BY DEF LoadEnds, NewSplitter
<1>6. /\ pc' \in [Worker -> {"next", "waiting", "answered", "done", "crashed"}]
      /\ \A v \in Worker : v # w => pc'[v] = pc[v]
      /\ pc'[w] = IF load[w] = Len(Program) THEN "done" ELSE "next"
  <2>1. pc' = [pc EXCEPT ![w] = IF load[w] = Len(Program) THEN "done" ELSE "next"]
    BY <1>5
  <2>2. QED
    BY <1>3, <2>1
<1>7. QED
  BY <1>1, <1>2, <1>4, <1>5, <1>6

\* The invariant, action by action.
LEMMA TypesStep ==
    ASSUME IndInv, [Next]_vars
    PROVE  IndInv'
<1> DEFINE Steps == {"next", "waiting", "answered", "done", "crashed"}
           Answers_ == [filename : Path \cup {""}, offset : Nat]
<1>1. TypeOK /\ LoadInProgram /\ GroupsExist /\ CountedAreOver(dicts)
  BY DEF IndInv
<1>2. /\ pc \in [Worker -> Steps] /\ load \in [Worker -> 1 .. Len(Program) + 1]
      /\ reply \in [Worker -> Answers_] /\ cur_fn \in [Worker -> Path \cup {""}]
      /\ buffer \in [Worker -> Seq(Row \cup {EmptyLine})] /\ taken \in [Worker -> Nat]
      /\ got \in [Worker -> [Loads -> SUBSET Row]] /\ torn \in [Worker -> BOOLEAN]
  BY <1>1 DEF TypeOK
<1>3. ASSUME NEW w \in Worker, NextLine(w) PROVE IndInv'
  <2> DEFINE n == taken[w] + 1
             x == buffer[w][n]
  <2>1. /\ load[w] \in Loads /\ n <= Len(buffer[w])
        /\ \/ x = EmptyLine /\ got' = got
           \/ /\ x \in Row
              /\ got' = [got EXCEPT ![w] = [got[w] EXCEPT ![load[w]] =
                                     got[w][load[w]] \cup {x}]]
        /\ taken' = [taken EXCEPT ![w] = n]
        /\ UNCHANGED <<masterVars, pc, load, reply, cur_fn, buffer, torn>>
    BY <1>3, LineFacts
  <2>2. got' \in [Worker -> [Loads -> SUBSET Row]]
    <3> DEFINE more == got[w][load[w]] \cup {x}
    <3> HIDE DEF x
    <3>1. x \in Row => more \subseteq Row
      BY <1>1, <2>1, WorkerTypes
    <3>2. got[w] \in [Loads -> SUBSET Row]
      BY <1>2
    <3>3. \/ got' = got
          \/ x \in Row /\ got' = [got EXCEPT ![w] = [got[w] EXCEPT ![load[w]] = more]]
      BY <2>1
    <3> HIDE DEF more
    <3>4. x \in Row => [got[w] EXCEPT ![load[w]] = more] \in [Loads -> SUBSET Row]
      BY <3>1, <3>2
    <3>5. QED
      BY <1>2, <3>3, <3>4
  <2>3. n \in Nat
    <3>1. taken[w] \in Nat
      BY <1>1, WorkerTypes
    <3>2. QED
      BY <3>1
  <2> HIDE DEF n, x
  <2>4. /\ taken' \in [Worker -> Nat]
        /\ \A v \in Worker : taken'[v] <= Len(buffer'[v])
    BY <1>1, <1>2, <2>1, <2>3 DEF TypeOK
  <2>5. TypeOK'
    BY <1>1, <2>1, <2>2, <2>4 DEF TypeOK, masterVars
  <2>6. LoadInProgram' /\ GroupsExist' /\ CountedAreOver(dicts)'
    BY <1>1, <2>1 DEF LoadInProgram, GroupsExist, masterVars
  <2>7. QED
    BY <2>5, <2>6 DEF IndInv
<1>4. ASSUME NEW w \in Worker, AskMaster(w) PROVE IndInv'
  <2>1. TypeOK'
    BY <1>1, <1>4 DEF AskMaster, TypeOK, masterVars
  <2>2. LoadInProgram' /\ GroupsExist' /\ CountedAreOver(dicts)'
    BY <1>1, <1>2, <1>4 DEF AskMaster, LoadInProgram, GroupsExist, masterVars
  <2>3. QED
    BY <2>1, <2>2 DEF IndInv
<1>11. ASSUME NEW w \in Worker, NextPiece(w) PROVE IndInv'
  <2>1. /\ taken' = [taken EXCEPT ![w] = 0]
        /\ UNCHANGED <<fs, dicts, pc, load, reply, cur_fn, buffer, torn, got>>
    BY <1>11 DEF NextPiece, masterVars
  <2>2. taken' \in [Worker -> Nat] /\ \A v \in Worker : taken'[v] <= Len(buffer'[v])
    <3>1. \A v \in Worker : Len(buffer[v]) \in Nat /\ taken[v] <= Len(buffer[v])
      BY <1>1, WorkerTypes
    <3>2. taken \in [Worker -> Nat]
      BY <1>1 DEF TypeOK
    <3>3. \A v \in Worker : buffer'[v] = buffer[v] /\ taken'[v] \in {taken[v], 0}
      BY <2>1, <3>2
    <3>4. taken' \in [Worker -> Nat]
      BY <2>1, <3>2
    <3>5. ASSUME NEW v \in Worker PROVE taken'[v] <= Len(buffer'[v])
      BY <3>1, <3>3
    <3>6. QED
      BY <3>4, <3>5
  <2>3. TypeOK'
    BY <1>1, <2>1, <2>2 DEF TypeOK
  <2>4. LoadInProgram' /\ GroupsExist' /\ CountedAreOver(dicts)'
    BY <1>1, <2>1 DEF LoadInProgram, GroupsExist
  <2>5. QED
    BY <2>3, <2>4 DEF IndInv
<1>5. ASSUME NEW w \in Worker, MasterMainHandler(w) PROVE IndInv'
  <2> DEFINE url == Program[load[w]]
  <2>1. /\ fs' \in {"null", "ok"} /\ pc[w] = "waiting"
        /\ UNCHANGED <<load, cur_fn, buffer, torn, taken, got>>
        /\ pc' = [pc EXCEPT ![w] = "answered"]
        /\ \/ dicts' = dicts /\ reply' = [reply EXCEPT ![w] = NoBlock]
           \/ \E a : /\ Answer(dicts, url, a)
                     /\ dicts' = a.dicts /\ reply' = [reply EXCEPT ![w] = a.ret]
    BY <1>5, MasterFacts
  <2> HIDE DEF url
  <2>2. /\ DictsOK(dicts') /\ CountedAreOver(dicts')
        /\ \E r \in Answers_ :
              /\ reply' = [reply EXCEPT ![w] = r]
              /\ r # NoBlock => r.filename \in Path /\ r.offset < Len(RowGroups[r.filename])
    <3>1. CASE dicts' = dicts /\ reply' = [reply EXCEPT ![w] = NoBlock]
      BY <1>1, <3>1, NoBlockFacts DEF TypeOK
    <3>2. CASE \E a : /\ Answer(dicts, url, a)
                     /\ dicts' = a.dicts /\ reply' = [reply EXCEPT ![w] = a.ret]
      <4>1. PICK a : /\ Answer(dicts, url, a)
                     /\ dicts' = a.dicts /\ reply' = [reply EXCEPT ![w] = a.ret]
        BY <3>2
      <4>2. DictsOK(a.dicts) /\ CountedAreOver(a.dicts)
        BY <4>1 DEF Answer
      <4>3. \/ a.ret = NoBlock
            \/ \E p \in Path, g \in Nat :
                 a.ret = [filename |-> p, offset |-> g] /\ g < Len(RowGroups[p])
        BY <4>1 DEF Answer
      <4>4. CASE a.ret = NoBlock
        BY <4>1, <4>2, <4>4, NoBlockFacts
      <4>5. ASSUME NEW p \in Path, NEW g \in Nat, g < Len(RowGroups[p]),
                   a.ret = [filename |-> p, offset |-> g]
            PROVE  /\ a.ret \in Answers_
                   /\ a.ret.filename \in Path /\ a.ret.offset < Len(RowGroups[a.ret.filename])
        <5> DEFINE r == [filename |-> p, offset |-> g]
        <5>1. r \in Answers_ /\ r.filename = p /\ r.offset = g
          OBVIOUS
        <5> HIDE DEF r
        <5>2. a.ret = r
          BY <4>5 DEF r
        <5>3. QED
          BY <4>5, <5>1, <5>2
      <4>6. QED
        BY <4>1, <4>2, <4>3, <4>4, <4>5
    <3>3. QED
      BY <2>1, <3>1, <3>2
  <2>3. PICK r \in Answers_ :
            /\ reply' = [reply EXCEPT ![w] = r]
            /\ r # NoBlock => r.filename \in Path /\ r.offset < Len(RowGroups[r.filename])
    BY <2>2
  <2>4. TypeOK'
    <3>1. pc' \in [Worker -> Steps] /\ reply' \in [Worker -> Answers_]
      BY <1>2, <2>1, <2>3
    <3>2. \A v \in Worker : taken'[v] <= Len(buffer'[v])
      BY <1>1, <2>1 DEF TypeOK
    <3>3. QED
      BY <1>2, <2>1, <2>2, <3>1, <3>2 DEF TypeOK
  <2>5. LoadInProgram'
    BY <1>1, <1>2, <2>1 DEF LoadInProgram
  <2>6. GroupsExist'
    <3>1. \A v \in Worker : reply'[v] = IF v = w THEN r ELSE reply[v]
      BY <1>2, <2>3
    <3>2. QED
      BY <1>1, <2>3, <3>1 DEF GroupsExist
  <2>7. QED
    BY <2>2, <2>4, <2>5, <2>6 DEF IndInv
<1>6. ASSUME NEW w \in Worker, LoadEnds(w), pc[w] = "answered" PROVE IndInv'
  <2>1. /\ load[w] \in Loads /\ load[w] + 1 \in 1 .. Len(Program) + 1
        /\ Len(Program) \in Nat
        /\ load' = [load EXCEPT ![w] = load[w] + 1]
        /\ pc' \in [Worker -> Steps]
        /\ \A v \in Worker : v # w => pc'[v] = pc[v]
        /\ pc'[w] = IF load[w] = Len(Program) THEN "done" ELSE "next"
        /\ cur_fn' = [cur_fn EXCEPT ![w] = ""]
        /\ buffer' = [buffer EXCEPT ![w] = <<>>]
        /\ torn' = [torn EXCEPT ![w] = FALSE]
        /\ taken' = [taken EXCEPT ![w] = 0]
        /\ UNCHANGED <<masterVars, reply, got>>
    BY <1>6, EndFacts
  <2>2. TypeOK'
    <3>1. /\ <<>> \in Seq(Row \cup {EmptyLine}) /\ Len(<<>>) = 0
      OBVIOUS
    <3>2. /\ load' \in [Worker -> 1 .. Len(Program) + 1]
          /\ cur_fn' \in [Worker -> Path \cup {""}] /\ taken' \in [Worker -> Nat]
          /\ torn' \in [Worker -> BOOLEAN]
      BY <1>2, <2>1
    <3>3. buffer' \in [Worker -> Seq(Row \cup {EmptyLine})]
      BY <1>2, <2>1, <3>1
    <3>4. \A v \in Worker : taken'[v] <= Len(buffer'[v])
      <4>1. ASSUME NEW v \in Worker, v # w PROVE taken'[v] <= Len(buffer'[v])
        BY <1>1, <2>1, <4>1 DEF TypeOK
      <4>2. taken'[w] = 0 /\ buffer'[w] = <<>>
        BY <1>2, <2>1
      <4>3. QED
        BY <3>1, <4>1, <4>2
    <3>5. QED
      BY <1>1, <2>1, <3>2, <3>3, <3>4 DEF TypeOK, masterVars
  <2>3. LoadInProgram'
    <3>1. SUFFICES ASSUME NEW v \in Worker, pc'[v] # "done"
                   PROVE  load'[v] \in Loads
      BY DEF LoadInProgram
    <3>2. CASE v = w
      <4>1. load[w] # Len(Program) /\ load'[w] = load[w] + 1
        BY <1>2, <2>1, <3>1, <3>2
      <4>2. Loads = 1 .. Len(Program)
        BY <1>1, WorkerTypes
      <4>3. load[w] + 1 \in Loads
        <5>1. load[w] \in 1 .. Len(Program) /\ load[w] # Len(Program) /\ Len(Program) \in Nat
          BY <2>1, <4>1, <4>2
        <5>2. load[w] + 1 \in 1 .. Len(Program)
          BY <5>1
        <5>3. QED
          BY <4>2, <5>2
      <4>4. QED
        BY <3>2, <4>1, <4>3
    <3>3. CASE v # w
      BY <1>1, <1>2, <2>1, <3>1, <3>3 DEF LoadInProgram
    <3>4. QED
      BY <3>2, <3>3
  <2>4. GroupsExist' /\ CountedAreOver(dicts)'
    BY <1>1, <2>1 DEF GroupsExist, masterVars
  <2>5. QED
    BY <2>2, <2>3, <2>4 DEF IndInv
<1>7. ASSUME NEW w \in Worker, FetchBlock(w) PROVE IndInv'
  <2> DEFINE p == reply[w].filename
             g == reply[w].offset
  <2>1. /\ pc[w] = "answered" /\ p \in Path /\ g \in Nat /\ g < Len(RowGroups[p])
        /\ UNCHANGED <<masterVars, reply, got>> /\ torn' \in [Worker -> BOOLEAN]
        /\ \/ LoadEnds(w)
           \/ \E lines \in Seq(RowsOfGroup(p, g) \cup {EmptyLine}) :
                 /\ pc' = [pc EXCEPT ![w] = "next"]
                 /\ cur_fn' = [cur_fn EXCEPT ![w] = p]
                 /\ buffer' = [buffer EXCEPT ![w] = buffer[w] \o lines]
                 /\ taken' = [taken EXCEPT ![w] = 0]
                 /\ UNCHANGED load
    BY <1>1, <1>7, FetchFacts
  <2> HIDE DEF p, g
  <2>2. CASE LoadEnds(w)
    BY <1>6, <2>1, <2>2
  <2>3. ASSUME NEW lines \in Seq(RowsOfGroup(p, g) \cup {EmptyLine}),
               pc' = [pc EXCEPT ![w] = "next"],
               cur_fn' = [cur_fn EXCEPT ![w] = p],
               buffer' = [buffer EXCEPT ![w] = buffer[w] \o lines],
               taken' = [taken EXCEPT ![w] = 0],
               UNCHANGED load
        PROVE  IndInv'
    <3>1. RowsOfGroup(p, g) \subseteq Row
      BY <2>1, GroupFacts
    <3>2. buffer[w] \o lines \in Seq(Row \cup {EmptyLine})
      <4>1. buffer[w] \in Seq(Row \cup {EmptyLine})
        BY <1>2
      <4>2. lines \in Seq(Row \cup {EmptyLine})
        BY <3>1
      <4>3. QED
        BY <4>1, <4>2
    <3>3. Len(buffer[w] \o lines) \in Nat
      BY <3>2
    <3> DEFINE printed == buffer[w] \o lines
    <3> HIDE DEF printed
    <3>4. buffer' = [buffer EXCEPT ![w] = printed] /\ printed \in Seq(Row \cup {EmptyLine})
          /\ Len(printed) \in Nat
      BY <2>3, <3>2, <3>3 DEF printed
    <3>5. /\ pc' \in [Worker -> Steps] /\ cur_fn' \in [Worker -> Path \cup {""}]
          /\ taken' \in [Worker -> Nat]
          /\ buffer' \in [Worker -> Seq(Row \cup {EmptyLine})]
      <4>1. pc' \in [Worker -> Steps] /\ cur_fn' \in [Worker -> Path \cup {""}]
        BY <1>2, <2>1, <2>3
      <4>2. taken' \in [Worker -> Nat]
        BY <1>2, <2>3
      <4>3. buffer' \in [Worker -> Seq(Row \cup {EmptyLine})]
        BY <1>2, <3>4
      <4>4. QED
        BY <4>1, <4>2, <4>3
    <3>6. \A v \in Worker : taken'[v] <= Len(buffer'[v])
      <4>1. ASSUME NEW v \in Worker, v # w PROVE taken'[v] <= Len(buffer'[v])
        <5>1. taken'[v] = taken[v] /\ buffer'[v] = buffer[v]
          BY <1>2, <2>3, <3>4, <4>1
        <5>2. QED
          BY <1>1, <5>1, WorkerTypes
      <4>2. taken'[w] = 0 /\ buffer'[w] = printed
        BY <1>2, <2>3, <3>4
      <4>3. QED
        BY <3>4, <4>1, <4>2
    <3>7. TypeOK'
      BY <1>1, <2>1, <2>3, <3>5, <3>6 DEF TypeOK, masterVars
    <3>8. LoadInProgram'
      BY <1>1, <1>2, <2>1, <2>3 DEF LoadInProgram
    <3>9. GroupsExist' /\ CountedAreOver(dicts)'
      BY <1>1, <2>1 DEF GroupsExist, masterVars
    <3>10. QED
      BY <3>7, <3>8, <3>9 DEF IndInv
  <2>4. QED
    BY <2>1, <2>2, <2>3
<1>8. ASSUME NEW w \in Worker, OpenFails(w) PROVE IndInv'
  <2>1. pc' = [pc EXCEPT ![w] = "crashed"] /\ pc[w] = "answered"
    BY <1>8 DEF OpenFails
  <2>2. TypeOK'
    BY <1>1, <1>8, <2>1 DEF OpenFails, TypeOK, masterVars
  <2>3. LoadInProgram' /\ GroupsExist' /\ CountedAreOver(dicts)'
    BY <1>1, <1>2, <1>8, <2>1 DEF OpenFails, LoadInProgram, GroupsExist, masterVars
  <2>4. QED
    BY <2>2, <2>3 DEF IndInv
<1>9. CASE UNCHANGED vars
  <2>1. UNCHANGED <<fs, dicts, pc, load, reply, cur_fn, buffer, torn, taken, got>>
    BY <1>9 DEF vars, masterVars, workerVars
  <2>2. TypeOK'
    BY <1>1, <2>1 DEF TypeOK
  <2>3. LoadInProgram' /\ GroupsExist' /\ CountedAreOver(dicts)'
    BY <1>1, <2>1 DEF LoadInProgram, GroupsExist
  <2>4. QED
    BY <2>2, <2>3 DEF IndInv
<1>10. QED
  BY <1>3, <1>4, <1>5, <1>6, <1>7, <1>8, <1>9, <1>11 DEF Next, WorkerStep, FetchNothing

\* Types, programs in step with the url list, existing row groups, and counts
\* of files that are read up: for every instance.
THEOREM Invariance == Spec => []IndInv
  BY TypesInit, TypesStep, PTL DEF Spec

\* All variables of the master and the workers keep their types.
THEOREM TypeCorrect == Spec => []TypeOK
<1>1. IndInv => TypeOK
  BY DEF IndInv
<1>2. QED
  BY <1>1, Invariance, PTL

\* The master changes its maps only when it answers.
LEMMA OnlyAnswersMoveMaps ==
    ASSUME [Next]_vars
    PROVE  UNCHANGED dicts \/ \E w \in Worker : MasterMainHandler(w)
<1>1. ASSUME NEW w \in Worker, WorkerStep(w) PROVE UNCHANGED dicts
  BY <1>1 DEF WorkerStep, NextLine, NextPiece, AskMaster, FetchNothing, FetchBlock, LoadEnds,
              OpenFails, masterVars
<1>2. QED
  BY <1>1 DEF Next, vars, masterVars

\* finish_url is called for a file only when its last row group was handed
\* out, whatever mix of files and urls shares the counts.
THEOREM NoRowGroupIsLost == Spec => NoGroupLost
<1> DEFINE Dropped == \A p \in DOMAIN dicts.file_size \ DOMAIN dicts'.file_size :
                          dicts.file_offset[p] = dicts.file_size[p]
<1>1. ASSUME IndInv, [Next]_vars PROVE Dropped
  <2>1. CASE UNCHANGED dicts
    BY <2>1
  <2>2. ASSUME NEW w \in Worker, MasterMainHandler(w) PROVE Dropped
    <3> DEFINE url == Program[load[w]]
    <3>1. \/ dicts' = dicts
          \/ \E a : Answer(dicts, url, a) /\ dicts' = a.dicts
      BY <1>1, <2>2, MasterFacts
    <3> HIDE DEF url
    <3>2. CASE \E a : Answer(dicts, url, a) /\ dicts' = a.dicts
      <4>1. PICK a : Answer(dicts, url, a) /\ dicts' = a.dicts
        BY <3>2
      <4>2. QED
        BY <4>1 DEF Answer
    <3>3. QED
      BY <3>1, <3>2
  <2>3. QED
    BY <1>1, <2>1, <2>2, OnlyAnswersMoveMaps
<1>2. IndInv /\ [Next]_vars => [Dropped]_vars
  BY <1>1
<1>3. Spec => [][Dropped]_vars
  BY <1>2, Invariance, PTL DEF Spec
<1>4. QED
  BY <1>3 DEF NoGroupLost

-----------------------------------------------------------------------------
(***************************************************************************)
(* A load is given rows of its own url.                                    *)
(***************************************************************************)

\* The rows of the files a url stands for.
LEMMA RowsOfFacts ==
    ASSUME NEW url \in Url, NEW p,
           \/ p \in Range(Files[url])
           \/ IsLocal(url) /\ p \in Opens(url)
    PROVE  RowsOfFile(p) \subseteq RowsOf(url)
<1>1. CASE p \in Range(Files[url])
  BY <1>1 DEF RowsOf
<1>2. CASE IsLocal(url) /\ p \in Opens(url)
  <2>1. Kind[url] = "file" /\ p = url
    BY <1>2 DEF Opens
  <2>2. QED
    BY <2>1 DEF RowsOf
<1>3. QED
  BY <1>1, <1>2

\* Only the master's answers enter files, and those are of the url asked for.
LEMMA OnlyFilesStep ==
    ASSUME IndInv, OnlyFiles, [Next]_vars
    PROVE  OnlyFiles'
<1>1. CASE UNCHANGED dicts
  BY <1>1 DEF OnlyFiles
<1>2. ASSUME NEW w \in Worker, MasterMainHandler(w) PROVE OnlyFiles'
  <2> DEFINE url == Program[load[w]]
  <2>1. /\ load[w] \in Loads
        /\ \/ dicts' = dicts
           \/ \E a : Answer(dicts, url, a) /\ dicts' = a.dicts
    BY <1>2, MasterFacts
  <2>2. DOMAIN dicts'.file_size \subseteq DOMAIN dicts.file_size \cup Opens(url)
    <3> HIDE DEF url
    <3>1. CASE \E a : Answer(dicts, url, a) /\ dicts' = a.dicts
      <4>1. PICK a : Answer(dicts, url, a) /\ dicts' = a.dicts
        BY <3>1
      <4>2. QED
        BY <4>1 DEF Answer
    <3>2. QED
      BY <2>1, <3>1
  <2>3. QED
    BY <2>1, <2>2 DEF OnlyFiles
<1>3. QED
  BY <1>1, <1>2, OnlyAnswersMoveMaps

\* Where an answer sends a worker, in a program with one HDFS url.
LEMMA SentToOwn ==
    ASSUME IndInv, OnlyFiles, OneHdfsUrl,
           NEW k \in Loads, NEW url, url = Program[k],
           NEW a, Answer(dicts, url, a), a.ret # NoBlock,
           IsLocal(a.ret.filename) = IsLocal(url)
    PROVE  RowsOfFile(a.ret.filename) \subseteq RowsOf(url)
<1>1. url \in Url
  BY ProgramAssumption DEF Loads
<1>2. PICK p \in Path, g \in Nat :
          /\ a.ret = [filename |-> p, offset |-> g]
          /\ Left(dicts, p, g) \/ p \in Opens(url)
          /\ SentTo(url, p)
  BY DEF Answer
<1>3. a.ret.filename = p
  BY <1>2
<1>4. CASE IsLocal(url)
  BY <1>1, <1>2, <1>3, <1>4, RowsOfFacts DEF SentTo
<1>5. CASE ~IsLocal(url)
  <2>1. p \in Range(Files[url])
    <3>1. CASE p \in Opens(url)
      BY <1>5, <3>1 DEF Opens
    <3>2. CASE Left(dicts, p, g)
      <4>1. PICK j \in Loads : p \in Opens(Program[j])
        BY <3>2 DEF Left, OnlyFiles
      <4>2. ~IsLocal(Program[j])
        BY <1>3, <1>5, <4>1 DEF Opens
      <4>3. Program[j] = url
        BY <1>5, <4>2 DEF OneHdfsUrl
      <4>4. QED
        BY <1>5, <4>1, <4>3 DEF Opens
    <3>3. QED
      BY <1>2, <3>1, <3>2
  <2>2. QED
    BY <1>1, <1>3, <2>1, RowsOfFacts
<1>6. QED
  BY <1>4, <1>5

\* The lines in a buffer after a row group was printed to it.
LEMMA PrintedFacts ==
    ASSUME NEW S, NEW T, NEW old \in Seq(S), NEW lines \in Seq(T), NEW i \in DOMAIN (old \o lines)
    PROVE  \/ i \in DOMAIN old /\ (old \o lines)[i] = old[i]
           \/ \E j \in DOMAIN lines : (old \o lines)[i] = lines[j]
<1>1. i \in 1 .. Len(old) + Len(lines)
  OBVIOUS
<1>2. CASE i <= Len(old)
  BY <1>1, <1>2
<1>3. CASE ~(i <= Len(old))
  <2>1. i - Len(old) \in DOMAIN lines /\ (old \o lines)[i] = lines[i - Len(old)]
    BY <1>1, <1>3
  <2>2. QED
    BY <2>1
<1>4. QED
  BY <1>2, <1>3

\* The three facts about workers, in terms of what they say of one worker.
LEMMA ApartInit == Init => Apart
<1> SUFFICES ASSUME Init PROVE Apart
  OBVIOUS
<1>1. OnlyFiles
  <2>1. dicts.file_size = <<>>
    BY DEF Init, MasterInit
  <2>2. DOMAIN <<>> = {}
    OBVIOUS
  <2>3. DOMAIN dicts.file_size = {}
    BY <2>1, <2>2
  <2>4. QED
    BY <2>3 DEF OnlyFiles
<1>2. SentToOwnFiles
  <2>1. \A w \in Worker : pc[w] = "next"
    BY DEF Init
  <2>2. QED
    BY <2>1 DEF SentToOwnFiles
<1>3. PrintsOwnRows
  <2>1. \A w \in Worker : buffer[w] = <<>> /\ cur_fn[w] = ""
    BY DEF Init
  <2>2. DOMAIN <<>> = {}
    OBVIOUS
  <2>3. QED
    BY <2>1, <2>2 DEF PrintsOwnRows
<1>4. LoadsKeepApart
  <2>1. \A w \in Worker : \A k \in Loads : got[w][k] = {}
    BY DEF Init
  <2>2. QED
    BY <2>1 DEF LoadsKeepApart
<1>5. QED
  BY <1>1, <1>2, <1>3, <1>4 DEF Apart

\* With one HDFS url every step keeps the rows of the loads apart.
LEMMA ApartStep ==
    ASSUME IndInv, Apart, OneHdfsUrl, [Next]_vars
    PROVE  Apart'
<1>1. OnlyFiles /\ SentToOwnFiles /\ PrintsOwnRows /\ LoadsKeepApart
  BY DEF Apart
<1>2. OnlyFiles'
  BY <1>1, OnlyFilesStep
<1>3. TypeOK /\ GroupsExist
  BY DEF IndInv
<1>4. /\ pc \in [Worker -> {"next", "waiting", "answered", "done", "crashed"}]
      /\ load \in [Worker -> 1 .. Len(Program) + 1]
      /\ reply \in [Worker -> [filename : Path \cup {""}, offset : Nat]]
      /\ cur_fn \in [Worker -> Path \cup {""}]
      /\ buffer \in [Worker -> Seq(Row \cup {EmptyLine})]
      /\ got \in [Worker -> [Loads -> SUBSET Row]]
  BY <1>3 DEF TypeOK
<1>5. ASSUME NEW w \in Worker, NextLine(w) PROVE Apart'
  <2> DEFINE x == buffer[w][taken[w] + 1]
  <2>1. /\ pc[w] = "next" /\ load[w] \in Loads /\ taken[w] + 1 \in DOMAIN buffer[w]
        /\ \/ x = EmptyLine /\ got' = got
           \/ /\ x \in Row /\ x # EmptyLine
              /\ got' = [got EXCEPT ![w] = [got[w] EXCEPT ![load[w]] =
                                     got[w][load[w]] \cup {x}]]
        /\ UNCHANGED <<masterVars, pc, load, reply, cur_fn, buffer>>
    BY <1>5, LineFacts
  <2>2. x # EmptyLine => x \in RowsOf(Program[load[w]])
    BY <1>1, <2>1 DEF PrintsOwnRows
  <2> HIDE DEF x
  <2>3. ASSUME NEW v \in Worker, NEW k \in Loads, NEW y \in Row, y \in got'[v][k]
        PROVE  y \in RowsOf(Program[k])
    <3>1. CASE y \in got[v][k]
      BY <1>1, <3>1 DEF LoadsKeepApart
    <3>2. CASE y \notin got[v][k]
      <4>1. v = w /\ k = load[w] /\ y = x /\ x # EmptyLine
        <5>1. got' = [got EXCEPT ![w] = [got[w] EXCEPT ![load[w]] =
                                     got[w][load[w]] \cup {x}]]
              /\ x # EmptyLine
          BY <2>1, <2>3, <3>2
        <5>2. v = w
          BY <1>4, <2>3, <3>2, <5>1
        <5>3. got'[w] = [got[w] EXCEPT ![load[w]] = got[w][load[w]] \cup {x}]
          BY <1>4, <5>1
        <5>4. got[w] \in [Loads -> SUBSET Row]
          BY <1>4
        <5>5. k = load[w]
          BY <2>3, <3>2, <5>2, <5>3, <5>4
        <5>6. got'[w][k] = got[w][k] \cup {x} /\ got[w][k] \subseteq Row
          BY <5>3, <5>4, <5>5
        <5>7. y = x
          BY <2>3, <3>2, <5>2, <5>6
        <5>8. QED
          BY <5>1, <5>2, <5>5, <5>7
      <4>2. QED
        BY <2>2, <4>1
    <3>3. QED
      BY <2>3, <3>1, <3>2
  <2>4. LoadsKeepApart'
    <3>1. \A v \in Worker : \A k \in Loads : got'[v][k] \subseteq Row
      <4>1. TypeOK'
        BY <1>5, TypesStep DEF IndInv, Next, WorkerStep
      <4>2. QED
        BY <4>1 DEF TypeOK
    <3>2. QED
      BY <2>3, <3>1 DEF LoadsKeepApart
  <2>5. SentToOwnFiles' /\ PrintsOwnRows'
    BY <1>1, <2>1 DEF SentToOwnFiles, PrintsOwnRows, Elsewhere
  <2>6. QED
    BY <1>2, <2>4, <2>5 DEF Apart
<1>6. ASSUME NEW w \in Worker, AskMaster(w) PROVE Apart'
  <2>1. SentToOwnFiles' /\ PrintsOwnRows' /\ LoadsKeepApart'
    BY <1>1, <1>4, <1>6 DEF AskMaster, SentToOwnFiles, PrintsOwnRows, LoadsKeepApart, Elsewhere
  <2>2. QED
    BY <1>2, <2>1 DEF Apart
<1>7. ASSUME NEW w \in Worker, MasterMainHandler(w) PROVE Apart'
  <2> DEFINE url == Program[load[w]]
  <2>1. /\ load[w] \in Loads /\ pc[w] = "waiting"
        /\ UNCHANGED <<load, cur_fn, buffer, taken, got>>
        /\ pc' = [pc EXCEPT ![w] = "answered"]
        /\ \/ reply' = [reply EXCEPT ![w] = NoBlock]
           \/ \E a : Answer(dicts, url, a) /\ reply' = [reply EXCEPT ![w] = a.ret]
    BY <1>7, MasterFacts
  <2> HIDE DEF url
  <2>2. PICK r : /\ reply' = [reply EXCEPT ![w] = r]
                 /\ r = NoBlock \/ \E a : Answer(dicts, url, a) /\ r = a.ret
    BY <2>1
  <2>3. r # NoBlock /\ IsLocal(r.filename) = IsLocal(url) => RowsOfFile(r.filename) \subseteq RowsOf(url)
    BY <1>1, <2>1, <2>2, SentToOwn DEF url
  <2>4. SentToOwnFiles'
    <3>1. SUFFICES ASSUME NEW v \in Worker, pc'[v] = "answered", reply'[v] # NoBlock,
                          IsLocal(reply'[v].filename) = IsLocal(Program[load'[v]])
                   PROVE  RowsOfFile(reply'[v].filename) \subseteq RowsOf(Program[load'[v]])
      BY DEF SentToOwnFiles, Elsewhere
    <3>2. CASE v = w
      <4>1. reply'[v] = r /\ load'[v] = load[w]
        BY <1>4, <2>1, <2>2, <3>2
      <4>2. QED
        BY <2>3, <3>1, <4>1 DEF url
    <3>3. CASE v # w
      <4>1. reply'[v] = reply[v] /\ load'[v] = load[v] /\ pc[v] = "answered"
        BY <1>4, <2>1, <2>2, <3>1, <3>3
      <4>2. QED
        BY <1>1, <3>1, <4>1 DEF SentToOwnFiles, Elsewhere
    <3>4. QED
      BY <3>2, <3>3
  <2>5. PrintsOwnRows' /\ LoadsKeepApart'
    BY <1>1, <1>4, <2>1 DEF PrintsOwnRows, LoadsKeepApart, Elsewhere
  <2>6. QED
    BY <1>2, <2>4, <2>5 DEF Apart
<1>8. ASSUME NEW w \in Worker, LoadEnds(w), pc[w] = "answered" PROVE Apart'
  <2>1. /\ load' = [load EXCEPT ![w] = load[w] + 1]
        /\ \A v \in Worker : v # w => pc'[v] = pc[v]
        /\ pc'[w] = IF load[w] = Len(Program) THEN "done" ELSE "next"
        /\ cur_fn' = [cur_fn EXCEPT ![w] = ""]
        /\ buffer' = [buffer EXCEPT ![w] = <<>>]
        /\ UNCHANGED <<masterVars, reply, got>>
    BY <1>8, EndFacts
  <2>2. /\ pc'[w] # "answered" /\ cur_fn'[w] = "" /\ DOMAIN buffer'[w] = {}
        /\ \A v \in Worker : v # w =>
              pc'[v] = pc[v] /\ cur_fn'[v] = cur_fn[v] /\ buffer'[v] = buffer[v] /\ load'[v] = load[v]
    <3>1. buffer'[w] = <<>> /\ DOMAIN <<>> = {}
      <4>1. buffer'[w] = <<>>
        BY <1>4, <2>1
      <4>2. DOMAIN <<>> = {}
        OBVIOUS
      <4>3. QED
        BY <4>1, <4>2
    <3>2. pc'[w] # "answered" /\ cur_fn'[w] = ""
      BY <1>4, <2>1
    <3>3. QED
      BY <1>4, <2>1, <3>1, <3>2
  <2>3. SentToOwnFiles'
    BY <1>1, <2>1, <2>2 DEF SentToOwnFiles, Elsewhere
  <2>4. PrintsOwnRows'
    <3>1. SUFFICES ASSUME NEW v \in Worker, pc'[v] # "done"
                   PROVE  /\ cur_fn'[v] # "" => IsLocal(cur_fn'[v]) = IsLocal(Program[load'[v]])
                          /\ \A i \in DOMAIN buffer'[v] : buffer'[v][i] # EmptyLine =>
                                buffer'[v][i] \in RowsOf(Program[load'[v]])
      BY DEF PrintsOwnRows, Elsewhere
    <3>2. CASE v = w
      BY <2>2, <3>2
    <3>3. CASE v # w
      <4>1. /\ pc[v] # "done" /\ cur_fn'[v] = cur_fn[v] /\ buffer'[v] = buffer[v]
            /\ load'[v] = load[v]
        BY <2>2, <3>1, <3>3
      <4>2. QED
        BY <1>1, <4>1 DEF PrintsOwnRows, Elsewhere
    <3>4. QED
      BY <3>2, <3>3
  <2>5. LoadsKeepApart'
    BY <1>1, <2>1 DEF LoadsKeepApart
  <2>6. QED
    BY <1>2, <2>3, <2>4, <2>5 DEF Apart
<1>9. ASSUME NEW w \in Worker, FetchBlock(w) PROVE Apart'
  <2> DEFINE p == reply[w].filename
             g == reply[w].offset
             url == Program[load[w]]
  <2>0. p = reply[w].filename /\ g = reply[w].offset
    OBVIOUS
  <2> HIDE DEF p, g
  <2>1. /\ pc[w] = "answered" /\ reply[w] # NoBlock
        /\ p \in Path /\ g \in Nat /\ g < Len(RowGroups[p])
        /\ p # cur_fn[w] => ~Elsewhere(w, p)
        /\ UNCHANGED <<masterVars, reply, got>>
        /\ \/ LoadEnds(w) /\ "read" \in Faults
           \/ \E lines \in Seq(RowsOfGroup(p, g) \cup {EmptyLine}) :
                 /\ pc' = [pc EXCEPT ![w] = "next"]
                 /\ cur_fn' = [cur_fn EXCEPT ![w] = p]
                 /\ buffer' = [buffer EXCEPT ![w] = buffer[w] \o lines]
                 /\ taken' = [taken EXCEPT ![w] = 0]
                 /\ UNCHANGED load
    BY <1>3, <1>9, <2>0, FetchFacts
  <2>2. ~Elsewhere(w, p)
    <3>1. p # ""
      BY <2>1, NamesAssumption
    <3>2. CASE p = cur_fn[w]
      BY <1>1, <2>1, <3>1, <3>2 DEF PrintsOwnRows
    <3>3. QED
      BY <2>1, <3>2
  <2>3. RowsOfGroup(p, g) \subseteq RowsOf(url)
    <3>1. RowsOfFile(p) \subseteq RowsOf(url)
      BY <1>1, <2>0, <2>1, <2>2 DEF SentToOwnFiles
    <3>2. QED
      BY <2>1, <3>1, GroupFacts
  <2>4. IsLocal(p) = IsLocal(url)
    BY <2>2 DEF Elsewhere
  <2> HIDE DEF url
  <2>5. ASSUME NEW lines \in Seq(RowsOfGroup(p, g) \cup {EmptyLine}),
               pc' = [pc EXCEPT ![w] = "next"],
               cur_fn' = [cur_fn EXCEPT ![w] = p],
               buffer' = [buffer EXCEPT ![w] = buffer[w] \o lines],
               taken' = [taken EXCEPT ![w] = 0],
               UNCHANGED load
        PROVE  Apart'
    <3>1. /\ pc'[w] = "next" /\ cur_fn'[w] = p /\ buffer'[w] = buffer[w] \o lines
          /\ \A v \in Worker : v # w =>
                pc'[v] = pc[v] /\ cur_fn'[v] = cur_fn[v] /\ buffer'[v] = buffer[v]
      BY <1>4, <2>5
    <3>2. ASSUME NEW i \in DOMAIN buffer'[w], buffer'[w][i] # EmptyLine
          PROVE  buffer'[w][i] \in RowsOf(url)
      <4>1. buffer[w] \in Seq(Row \cup {EmptyLine})
        BY <1>4
      <4>2. \/ i \in DOMAIN buffer[w] /\ (buffer[w] \o lines)[i] = buffer[w][i]
            \/ \E j \in DOMAIN lines : (buffer[w] \o lines)[i] = lines[j]
        BY <2>5, <3>1, <3>2, <4>1, PrintedFacts
      <4>3. CASE i \in DOMAIN buffer[w] /\ (buffer[w] \o lines)[i] = buffer[w][i]
        BY <1>1, <2>1, <3>1, <3>2, <4>3 DEF PrintsOwnRows, url
      <4>4. CASE \E j \in DOMAIN lines : (buffer[w] \o lines)[i] = lines[j]
        <5>1. PICK j \in DOMAIN lines : (buffer[w] \o lines)[i] = lines[j]
          BY <4>4
        <5>2. lines[j] \in RowsOfGroup(p, g) \cup {EmptyLine}
          BY <2>5, <5>1
        <5>3. QED
          BY <2>3, <3>1, <3>2, <5>1, <5>2
      <4>5. QED
        BY <4>2, <4>3, <4>4
    <3>3. PrintsOwnRows'
      <4>1. SUFFICES ASSUME NEW v \in Worker, pc'[v] # "done"
                     PROVE  /\ cur_fn'[v] # "" => IsLocal(cur_fn'[v]) = IsLocal(Program[load'[v]])
                            /\ \A i \in DOMAIN buffer'[v] : buffer'[v][i] # EmptyLine =>
                                  buffer'[v][i] \in RowsOf(Program[load'[v]])
        BY DEF PrintsOwnRows, Elsewhere
      <4>2. CASE v = w
        BY <2>4, <2>5, <3>1, <3>2, <4>2 DEF url
      <4>3. CASE v # w
        <5>1. pc[v] # "done" /\ cur_fn'[v] = cur_fn[v] /\ buffer'[v] = buffer[v]
          BY <3>1, <4>1, <4>3
        <5>2. QED
          BY <1>1, <2>5, <5>1 DEF PrintsOwnRows, Elsewhere
      <4>4. QED
        BY <4>2, <4>3
    <3>4. SentToOwnFiles'
      BY <1>1, <2>1, <2>5, <3>1 DEF SentToOwnFiles, Elsewhere
    <3>5. LoadsKeepApart'
      BY <1>1, <2>1 DEF LoadsKeepApart
    <3>6. QED
      BY <1>2, <3>3, <3>4, <3>5 DEF Apart
  <2>6. QED
    BY <1>8, <2>1, <2>5
<1>10. ASSUME NEW w \in Worker, OpenFails(w) PROVE Apart'
  <2>1. /\ pc[w] = "answered" /\ pc' = [pc EXCEPT ![w] = "crashed"]
        /\ UNCHANGED <<masterVars, load, reply, cur_fn, buffer, taken, got>>
    BY <1>10 DEF OpenFails
  <2>2. SentToOwnFiles' /\ PrintsOwnRows' /\ LoadsKeepApart'
    BY <1>1, <1>4, <2>1 DEF SentToOwnFiles, PrintsOwnRows, LoadsKeepApart, Elsewhere
  <2>3. QED
    BY <1>2, <2>2 DEF Apart
<1>11. CASE UNCHANGED vars
  <2>1. UNCHANGED <<fs, dicts, pc, load, reply, cur_fn, buffer, taken, got>>
    BY <1>11 DEF vars, masterVars, workerVars
  <2>2. SentToOwnFiles' /\ PrintsOwnRows' /\ LoadsKeepApart'
    BY <1>1, <2>1 DEF SentToOwnFiles, PrintsOwnRows, LoadsKeepApart, Elsewhere
  <2>3. QED
    BY <1>2, <2>2 DEF Apart
<1>13. ASSUME NEW w \in Worker, NextPiece(w) PROVE Apart'
  <2>1. UNCHANGED <<fs, dicts, pc, load, reply, cur_fn, buffer, got>>
    BY <1>13 DEF NextPiece, masterVars
  <2>2. SentToOwnFiles' /\ PrintsOwnRows' /\ LoadsKeepApart'
    BY <1>1, <2>1 DEF SentToOwnFiles, PrintsOwnRows, LoadsKeepApart, Elsewhere
  <2>3. QED
    BY <1>2, <2>2 DEF Apart
<1>12. QED
  BY <1>5, <1>6, <1>7, <1>8, <1>9, <1>10, <1>11, <1>13 DEF Next, WorkerStep, FetchNothing

\* With one HDFS url, the rows a load is given are of the url it reads: of its
\* own file or directory, whatever other loads are going on.
THEOREM RowsOfTheUrl == ASSUME OneHdfsUrl PROVE Spec => []LoadsKeepApart
<1>1. IndInv /\ Apart /\ [Next]_vars => Apart'
  BY ApartStep
<1>2. Spec => []Apart
  BY <1>1, ApartInit, Invariance, PTL DEF Spec
<1>3. Apart => LoadsKeepApart
  BY DEF Apart
<1>4. QED
  BY <1>2, <1>3, PTL

-----------------------------------------------------------------------------
(***************************************************************************)
(* A row has one reader.                                                   *)
(***************************************************************************)

\* No file is entered for two loads.
LEMMA OpensOnce ==
    ASSUME NamesOnce, NEW j \in Loads, NEW k \in Loads, NEW p,
           p \in Opens(Program[j]), p \in Opens(Program[k])
    PROVE  j = k
<1>1. Program[j] \in Url /\ Program[k] \in Url
  BY ProgramAssumption DEF Loads
<1>2. Program[j] = Program[k] => j = k
  BY DEF NamesOnce
<1>3. IsLocal(Program[j]) = IsLocal(Program[k])
  BY DEF NamesOnce
<1>4. CASE IsLocal(Program[j])
  BY <1>2, <1>3, <1>4 DEF Opens
<1>5. CASE ~IsLocal(Program[j])
  <2>1. PICK i \in DOMAIN Files[Program[j]] : p = Files[Program[j]][i]
    BY <1>5 DEF Opens, Range
  <2>2. PICK h \in DOMAIN Files[Program[k]] : p = Files[Program[k]][h]
    BY <1>3, <1>5 DEF Opens, Range
  <2>3. i \in 1 .. Len(Files[Program[j]]) /\ h \in 1 .. Len(Files[Program[k]])
    BY <1>1, <2>1, <2>2, FilesAssumption
  <2>4. Program[j] = Program[k]
    <3>1. \A u, v \in Url : \A m \in 1 .. Len(Files[u]), n \in 1 .. Len(Files[v]) :
             Files[u][m] = Files[v][n] => u = v
      BY FilesAssumption
    <3>2. Files[Program[j]][i] = Files[Program[k]][h]
      BY <2>1, <2>2
    <3>3. QED
      BY <1>1, <2>3, <3>1, <3>2
  <2>5. QED
    BY <1>2, <2>4
<1>6. QED
  BY <1>4, <1>5

\* The counts of the program's urls are touched by answers for them only.
LEMMA UrlsApart ==
    ASSUME NamesOnce, OnlyFiles, NEW j \in Loads, NEW k \in Loads,
           NEW a, Answer(dicts, Program[j], a)
    PROVE  /\ k = j => CountsUrl(dicts, Program[k], a)
           /\ k # j => KeepsCount(dicts, Program[k], a)
<1>1. \A i \in Loads : Program[k] \notin Range(Files[Program[i]])
  BY DEF NamesOnce
<1>2. Program[k] \notin Others(dicts, Program[j])
  <2>1. ASSUME ~IsLocal(Program[j]), Program[k] \in DOMAIN dicts.file_size PROVE FALSE
    <3>1. PICK i \in Loads : Program[k] \in Opens(Program[i])
      BY <2>1 DEF OnlyFiles
    <3>2. ~IsLocal(Program[i])
      BY <2>1 DEF NamesOnce
    <3>3. QED
      BY <1>1, <3>1, <3>2 DEF Opens
  <2>2. QED
    BY <1>1, <2>1 DEF Others
<1>3. k # j => Program[k] # Program[j]
  BY DEF NamesOnce
<1>4. k # j => Program[k] \notin Opens(Program[j])
  BY <1>1, <1>3 DEF Opens
<1>5. QED
  BY <1>2, <1>3, <1>4 DEF Answer

\* Told is a finite set of workers.
LEMMA ToldIsFinite ==
    ASSUME NEW k
    PROVE  /\ Told(k) \subseteq Worker /\ IsFiniteSet(Told(k))
           /\ Cardinality(Told(k)) \in Nat
           /\ Cardinality(Told(k)) <= num_workers_alive
<1>1. Told(k) \subseteq Worker
  BY DEF Told
<1>2. QED
  BY <1>1, WorkerAssumption, FS_Subset, FS_CardinalityType

\* A worker that waits was not told of its load; telling it adds it.
LEMMA TellOne ==
    ASSUME NEW T, NEW w \in Worker, T \subseteq Worker, w \notin T
    PROVE  /\ IsFiniteSet(T) /\ Cardinality(T) \in Nat
           /\ Cardinality(T \cup {w}) = Cardinality(T) + 1
           /\ Cardinality(T \cup {w}) <= num_workers_alive
           /\ Cardinality(T \cup {w}) = num_workers_alive => T \cup {w} = Worker
<1>1. IsFiniteSet(T) /\ Cardinality(T) \in Nat
  BY WorkerAssumption, FS_Subset, FS_CardinalityType
<1>2. Cardinality(T \cup {w}) = Cardinality(T) + 1
  BY <1>1, FS_AddElement
<1>3. T \cup {w} \subseteq Worker
  OBVIOUS
<1>4. /\ Cardinality(T \cup {w}) <= Cardinality(Worker)
      /\ Cardinality(T \cup {w}) = Cardinality(Worker) => T \cup {w} = Worker
  BY <1>3, WorkerAssumption, FS_Subset
<1>5. QED
  BY <1>1, <1>2, <1>4, WorkerAssumption

\* Whether a worker has a row, or was told, is about that worker alone.
LEMMA OtherWorker ==
    ASSUME NEW v \in Worker, pc'[v] = pc[v], load'[v] = load[v], reply'[v] = reply[v],
           buffer'[v] = buffer[v], got'[v] = got[v]
    PROVE  /\ \A x \in Row : Has(v, x)' => Has(v, x)
           /\ \A k \in Loads : v \in Told(k)' <=> v \in Told(k)
  BY DEF Has, Told

\* A worker's step brings it no row that it did not have on its way, and
\* nobody is told anything but by a failure to read.
LEMMA WorkerKeeps ==
    ASSUME IndInv, NEW w \in Worker, WorkerStep(w)
    PROVE  /\ UNCHANGED dicts
           /\ \A v \in Worker : \A x \in Row : Has(v, x)' => Has(v, x)
           /\ \A k \in Loads : Told(k) \subseteq Told(k)'
           /\ "read" \notin Faults => \A k \in Loads : Told(k)' = Told(k)
<1>1. TypeOK /\ GroupsExist
  BY DEF IndInv
<1>2. /\ pc \in [Worker -> {"next", "waiting", "answered", "done", "crashed"}]
      /\ load \in [Worker -> 1 .. Len(Program) + 1]
      /\ cur_fn \in [Worker -> Path \cup {""}]
      /\ buffer \in [Worker -> Seq(Row \cup {EmptyLine})]
      /\ got \in [Worker -> [Loads -> SUBSET Row]]
  BY <1>1 DEF TypeOK
<1> DEFINE Rows == \A x \in Row : Has(w, x)' => Has(w, x)
           Grows == \A k \in Loads : w \in Told(k) => w \in Told(k)'
           Stays == \A k \in Loads : w \in Told(k)' <=> w \in Told(k)
           Rest == \A v \in Worker : v # w =>
                        /\ pc'[v] = pc[v] /\ load'[v] = load[v] /\ reply'[v] = reply[v]
                        /\ buffer'[v] = buffer[v] /\ got'[v] = got[v]
           Good == UNCHANGED dicts /\ Rows /\ Grows /\ Rest /\ ("read" \notin Faults => Stays)
<1>3. ASSUME NextLine(w) PROVE Good
  <2> DEFINE n == taken[w] + 1
             x == buffer[w][n]
  <2>1. /\ pc[w] = "next" /\ load[w] \in Loads
        /\ n \in DOMAIN buffer[w]
        /\ \/ x = EmptyLine /\ got' = got
           \/ /\ x \in Row /\ x # EmptyLine
              /\ got' = [got EXCEPT ![w] = [got[w] EXCEPT ![load[w]] =
                                     got[w][load[w]] \cup {x}]]
        /\ UNCHANGED <<masterVars, pc, load, reply, cur_fn, buffer>>
    BY <1>3, LineFacts
  <2>2. ASSUME NEW y \in Row, NEW k \in Loads, y \in got'[w][k]
        PROVE  y \in got[w][k] \/ y = x
    <3> HIDE DEF x
    <3>1. CASE got' = got
      BY <2>2, <3>1
    <3>2. CASE got' = [got EXCEPT ![w] = [got[w] EXCEPT ![load[w]] =
                                     got[w][load[w]] \cup {x}]]
      <4>1. got'[w] = [got[w] EXCEPT ![load[w]] = got[w][load[w]] \cup {x}]
        BY <1>2, <3>2
      <4>2. got[w] \in [Loads -> SUBSET Row]
        BY <1>2
      <4>3. CASE k # load[w]
        BY <2>2, <4>1, <4>2, <4>3
      <4>4. CASE k = load[w]
        <5>1. got'[w][k] = got[w][k] \cup {x} /\ got[w][k] \subseteq Row
          BY <4>1, <4>2, <4>4
        <5>2. QED
          BY <2>2, <5>1
      <4>5. QED
        BY <4>3, <4>4
    <3>3. QED
      BY <2>1, <3>1, <3>2
  <2>3. Rows
    <3> HIDE DEF x, n
    <3>1. x = buffer[w][n]
      BY DEF x
    <3>2. QED
      BY <2>1, <2>2, <3>1 DEF Has
  <2>4. Stays
    BY <2>1 DEF Told
  <2>5. Rest
    <3> HIDE DEF x, n
    <3>1. \A v \in Worker : v # w => got'[v] = got[v]
      BY <1>2, <2>1
    <3>2. QED
      BY <2>1, <3>1
  <2>6. UNCHANGED dicts
    BY <2>1 DEF masterVars
  <2>7. QED
    BY <2>3, <2>4, <2>5, <2>6
<1>4. ASSUME AskMaster(w) PROVE Good
  <2>1. /\ pc[w] = "next" /\ pc' = [pc EXCEPT ![w] = "waiting"]
        /\ UNCHANGED <<masterVars, load, reply, cur_fn, buffer, taken, got>>
    BY <1>4 DEF AskMaster
  <2>2. pc'[w] = "waiting" /\ \A v \in Worker : v # w => pc'[v] = pc[v]
    BY <1>2, <2>1
  <2>3. Rows
    BY <2>1, <2>2 DEF Has
  <2>4. Stays
    BY <2>1, <2>2 DEF Told
  <2>5. QED
    BY <2>1, <2>2, <2>3, <2>4 DEF masterVars
<1>5. ASSUME LoadEnds(w), pc[w] = "answered", reply[w] = NoBlock \/ "read" \in Faults
      PROVE  Good
  <2>1. /\ load[w] \in Loads /\ Len(Program) \in Nat
        /\ load' = [load EXCEPT ![w] = load[w] + 1]
        /\ \A v \in Worker : v # w => pc'[v] = pc[v]
        /\ pc'[w] = IF load[w] = Len(Program) THEN "done" ELSE "next"
        /\ buffer' = [buffer EXCEPT ![w] = <<>>]
        /\ UNCHANGED <<masterVars, reply, got>>
    BY <1>5, EndFacts
  <2>2. load[w] \in Nat /\ load'[w] = load[w] + 1
    <3>1. load[w] \in Nat
      BY <2>1, WorkerTypes, <1>1
    <3>2. load'[w] = load[w] + 1
      BY <1>2, <2>1
    <3>3. QED
      BY <3>1, <3>2
  <2>3. DOMAIN buffer'[w] = {}
    <3>1. buffer'[w] = <<>>
      BY <1>2, <2>1
    <3>2. DOMAIN <<>> = {}
      OBVIOUS
    <3>3. QED
      BY <3>1, <3>2
  <2>4. pc'[w] # "answered"
    BY <2>1
  <2>5. Rows
    BY <2>1, <2>3, <2>4 DEF Has
  <2>6. \A k \in Loads : k \in Nat
    BY <1>1, WorkerTypes
  <2>7. Grows
    BY <2>2, <2>6 DEF Told
  <2>8. reply[w] = NoBlock => Stays
    BY <1>5, <2>2, <2>4, <2>6 DEF Told
  <2>9. Rest
    BY <1>2, <2>1
  <2>10. QED
    BY <1>5, <2>1, <2>5, <2>7, <2>8, <2>9 DEF masterVars
<1>6. ASSUME FetchNothing(w) PROVE Good
  BY <1>5, <1>6 DEF FetchNothing
<1>7. ASSUME FetchBlock(w) PROVE Good
  <2> DEFINE p == reply[w].filename
             g == reply[w].offset
  <2>0. p = reply[w].filename /\ g = reply[w].offset
    OBVIOUS
  <2> HIDE DEF p, g
  <2>1. /\ pc[w] = "answered" /\ reply[w] # NoBlock
        /\ p \in Path /\ g \in Nat /\ g < Len(RowGroups[p])
        /\ UNCHANGED <<masterVars, reply, got>>
        /\ \/ LoadEnds(w) /\ "read" \in Faults
           \/ \E lines \in Seq(RowsOfGroup(p, g) \cup {EmptyLine}) :
                 /\ pc' = [pc EXCEPT ![w] = "next"]
                 /\ cur_fn' = [cur_fn EXCEPT ![w] = p]
                 /\ buffer' = [buffer EXCEPT ![w] = buffer[w] \o lines]
                 /\ taken' = [taken EXCEPT ![w] = 0]
                 /\ UNCHANGED load
    BY <1>1, <1>7, <2>0, FetchFacts
  <2>2. ASSUME NEW lines \in Seq(RowsOfGroup(p, g) \cup {EmptyLine}),
               pc' = [pc EXCEPT ![w] = "next"],
               buffer' = [buffer EXCEPT ![w] = buffer[w] \o lines],
               UNCHANGED load
        PROVE  Good
    <3>1. /\ pc'[w] = "next" /\ buffer'[w] = buffer[w] \o lines
          /\ \A v \in Worker : v # w => pc'[v] = pc[v] /\ buffer'[v] = buffer[v]
      BY <1>2, <2>2
    <3>2. ASSUME NEW i \in DOMAIN buffer'[w], buffer'[w][i] \in Row
          PROVE  Has(w, buffer'[w][i])
      <4>1. buffer[w] \in Seq(Row \cup {EmptyLine})
        BY <1>2
      <4>2. \/ i \in DOMAIN buffer[w] /\ (buffer[w] \o lines)[i] = buffer[w][i]
            \/ \E j \in DOMAIN lines : (buffer[w] \o lines)[i] = lines[j]
        BY <2>2, <3>1, <3>2, <4>1, PrintedFacts
      <4>3. CASE i \in DOMAIN buffer[w] /\ (buffer[w] \o lines)[i] = buffer[w][i]
        BY <3>1, <4>3 DEF Has
      <4>4. CASE \E j \in DOMAIN lines : (buffer[w] \o lines)[i] = lines[j]
        <5>1. PICK j \in DOMAIN lines : (buffer[w] \o lines)[i] = lines[j]
          BY <4>4
        <5>2. lines[j] \in RowsOfGroup(p, g) \cup {EmptyLine}
          BY <2>2, <5>1
        <5>3. EmptyLine \notin Row
          <6>1. ASSUME NEW x \in Row PROVE x # <<>>
            <7>1. PICK q \in Path : \E h \in DOMAIN RowGroups[q] : x \in RowsOfGroup(q, h - 1)
              BY DEF Row, RowsOfFile
            <7>2. PICK h, nth : x = <<q, h, nth>>
              BY <7>1 DEF RowsOfGroup
            <7>3. QED
              BY <7>2
          <6>2. QED
            BY <6>1 DEF EmptyLine
        <5> DEFINE x == buffer'[w][i]
        <5>4. x \in RowsOfGroup(p, g)
          BY <3>1, <3>2, <5>1, <5>2, <5>3
        <5>5. x[1] = p /\ x[2] = g
          BY <2>1, <5>4, GroupFacts
        <5>6. reply[w] = [filename |-> p, offset |-> g]
          BY <1>1, <2>0, <2>1, ReplyFacts
        <5> HIDE DEF x
        <5>7. Has(w, x)
          BY <2>1, <5>5, <5>6 DEF Has
        <5>8. QED
          BY <5>7 DEF x
      <4>5. QED
        BY <4>2, <4>3, <4>4
    <3>3. Rows
      <4>1. ASSUME NEW x \in Row, Has(w, x)' PROVE Has(w, x)
        <5>1. \/ \E i \in DOMAIN buffer'[w] : buffer'[w][i] = x
              \/ \E k \in Loads : x \in got[w][k]
          BY <2>1, <3>1, <4>1 DEF Has
        <5>2. QED
          BY <3>2, <5>1 DEF Has
      <4>2. QED
        BY <4>1
    <3>4. Stays
      BY <2>1, <2>2, <3>1 DEF Told
    <3>5. Rest
      BY <2>1, <2>2, <3>1
    <3>6. QED
      BY <2>1, <3>3, <3>4, <3>5 DEF masterVars
  <2>3. QED
    BY <1>5, <2>1, <2>2
<1>8. ASSUME OpenFails(w) PROVE Good
  <2>1. /\ pc[w] = "answered" /\ pc' = [pc EXCEPT ![w] = "crashed"]
        /\ reply[w].filename # ""
        /\ UNCHANGED <<masterVars, load, reply, cur_fn, buffer, taken, got>>
    BY <1>8 DEF OpenFails
  <2>2. pc'[w] = "crashed" /\ \A v \in Worker : v # w => pc'[v] = pc[v]
    BY <1>2, <2>1
  <2>3. Rows
    BY <2>1, <2>2 DEF Has
  <2>4. Stays
    BY <2>1, <2>2, NoBlockFacts DEF Told
  <2>5. QED
    BY <2>1, <2>2, <2>3, <2>4 DEF masterVars
<1>16. ASSUME NextPiece(w) PROVE Good
  <2>1. UNCHANGED <<fs, dicts, pc, load, reply, buffer, got>>
    BY <1>16 DEF NextPiece, masterVars
  <2>2. Rows
    BY <2>1 DEF Has
  <2>3. Stays
    BY <2>1 DEF Told
  <2>4. QED
    BY <2>1, <2>2, <2>3
<1>9. Good
  BY <1>3, <1>4, <1>6, <1>7, <1>8, <1>16 DEF WorkerStep
<1>10. ASSUME NEW v \in Worker, v # w
       PROVE  /\ \A x \in Row : Has(v, x)' => Has(v, x)
              /\ \A k \in Loads : v \in Told(k)' <=> v \in Told(k)
  BY <1>9, <1>10, OtherWorker
<1>11. \A k : Told(k) \subseteq Worker /\ Told(k)' \subseteq Worker
  BY DEF Told
<1> HIDE DEF Rest
<1>12. \A v \in Worker : \A x \in Row : Has(v, x)' => Has(v, x)
  BY <1>9, <1>10
<1>13. \A k \in Loads : Told(k) \subseteq Told(k)'
  BY <1>9, <1>10, <1>11
<1>14. "read" \notin Faults => \A k \in Loads : Told(k)' = Told(k)
  <2>1. ASSUME "read" \notin Faults, NEW k \in Loads PROVE Told(k)' = Told(k)
    <3>1. \A v \in Worker : v \in Told(k)' <=> v \in Told(k)
      BY <1>9, <1>10, <2>1
    <3>2. QED
      BY <1>11, <3>1
  <2>2. QED
    BY <2>1
<1>15. QED
  BY <1>9, <1>12, <1>13, <1>14

\* Nobody holds a row of a group that the master never answered with.
LEMMA RowsGroup ==
    ASSUME NEW x \in Row, NEW p, NEW g,
           [filename |-> x[1], offset |-> x[2]] = [filename |-> p, offset |-> g]
    PROVE  x[1] = p /\ x[2] = g
<1> DEFINE r == [filename |-> x[1], offset |-> x[2]]
           s == [filename |-> p, offset |-> g]
<1>1. r.filename = x[1] /\ r.offset = x[2] /\ s.filename = p /\ s.offset = g /\ r = s
  OBVIOUS
<1>2. QED
  BY <1>1

\* What an answer of the master does to who has a row, and to who was told.
LEMMA MasterTells ==
    ASSUME IndInv, NEW w \in Worker, MasterMainHandler(w),
           NEW ret, reply' = [reply EXCEPT ![w] = ret], NEW j, j = load[w]
    PROVE  /\ w \notin Told(j)
           /\ Told(j)' = Told(j) \cup (IF ret = NoBlock THEN {w} ELSE {})
           /\ \A k \in Loads : k # j => Told(k)' = Told(k)
           /\ \A v \in Worker : \A x \in Row : Has(v, x)' =>
                 Has(v, x) \/ (v = w /\ ret = [filename |-> x[1], offset |-> x[2]])
<1>1. /\ load[w] \in Loads /\ pc[w] = "waiting"
      /\ UNCHANGED <<load, cur_fn, buffer, taken, got>>
      /\ pc' = [pc EXCEPT ![w] = "answered"]
  BY MasterFacts
<1>2. /\ pc \in [Worker -> {"next", "waiting", "answered", "done", "crashed"}]
      /\ reply \in [Worker -> [filename : Path \cup {""}, offset : Nat]]
      /\ load \in [Worker -> 1 .. Len(Program) + 1]
      /\ Loads = 1 .. Len(Program) /\ Len(Program) \in Nat
  BY WorkerTypes DEF IndInv, TypeOK
<1>3. /\ pc'[w] = "answered" /\ reply'[w] = ret
      /\ \A v \in Worker : v # w => pc'[v] = pc[v] /\ reply'[v] = reply[v]
  BY <1>1, <1>2
<1>4. j \in Nat /\ \A k \in Loads : k \in Nat
  <2>1. \A k \in Loads : k \in Nat
    BY WorkerTypes DEF IndInv
  <2>2. QED
    BY <1>1, <2>1
<1>5. w \notin Told(j)
  BY <1>1, <1>4 DEF Told
<1>6. ASSUME NEW k \in Loads
      PROVE  /\ \A v \in Worker : v # w => (v \in Told(k)' <=> v \in Told(k))
             /\ k # j => (w \in Told(k)' <=> w \in Told(k))
             /\ k = j => (w \in Told(k)' <=> ret = NoBlock)
  BY <1>1, <1>3, <1>4 DEF Told
<1>7. \A k \in Loads : Told(k) \subseteq Worker /\ Told(k)' \subseteq Worker
  BY DEF Told
<1>8. Told(j)' = Told(j) \cup (IF ret = NoBlock THEN {w} ELSE {})
  <2>1. \A v \in Worker : v \in Told(j)' <=> v \in Told(j) \/ (v = w /\ ret = NoBlock)
    BY <1>1, <1>5, <1>6
  <2>2. Told(j)' \subseteq Worker /\ Told(j) \subseteq Worker
    BY <1>1, <1>7
  <2> DEFINE T == Told(j)
             U == Told(j)'
  <2>3. T \subseteq Worker /\ U \subseteq Worker /\ \A v \in Worker : v \in U <=> v \in T \/ (v = w /\ ret = NoBlock)
    BY <2>1, <2>2
  <2> HIDE DEF T, U
  <2>4. U = T \cup (IF ret = NoBlock THEN {w} ELSE {})
    BY <2>3
  <2>5. QED
    BY <2>4 DEF T, U
<1>9. \A k \in Loads : k # j => Told(k)' = Told(k)
  BY <1>6, <1>7
<1>10. \A v \in Worker : \A x \in Row : Has(v, x)' =>
          Has(v, x) \/ (v = w /\ ret = [filename |-> x[1], offset |-> x[2]])
  BY <1>1, <1>3 DEF Has
<1>11. QED
  BY <1>5, <1>8, <1>9, <1>10

\* While a worker waits for an answer to a url not known, nobody had a row of it.
LEMMA UnknownIsUnread ==
    ASSUME FreshIsUnread, NEW k \in Loads, Program[k] \notin DOMAIN dicts.finish_dict,
           NEW w \in Worker, w \notin Told(k), NEW v \in Worker, NEW x \in Row,
           x[1] \in Opens(Program[k])
    PROVE  ~Has(v, x)
<1>1. Fresh(k)
  BY DEF Fresh
<1>2. x \in RowsOfFile(x[1])
  BY RowFacts
<1>3. QED
  BY <1>1, <1>2 DEF FreshIsUnread

\* Only files are entered.
LEMMA OpensPaths ==
    ASSUME NEW k \in Loads, NEW p \in Opens(Program[k])
    PROVE  p \in Path
<1>1. Program[k] \in Url
  BY ProgramAssumption DEF Loads
<1>2. CASE IsLocal(Program[k])
  BY <1>1, <1>2, NamesAssumption DEF Opens
<1>3. CASE ~IsLocal(Program[k])
  <2>1. PICK i \in DOMAIN Files[Program[k]] : p = Files[Program[k]][i]
    BY <1>3 DEF Opens, Range
  <2>2. Files[Program[k]] \in Seq(Path)
    BY <1>1, FilesAssumption
  <2>3. QED
    BY <2>1, <2>2
<1>4. QED
  BY <1>2, <1>3

\* At the start nothing is handed out.
LEMMA OwnershipInit == Init => Ownership
<1> SUFFICES ASSUME Init PROVE Ownership
  OBVIOUS
<1>1. DOMAIN dicts.file_size = {} /\ DOMAIN dicts.finish_dict = {}
  <2>1. dicts.file_size = <<>> /\ dicts.finish_dict = <<>>
    BY DEF Init, MasterInit
  <2>2. DOMAIN <<>> = {}
    OBVIOUS
  <2>3. QED
    BY <2>1, <2>2
<1>2. \A w \in Worker : \A x \in Row : ~Has(w, x)
  <2>1. \A w \in Worker : pc[w] = "next"
    BY DEF Init
  <2>2. \A w \in Worker : buffer[w] = <<>>
    BY DEF Init
  <2>3. \A w \in Worker : \A k \in Loads : \A x \in Row : x \notin got[w][k]
    BY DEF Init
  <2>4. DOMAIN <<>> = {}
    OBVIOUS
  <2>5. QED
    BY <2>1, <2>2, <2>3, <2>4 DEF Has
<1>3. OnlyFiles
  BY <1>1 DEF OnlyFiles
<1>4. CountsAtMost
  <2>1. \A k : Cardinality(Told(k)) \in Nat
    BY ToldIsFinite
  <2>2. QED
    BY <1>1, <2>1 DEF CountsAtMost, Get
<1>5. FreshIsUnread
  <2>1. ASSUME NEW k \in Loads, NEW p \in Opens(Program[k]), NEW x \in RowsOfFile(p)
        PROVE  x \in Row
    <3>1. p \in Path
      BY <2>1, OpensPaths
    <3>2. QED
      BY <2>1, <3>1, FileFacts
  <2>2. QED
    BY <1>1, <1>2, <2>1 DEF FreshIsUnread
<1>6. HeldIsNotLeft /\ OneReader
  BY <1>2 DEF HeldIsNotLeft, OneReader
<1>7. QED
  BY <1>3, <1>4, <1>5, <1>6 DEF Ownership

\* A worker's own step hands nobody a row, and a count is never behind.
LEMMA OwnershipOfWorkers ==
    ASSUME IndInv, Ownership, NEW w \in Worker, WorkerStep(w), OnlyFiles'
    PROVE  Ownership'
<1>1. OnlyFiles /\ CountsAtMost /\ FreshIsUnread /\ HeldIsNotLeft /\ OneReader
  BY DEF Ownership
<1>2. /\ UNCHANGED dicts
      /\ \A v \in Worker : \A x \in Row : Has(v, x)' => Has(v, x)
      /\ \A k \in Loads : Told(k) \subseteq Told(k)'
  BY WorkerKeeps
<1>3. CountsAtMost'
  <2>1. ASSUME NEW k \in Loads
        PROVE  Get(dicts.finish_dict, Program[k], 0) <= Cardinality(Told(k)')
    <3>1. /\ Cardinality(Told(k)) \in Nat
          /\ IsFiniteSet(Told(k)') /\ Cardinality(Told(k)') \in Nat
      <4>1. Told(k)' \subseteq Worker
        BY DEF Told
      <4>2. QED
        BY <4>1, ToldIsFinite, WorkerAssumption, FS_Subset, FS_CardinalityType
    <3>2. Cardinality(Told(k)) <= Cardinality(Told(k)')
      BY <1>2, <3>1, FS_Subset
    <3>3. Get(dicts.finish_dict, Program[k], 0) <= Cardinality(Told(k))
      BY <1>1 DEF CountsAtMost
    <3>4. Get(dicts.finish_dict, Program[k], 0) \in Nat
      BY DEF IndInv, TypeOK, DictsOK, Get
    <3>5. QED
      BY <3>1, <3>2, <3>3, <3>4
  <2>2. QED
    BY <1>2, <2>1 DEF CountsAtMost
<1>4. FreshIsUnread'
  <2>1. ASSUME NEW k \in Loads, Fresh(k)' PROVE Fresh(k)
    <3>1. Told(k)' \subseteq Worker /\ Told(k) \subseteq Worker
      BY DEF Told
    <3>2. QED
      BY <1>2, <2>1, <3>1 DEF Fresh
  <2>2. ASSUME NEW k \in Loads, NEW p \in Opens(Program[k]), NEW x \in RowsOfFile(p)
        PROVE  x \in Row
    <3>1. p \in Path
      BY <2>2, OpensPaths
    <3>2. QED
      BY <2>2, <3>1, FileFacts
  <2>3. QED
    BY <1>1, <1>2, <2>1, <2>2 DEF FreshIsUnread
<1>5. HeldIsNotLeft'
  BY <1>1, <1>2 DEF HeldIsNotLeft
<1>6. OneReader'
  BY <1>1, <1>2 DEF OneReader
<1>7. QED
  BY <1>3, <1>4, <1>5, <1>6 DEF Ownership

\* The count of a url grows by one with a worker told, and a url is forgotten
\* when all workers were told.
LEMMA OwnershipOfCounts ==
    ASSUME IndInv, NamesOnce, OnlyFiles, CountsAtMost, NEW w \in Worker, MasterMainHandler(w),
           NEW j, j = load[w]
    PROVE  CountsAtMost' /\ \A k \in Loads : Fresh(k)' => Fresh(k)
<1> DEFINE url == Program[j]
<1>1. /\ j \in Loads /\ url \in Url
      /\ \/ /\ dicts' = dicts /\ reply' = [reply EXCEPT ![w] = NoBlock]
         \/ \E a : /\ Answer(dicts, url, a)
                   /\ dicts' = a.dicts /\ reply' = [reply EXCEPT ![w] = a.ret]
  BY MasterFacts
<1>2. DictsOK(dicts)
  BY DEF IndInv, TypeOK
<1>3. \A n : Get(dicts.finish_dict, n, 0) \in Nat
  BY <1>2 DEF DictsOK, Get
<1>4. \A k : /\ Told(k) \subseteq Worker /\ Told(k)' \subseteq Worker
             /\ IsFiniteSet(Told(k)) /\ Cardinality(Told(k)) \in Nat
  BY ToldIsFinite DEF Told
<1>5. num_workers_alive \in Nat \ {0}
  BY CountAssumption
<1>6. \A k \in Loads : Get(dicts.finish_dict, Program[k], 0) <= Cardinality(Told(k))
  BY DEF CountsAtMost
<1>7. ASSUME NEW ret, reply' = [reply EXCEPT ![w] = ret]
      PROVE  /\ w \notin Told(j)
             /\ Told(j)' = Told(j) \cup (IF ret = NoBlock THEN {w} ELSE {})
             /\ \A k \in Loads : k # j => Told(k)' = Told(k)
  BY <1>7, MasterTells
<1>8. ASSUME NEW a, Answer(dicts, url, a), dicts' = a.dicts, reply' = [reply EXCEPT ![w] = a.ret]
      PROVE  CountsAtMost' /\ \A k \in Loads : Fresh(k)' => Fresh(k)
  <2>1. /\ w \notin Told(j)
        /\ Told(j)' = Told(j) \cup (IF a.ret = NoBlock THEN {w} ELSE {})
        /\ \A k \in Loads : k # j => Told(k)' = Told(k)
    BY <1>7, <1>8
  <2>2. \A k \in Loads : /\ k = j => CountsUrl(dicts, Program[k], a)
                         /\ k # j => KeepsCount(dicts, Program[k], a)
    BY <1>1, <1>8, UrlsApart
  <2> HIDE DEF url
  <2>3. ASSUME NEW k \in Loads, k # j
        PROVE  /\ Get(dicts'.finish_dict, Program[k], 0) <= Cardinality(Told(k)')
               /\ Fresh(k)' => Fresh(k)
    <3>1. Get(dicts'.finish_dict, Program[k], 0) = Get(dicts.finish_dict, Program[k], 0)
      BY <1>8, <2>2, <2>3 DEF KeepsCount, Get
    <3>2. Told(k)' = Told(k)
      BY <2>1, <2>3
    <3>3. Fresh(k)' => Fresh(k)
      BY <1>8, <2>2, <2>3, <3>2 DEF KeepsCount, Fresh
    <3>4. QED
      BY <1>6, <3>1, <3>2, <3>3
  <2>4. /\ Get(dicts'.finish_dict, Program[j], 0) <= Cardinality(Told(j)')
        /\ Fresh(j)' => Fresh(j)
    <3> DEFINE c == Get(dicts.finish_dict, Program[j], 0)
    <3>1. c \in Nat /\ c <= Cardinality(Told(j))
      BY <1>1, <1>3, <1>6
    <3> HIDE DEF c
    <3>2. CASE a.ret # NoBlock
      <4>1. /\ Program[j] \in DOMAIN dicts'.finish_dict /\ dicts'.finish_dict[Program[j]] = c
            /\ Told(j)' = Told(j)
        BY <1>1, <1>8, <2>1, <2>2, <3>2 DEF CountsUrl, c
      <4>2. QED
        BY <3>1, <4>1 DEF Get, Fresh
    <3>3. CASE a.ret = NoBlock
      <4>1. Told(j)' = Told(j) \cup {w}
        BY <2>1, <3>3
      <4> DEFINE T == Told(j)
      <4>2. /\ Cardinality(T) \in Nat /\ Cardinality(T \cup {w}) = Cardinality(T) + 1
            /\ Cardinality(T \cup {w}) <= num_workers_alive
            /\ Cardinality(T \cup {w}) = num_workers_alive => T \cup {w} = Worker
        <5>1. T \subseteq Worker /\ w \notin T
          BY <1>4, <2>1
        <5> HIDE DEF T
        <5>2. QED
          BY <5>1, TellOne
      <4>3. CASE c + 1 = num_workers_alive
        <5>1. Program[j] \notin DOMAIN dicts'.finish_dict
          BY <1>1, <1>8, <2>2, <3>3, <4>3 DEF CountsUrl, c
        <5>2. Cardinality(T \cup {w}) = num_workers_alive
          BY <1>5, <3>1, <4>2, <4>3
        <5>3. Told(j)' = Worker
          BY <4>1, <4>2, <5>2
        <5>4. Get(dicts'.finish_dict, Program[j], 0) = 0
          BY <5>1 DEF Get
        <5>5. QED
          BY <4>1, <4>2, <5>3, <5>4 DEF Fresh
      <4>4. CASE c + 1 # num_workers_alive
        <5>1. Program[j] \in DOMAIN dicts'.finish_dict /\ dicts'.finish_dict[Program[j]] = c + 1
          BY <1>1, <1>8, <2>2, <3>3, <4>4 DEF CountsUrl, c
        <5>2. c + 1 <= Cardinality(T \cup {w})
          BY <3>1, <4>2
        <5>3. QED
          BY <4>1, <5>1, <5>2 DEF Get, Fresh
      <4>5. QED
        BY <4>3, <4>4
    <3>4. QED
      BY <3>2, <3>3
  <2>5. QED
    BY <2>3, <2>4 DEF CountsAtMost
<1>9. ASSUME dicts' = dicts, reply' = [reply EXCEPT ![w] = NoBlock]
      PROVE  CountsAtMost' /\ \A k \in Loads : Fresh(k)' => Fresh(k)
  <2>1. /\ w \notin Told(j) /\ Told(j)' = Told(j) \cup {w}
        /\ \A k \in Loads : k # j => Told(k)' = Told(k)
    BY <1>7, <1>9
  <2> HIDE DEF url
  <2>2. \A k \in Loads : Cardinality(Told(k)) <= Cardinality(Told(k)')
    <3>1. ASSUME NEW k \in Loads PROVE Cardinality(Told(k)) <= Cardinality(Told(k)')
      <4>1. IsFiniteSet(Told(k)')
        BY <1>4, WorkerAssumption, FS_Subset
      <4>2. Told(k) \subseteq Told(k)'
        BY <2>1
      <4>3. QED
        BY <4>1, <4>2, FS_Subset
    <3>2. QED
      BY <3>1
  <2>3. \A k \in Loads : Fresh(k)' => Fresh(k)
    BY <1>4, <1>9, <2>1 DEF Fresh
  <2>4. \A k : Cardinality(Told(k)') \in Nat
    BY <1>4, WorkerAssumption, FS_Subset, FS_CardinalityType
  <2>5. ASSUME NEW k \in Loads
        PROVE  Get(dicts'.finish_dict, Program[k], 0) <= Cardinality(Told(k)')
    <3>1. Get(dicts'.finish_dict, Program[k], 0) = Get(dicts.finish_dict, Program[k], 0)
      BY <1>9
    <3>2. QED
      BY <1>3, <1>4, <1>6, <2>2, <2>4, <3>1
  <2>6. QED
    BY <2>3, <2>5 DEF CountsAtMost
<1>10. QED
  BY <1>1, <1>8, <1>9

\* The row group of an answer was left, and is left no more; nobody had it.
LEMMA OwnershipOfAnswers ==
    ASSUME IndInv, NamesOnce, Ownership, NEW w \in Worker, MasterMainHandler(w), OnlyFiles',
           NEW j, j = load[w]
    PROVE  Ownership'
<1> DEFINE url == Program[j]
<1>1. OnlyFiles /\ CountsAtMost /\ FreshIsUnread /\ HeldIsNotLeft /\ OneReader
  BY DEF Ownership
<1>2. CountsAtMost' /\ \A k \in Loads : Fresh(k)' => Fresh(k)
  BY <1>1, OwnershipOfCounts
<1>3. /\ j \in Loads /\ url \in Url
      /\ \/ /\ dicts' = dicts /\ reply' = [reply EXCEPT ![w] = NoBlock]
         \/ \E a : /\ Answer(dicts, url, a)
                   /\ dicts' = a.dicts /\ reply' = [reply EXCEPT ![w] = a.ret]
  BY MasterFacts
<1>4. ASSUME NEW ret, reply' = [reply EXCEPT ![w] = ret]
      PROVE  /\ w \notin Told(j)
             /\ \A v \in Worker : \A x \in Row : Has(v, x)' =>
                   Has(v, x) \/ (v = w /\ ret = [filename |-> x[1], offset |-> x[2]])
  BY <1>4, MasterTells
<1>5. \A x \in Row : NoBlock # [filename |-> x[1], offset |-> x[2]]
  <2>1. ASSUME NEW x \in Row PROVE x[1] # ""
    BY RowFacts, NamesAssumption
  <2>2. ASSUME NEW x \in Row, NoBlock = [filename |-> x[1], offset |-> x[2]] PROVE FALSE
    <3> DEFINE r == [filename |-> x[1], offset |-> x[2]]
    <3>1. r.filename = x[1] /\ r = NoBlock
      BY <2>2
    <3>2. QED
      BY <2>1, <3>1, NoBlockFacts
  <2>3. QED
    BY <2>2
<1>6. CASE dicts' = dicts /\ reply' = [reply EXCEPT ![w] = NoBlock]
  <2>1. \A v \in Worker : \A x \in Row : Has(v, x)' => Has(v, x)
    BY <1>4, <1>5, <1>6
  <2>2. \A k \in Loads : \A p \in Opens(Program[k]) : \A x \in RowsOfFile(p) : x \in Row
    BY OpensPaths, FileFacts
  <2>3. FreshIsUnread'
    BY <1>1, <1>2, <1>6, <2>1, <2>2 DEF FreshIsUnread
  <2>4. HeldIsNotLeft' /\ OneReader'
    BY <1>1, <1>6, <2>1 DEF HeldIsNotLeft, OneReader
  <2>5. QED
    BY <1>2, <2>3, <2>4 DEF Ownership
<1>7. ASSUME NEW a, Answer(dicts, url, a), dicts' = a.dicts, reply' = [reply EXCEPT ![w] = a.ret]
      PROVE  Ownership'
  <2> DEFINE Entered(p) == url \notin DOMAIN dicts.finish_dict /\ p \in Opens(url)
             New(v, x) == v = w /\ a.ret = [filename |-> x[1], offset |-> x[2]]
  <2>1. /\ DOMAIN dicts'.file_size \subseteq DOMAIN dicts.file_size \cup Opens(url)
        /\ \A p : \A h \in Nat : Left(dicts', p, h) => Left(dicts, p, h) \/ Entered(p)
        /\ \/ a.ret = NoBlock
           \/ \E p \in Path, g \in Nat :
                /\ a.ret = [filename |-> p, offset |-> g]
                /\ Left(dicts, p, g) \/ Entered(p)
                /\ ~Left(dicts', p, g)
    BY <1>7 DEF Answer
  <2>2. w \notin Told(j) /\ \A v \in Worker : \A x \in Row : Has(v, x)' => Has(v, x) \/ New(v, x)
    BY <1>4, <1>7
  <2>3. ASSUME NEW v \in Worker, NEW x \in Row, New(v, x)
        PROVE  (Left(dicts, x[1], x[2]) \/ Entered(x[1])) /\ ~Left(dicts', x[1], x[2])
    <3>1. a.ret # NoBlock
      BY <1>5, <2>3
    <3>2. PICK p \in Path, g \in Nat :
              /\ a.ret = [filename |-> p, offset |-> g]
              /\ Left(dicts, p, g) \/ Entered(p)
              /\ ~Left(dicts', p, g)
      BY <2>1, <3>1
    <3>3. x[1] = p /\ x[2] = g
      BY <2>3, <3>2, RowsGroup
    <3>4. QED
      BY <3>2, <3>3
  <2>4. ASSUME NEW v \in Worker, NEW x \in Row, Entered(x[1]) PROVE ~Has(v, x)
    BY <1>1, <1>3, <2>2, <2>4, UnknownIsUnread
  <2> HIDE DEF Entered, New
  <2>5. OneReader'
    <3>1. ASSUME NEW v \in Worker, NEW u \in Worker, NEW x \in Row, Has(v, x), New(u, x)
          PROVE  FALSE
      BY <1>1, <2>3, <2>4, <3>1 DEF HeldIsNotLeft
    <3>2. \A v, u \in Worker : \A x \in Row : New(v, x) /\ New(u, x) => v = u
      BY DEF New
    <3>3. ASSUME NEW v \in Worker, NEW u \in Worker, NEW x \in Row, Has(v, x)', Has(u, x)'
          PROVE  v = u
      BY <1>1, <2>2, <3>1, <3>2, <3>3 DEF OneReader
    <3>4. QED
      BY <3>3 DEF OneReader
  <2>6. HeldIsNotLeft'
    <3>1. ASSUME NEW v \in Worker, NEW x \in Row, Has(v, x)' PROVE ~Left(dicts', x[1], x[2])
      <4>1. x[2] \in Nat
        BY RowFacts
      <4>2. CASE Has(v, x)
        BY <1>1, <2>1, <2>4, <4>1, <4>2 DEF HeldIsNotLeft
      <4>3. CASE New(v, x)
        BY <2>3, <4>3
      <4>4. QED
        BY <2>2, <3>1, <4>2, <4>3
    <3>2. QED
      BY <3>1 DEF HeldIsNotLeft
  <2>7. FreshIsUnread'
    <3>1. ASSUME NEW k \in Loads, Fresh(k)', NEW p \in Opens(Program[k])
          PROVE  /\ p \notin DOMAIN dicts'.file_size
                 /\ \A v \in Worker : \A x \in RowsOfFile(p) : ~Has(v, x)'
      <4>1. Fresh(k)
        BY <1>2, <3>1
      <4>2. k # j
        <5>1. ASSUME k = j PROVE FALSE
          <6>1. CountsUrl(dicts, Program[j], a)
            BY <1>1, <1>3, <1>7, UrlsApart
          <6>2. a.ret = NoBlock /\ Get(dicts.finish_dict, Program[j], 0) + 1 = num_workers_alive
            BY <1>7, <3>1, <5>1, <6>1 DEF CountsUrl, Fresh
          <6>3. Told(j)' = Told(j) \cup {w}
            BY <1>7, <6>2, MasterTells
          <6> DEFINE T == Told(j)
          <6>4. T \subseteq Worker /\ w \notin T
            BY <2>2 DEF Told
          <6>5. Get(dicts.finish_dict, Program[j], 0) = 0
            BY <4>1, <5>1 DEF Fresh, Get
          <6>6. num_workers_alive = 1
            BY <6>2, <6>5
          <6> HIDE DEF T
          <6>7. T \cup {w} = Worker
            <7>1. /\ Cardinality(T) \in Nat /\ Cardinality(T \cup {w}) = Cardinality(T) + 1
                  /\ Cardinality(T \cup {w}) <= 1
                  /\ Cardinality(T \cup {w}) = 1 => T \cup {w} = Worker
              BY <6>4, <6>6, TellOne
            <7>2. Cardinality(T \cup {w}) = 1
              BY <7>1
            <7>3. QED
              BY <7>1, <7>2
          <6>8. QED
            BY <3>1, <5>1, <6>3, <6>7 DEF Fresh, T
        <5>2. QED
          BY <5>1
      <4>3. p \notin Opens(url)
        BY <1>3, <3>1, <4>2, OpensOnce DEF url
      <4>4. p \notin DOMAIN dicts.file_size /\ \A v \in Worker : \A x \in RowsOfFile(p) : ~Has(v, x)
        BY <1>1, <3>1, <4>1 DEF FreshIsUnread
      <4>5. p \notin DOMAIN dicts'.file_size
        BY <2>1, <4>3, <4>4
      <4>6. ASSUME NEW v \in Worker, NEW x \in RowsOfFile(p) PROVE ~Has(v, x)'
        <5>1. x \in Row /\ x[1] = p
          BY <3>1, <4>6, OpensPaths, FileFacts
        <5>2. ~New(v, x)
          BY <2>3, <4>3, <4>4, <5>1 DEF Left, Entered
        <5>3. QED
          BY <2>2, <4>4, <4>6, <5>1, <5>2
      <4>7. QED
        BY <4>5, <4>6
    <3>2. QED
      BY <3>1 DEF FreshIsUnread
  <2>8. QED
    BY <1>2, <2>5, <2>6, <2>7 DEF Ownership
<1>8. QED
  BY <1>3, <1>6, <1>7

\* Ownership lasts: a step leaves it.
LEMMA OwnershipStep ==
    ASSUME NamesOnce, IndInv, Ownership, [Next]_vars
    PROVE  Ownership'
<1>1. OnlyFiles'
  BY OnlyFilesStep DEF Ownership
<1>2. ASSUME NEW w \in Worker, WorkerStep(w) PROVE Ownership'
  BY <1>1, <1>2, OwnershipOfWorkers
<1>3. ASSUME NEW w \in Worker, MasterMainHandler(w) PROVE Ownership'
  BY <1>1, <1>3, OwnershipOfAnswers
<1>4. CASE UNCHANGED vars
  <2>1. UNCHANGED <<fs, dicts, pc, load, reply, cur_fn, buffer, taken, got>>
    BY <1>4 DEF vars, masterVars, workerVars
  <2>2. \A w \in Worker : \A x \in Row : Has(w, x)' = Has(w, x)
    BY <2>1 DEF Has
  <2>3. \A k \in Loads : Told(k)' = Told(k)
    BY <2>1 DEF Told
  <2>4. \A k \in Loads : \A p \in Opens(Program[k]) : \A x \in RowsOfFile(p) : x \in Row
    BY OpensPaths, FileFacts
  <2>5. CountsAtMost' /\ FreshIsUnread'
    BY <2>1, <2>2, <2>3, <2>4 DEF Ownership, CountsAtMost, FreshIsUnread, Fresh
  <2>6. HeldIsNotLeft' /\ OneReader'
    BY <2>1, <2>2 DEF Ownership, HeldIsNotLeft, OneReader
  <2>7. QED
    BY <1>1, <2>5, <2>6 DEF Ownership
<1>5. QED
  BY <1>2, <1>3, <1>4 DEF Next

\* In a program that names each url and file once, no two workers have the
\* same row: whoever is answered first is the only one sent to its row group.
THEOREM RowsHaveOneReader == ASSUME NamesOnce PROVE Spec => []OneReader
<1>1. Spec => []Ownership
  BY OwnershipStep, OwnershipInit, Invariance, PTL DEF Spec
<1>2. Ownership => OneReader
  BY DEF Ownership
<1>3. QED
  BY <1>1, <1>2, PTL

-----------------------------------------------------------------------------
(***************************************************************************)
(* The counts of the urls.                                                 *)
(***************************************************************************)

\* The count of the url asked for grows with the workers told.
LEMMA CountsStep ==
    ASSUME IndInv, OnlyFiles, CountsWorkers, NamesOnce, AllLoadsAnswered,
           NEW w \in Worker, MasterMainHandler(w), NEW j, j = load[w]
    PROVE  CountsWorkers'
<1>1. /\ j \in Loads
      /\ \E a : /\ Answer(dicts, Program[j], a)
                /\ dicts' = a.dicts /\ reply' = [reply EXCEPT ![w] = a.ret]
  BY MasterFacts DEF AllLoadsAnswered
<1>2. PICK a : /\ Answer(dicts, Program[j], a)
               /\ dicts' = a.dicts /\ reply' = [reply EXCEPT ![w] = a.ret]
  BY <1>1
<1>3. /\ w \notin Told(j)
      /\ Told(j)' = Told(j) \cup (IF a.ret = NoBlock THEN {w} ELSE {})
      /\ \A k \in Loads : k # j => Told(k)' = Told(k)
  BY <1>2, MasterTells
<1>4. /\ CountsUrl(dicts, Program[j], a)
      /\ \A k \in Loads : k # j => KeepsCount(dicts, Program[k], a)
  BY <1>1, <1>2, UrlsApart
<1> DEFINE Counts(k) == IF Program[k] \in DOMAIN dicts.finish_dict
                        THEN /\ dicts.finish_dict[Program[k]] = Cardinality(Told(k))
                             /\ Told(k) # Worker
                        ELSE Told(k) \in {{}, Worker}
           Counts2(k) == IF Program[k] \in DOMAIN dicts'.finish_dict
                        THEN /\ dicts'.finish_dict[Program[k]] = Cardinality(Told(k)')
                             /\ Told(k)' # Worker
                        ELSE Told(k)' \in {{}, Worker}
<1>5. \A k \in Loads : Counts(k)
  BY DEF CountsWorkers
<1>6. ASSUME NEW k \in Loads, k # j PROVE Counts2(k)
  BY <1>2, <1>3, <1>4, <1>5, <1>6 DEF KeepsCount
<1>7. Counts2(j)
  <2> DEFINE T == Told(j)
             U == Told(j)'
             c == Get(dicts.finish_dict, Program[j], 0)
  <2>1. /\ w \notin T /\ T \subseteq Worker /\ T # Worker
        /\ U = T \cup (IF a.ret = NoBlock THEN {w} ELSE {})
    BY <1>3 DEF Told
  <2>2. c = Cardinality(T)
    <3>1. CASE Program[j] \in DOMAIN dicts.finish_dict
      BY <1>1, <1>5, <3>1 DEF Get
    <3>2. CASE Program[j] \notin DOMAIN dicts.finish_dict
      <4>1. T = {}
        BY <1>1, <1>5, <2>1, <3>2
      <4>2. c = 0 /\ Cardinality({}) = 0
        BY <3>2, FS_EmptySet DEF Get
      <4> HIDE DEF T, c
      <4>3. QED
        BY <4>1, <4>2
    <3>3. QED
      BY <3>1, <3>2
  <2>3. IF a.ret # NoBlock
        THEN Program[j] \in DOMAIN dicts'.finish_dict /\ dicts'.finish_dict[Program[j]] = c
        ELSE IF c + 1 = num_workers_alive
             THEN Program[j] \notin DOMAIN dicts'.finish_dict
             ELSE Program[j] \in DOMAIN dicts'.finish_dict /\ dicts'.finish_dict[Program[j]] = c + 1
    BY <1>2, <1>4 DEF CountsUrl
  <2> HIDE DEF c, T, U
  <2>4. /\ Cardinality(T) \in Nat /\ Cardinality(T \cup {w}) = Cardinality(T) + 1
        /\ Cardinality(T \cup {w}) = num_workers_alive => T \cup {w} = Worker
        /\ Cardinality(Worker) = num_workers_alive
    BY <2>1, TellOne, WorkerAssumption
  <2>5. IF Program[j] \in DOMAIN dicts'.finish_dict
        THEN dicts'.finish_dict[Program[j]] = Cardinality(U) /\ U # Worker
        ELSE U \in {{}, Worker}
    <3>1. CASE a.ret # NoBlock
      <4>1. U = T
        BY <2>1, <3>1
      <4>2. QED
        BY <2>1, <2>2, <2>3, <3>1, <4>1
    <3>2. CASE a.ret = NoBlock
      <4>1. U = T \cup {w}
        BY <2>1, <3>2
      <4>2. c + 1 = num_workers_alive => U = Worker
        BY <2>2, <2>4, <4>1
      <4>3. c + 1 # num_workers_alive => U # Worker /\ Cardinality(U) = c + 1
        BY <2>2, <2>4, <4>1
      <4>4. QED
        BY <2>3, <3>2, <4>2, <4>3
    <3>3. QED
      BY <3>1, <3>2
  <2>6. QED
    BY <2>5 DEF U
<1>8. \A k \in Loads : Counts2(k)
  BY <1>6, <1>7
<1>9. QED
  BY <1>8 DEF CountsWorkers

\* The counts last: a step leaves them.
LEMMA CountsInduction ==
    ASSUME NamesOnce, AllLoadsAnswered, IndInv, OnlyFiles, CountsWorkers, [Next]_vars
    PROVE  CountsWorkers' /\ OnlyFiles'
<1>1. OnlyFiles'
  BY OnlyFilesStep
<1>2. ASSUME NEW w \in Worker, WorkerStep(w) PROVE CountsWorkers'
  <2>1. dicts' = dicts /\ \A k \in Loads : Told(k)' = Told(k)
    BY <1>2, WorkerKeeps DEF AllLoadsAnswered
  <2>2. QED
    BY <2>1 DEF CountsWorkers
<1>3. ASSUME NEW w \in Worker, MasterMainHandler(w) PROVE CountsWorkers'
  BY <1>3, CountsStep
<1>4. CASE UNCHANGED vars
  <2>1. UNCHANGED <<dicts, pc, load, reply>>
    BY <1>4 DEF vars, masterVars, workerVars
  <2>2. \A k \in Loads : Told(k)' = Told(k)
    BY <2>1 DEF Told
  <2>3. dicts' = dicts
    BY <2>1
  <2>4. QED
    BY <1>1, <2>2, <2>3 DEF CountsWorkers
<1>5. QED
  BY <1>1, <1>2, <1>3, <1>4 DEF Next

\* At the start nothing is counted.
LEMMA CountsInit == Init => CountsWorkers /\ OnlyFiles
<1>1. Init => OnlyFiles
  BY OwnershipInit DEF Ownership
<1>2. ASSUME Init PROVE CountsWorkers
  <2>1. DOMAIN dicts.finish_dict = {}
    <3>1. dicts.finish_dict = <<>>
      BY <1>2 DEF Init, MasterInit
    <3>2. DOMAIN <<>> = {}
      OBVIOUS
    <3>3. QED
      BY <3>1, <3>2
  <2>2. \A w \in Worker : load[w] = 1 /\ pc[w] = "next"
    BY <1>2 DEF Init
  <2>3. \A k \in Loads : ~(1 > k)
    BY ProgramAssumption DEF Loads
  <2>4. \A k \in Loads : Told(k) = {}
    BY <2>2, <2>3 DEF Told
  <2>5. QED
    BY <2>1, <2>4 DEF CountsWorkers
<1>3. QED
  BY <1>1, <1>2

\* In a program that names each url and file once and whose loads all end with
\* an answer of the assigner, a url's count is the number of workers told, and
\* the last one told removes it.
THEOREM UrlsAreForgotten == ASSUME NamesOnce, AllLoadsAnswered PROVE Spec => []CountsWorkers
  BY CountsInit, CountsInduction, Invariance, PTL DEF Spec

-----------------------------------------------------------------------------
(***************************************************************************)
(* Why the workers distribute the rows: a row group that a load has opened *)
(* is left, or somebody has all of its rows, and keeps them until they are *)
(* given to the load.                                                      *)
(***************************************************************************)

\* The program opens every file, under different names, and nothing but the
\* opening of a file by a worker fails.
ReadsEveryFile ==
    /\ NamesOnce /\ AllLoadsAnswered /\ "browse" \notin Faults
    /\ \A p \in Path : \E k \in Loads : p \in Opens(Program[k])

\* A worker asks when its lines are used up, and keeps none at the end.
UsedUp ==
    \A w \in Worker :
        /\ pc[w] \in {"waiting", "answered"} => taken[w] = Len(buffer[w])
        /\ pc[w] = "done" => load[w] > Len(Program) /\ buffer[w] = <<>>

\* The lines that next returned were given to the load.
TakenIsGot ==
    \A w \in Worker : \A i \in 1 .. taken[w] :
        buffer[w][i] # EmptyLine => buffer[w][i] \in got[w][load[w]]

\* Of a load that a worker was told is over, nothing is left.
ToldIsReadUp == \A k \in Loads : Told(k) # {} => NothingIsLeft(dicts, Program[k])

Crashed == \E w \in Worker : pc[w] = "crashed"

\* A worker that crashes takes the rows it was sent to with it.
NoneMissing ==
    Crashed \/ \A k \in Loads : ~Fresh(k) =>
        \A p \in Opens(Program[k]) : \A x \in RowsOfFile(p) :
            Left(dicts, x[1], x[2]) \/ \E w \in Worker : Has(w, x)

RefInv ==
    /\ IndInv /\ Ownership /\ CountsWorkers
    /\ UsedUp /\ TakenIsGot /\ ToldIsReadUp /\ NoneMissing

\* A row is not the empty line, and no row is where the master sends nobody.
LEMMA RowIsNoLine ==
    ASSUME NEW x \in Row
    PROVE  /\ x # EmptyLine
           /\ NoBlock # [filename |-> x[1], offset |-> x[2]]
           /\ x \in RowsOfGroup(x[1], x[2])
<1>1. PICK g \in DOMAIN RowGroups[x[1]] : x \in RowsOfGroup(x[1], g - 1)
  BY RowFacts DEF RowsOfFile
<1>2. PICK i \in 1 .. RowGroups[x[1]][(g - 1) + 1] : x = <<x[1], g - 1, i>>
  BY <1>1 DEF RowsOfGroup
<1>3. x # EmptyLine
  <2>1. ASSUME NEW a, NEW b, NEW c PROVE <<a, b, c>> # <<>>
    <3>1. Len(<<a, b, c>>) = 3 /\ Len(<<>>) = 0
      OBVIOUS
    <3>2. QED
      BY <3>1
  <2>2. QED
    BY <1>2, <2>1 DEF EmptyLine
<1>4. x[2] = g - 1
  BY <1>2
<1>5. x \in RowsOfGroup(x[1], x[2])
  BY <1>1, <1>4
<1>6. ASSUME NoBlock = [filename |-> x[1], offset |-> x[2]] PROVE FALSE
  <2> DEFINE r == [filename |-> x[1], offset |-> x[2]]
  <2>1. r.filename = x[1] /\ r = NoBlock
    BY <1>6
  <2>2. x[1] \in Path
    BY RowFacts
  <2>3. QED
    BY <2>1, <2>2, NoBlockFacts, NamesAssumption
<1>7. QED
  BY <1>3, <1>5, <1>6

\* A worker that reads without a failure has all rows of the row group.
LEMMA WholeGroup ==
    ASSUME TypeOK, GroupsExist, "read" \notin Faults, NEW w \in Worker, FetchBlock(w)
    PROVE  /\ pc[w] = "answered" /\ reply[w] # NoBlock
           /\ pc' = [pc EXCEPT ![w] = "next"]
           /\ taken' = [taken EXCEPT ![w] = 0]
           /\ UNCHANGED <<dicts, load, reply, got>>
           /\ \A v \in Worker : v # w => buffer'[v] = buffer[v]
           /\ \A i \in DOMAIN buffer[w] :
                 i \in DOMAIN buffer'[w] /\ buffer'[w][i] = buffer[w][i]
           /\ \A x \in RowsOfGroup(reply[w].filename, reply[w].offset) :
                 \E i \in DOMAIN buffer'[w] : buffer'[w][i] = x
<1> DEFINE p == reply[w].filename
           g == reply[w].offset
           n == RowGroups[p][g + 1]
           rows == [i \in 1 .. n |-> <<p, g, i>>]
           lines == rows \o <<EmptyLine>>
<1>1. /\ pc[w] = "answered" /\ reply[w] # NoBlock
      /\ p \in Path /\ g \in Nat /\ g < Len(RowGroups[p])
  BY FetchFacts
<1>2. n \in Nat
  <2> HIDE DEF p, g
  <2>1. RowGroups[p] \in Seq(Nat) /\ g + 1 \in 1 .. Len(RowGroups[p])
    BY <1>1, FilesAssumption
  <2>2. QED
    BY <2>1
<1>3. /\ rows \in Seq(RowsOfGroup(p, g)) /\ Len(rows) = n
      /\ \A i \in 1 .. n : rows[i] = <<p, g, i>>
  <2>1. \A i \in 1 .. n : rows[i] = <<p, g, i>> /\ rows[i] \in RowsOfGroup(p, g)
    BY DEF RowsOfGroup
  <2>2. DOMAIN rows = 1 .. n
    OBVIOUS
  <2>3. rows = [i \in 1 .. n |-> rows[i]]
    OBVIOUS
  <2> HIDE DEF rows, n, p, g
  <2>4. rows \in Seq(RowsOfGroup(p, g)) /\ Len(rows) = n
    BY <1>2, <2>1, <2>2, <2>3
  <2>5. QED
    BY <2>1, <2>4
<1>4. RowGroupLines(p, g) = lines
  BY DEF RowGroupLines
<1>5. ReadByRow(p, g) = {[lines |-> lines, torn |-> FALSE]}
  <2>1. lines \in Seq(RowsOfGroup(p, g) \cup {EmptyLine}) /\ Len(lines) = n + 1
    <3> HIDE DEF rows, n, p, g
    <3>1. rows \in Seq(RowsOfGroup(p, g) \cup {EmptyLine})
          /\ <<EmptyLine>> \in Seq(RowsOfGroup(p, g) \cup {EmptyLine})
      BY <1>3
    <3>2. QED
      BY <1>2, <1>3, <3>1
  <2>2. SubSeq(lines, 1, n + 1) = lines
    <3> HIDE DEF lines, n, p, g
    <3>1. QED
      BY <1>2, <2>1
  <2>3. ReadByRow(p, g) = {[lines |-> SubSeq(RowGroupLines(p, g), 1, n + 1), torn |-> FALSE]}
    BY DEF ReadByRow
  <2> HIDE DEF lines, n, p, g
  <2>4. QED
    BY <1>4, <2>2, <2>3
<1> DEFINE S == Row \cup {EmptyLine}
<1>6. buffer \in [Worker -> Seq(S)] /\ buffer[w] \in Seq(S) /\ Len(buffer[w]) \in Nat
  <2>1. buffer \in [Worker -> Seq(S)]
    BY DEF TypeOK
  <2>2. QED
    BY <2>1, WorkerTypes
<1>7. /\ lines \in Seq(S) /\ Len(lines) = n + 1
      /\ \A i \in 1 .. n : lines[i] = <<p, g, i>>
  <2>1. RowsOfGroup(p, g) \subseteq S
    BY <1>1, GroupFacts
  <2> HIDE DEF rows, n
  <2>2. rows \in Seq(S) /\ <<EmptyLine>> \in Seq(S)
    BY <1>3, <2>1
  <2> HIDE DEF S
  <2>3. QED
    BY <1>2, <1>3, <2>2
<1> HIDE DEF lines
<1>8. Printed(w, lines) = buffer[w] \o lines
  BY DEF Printed
<1>9. /\ Len(buffer[w] \o lines) = Len(buffer[w]) + (n + 1)
      /\ \A i \in 1 .. Len(buffer[w]) : (buffer[w] \o lines)[i] = buffer[w][i]
      /\ \A i \in 1 .. n : (buffer[w] \o lines)[Len(buffer[w]) + i] = <<p, g, i>>
      /\ buffer[w] \o lines \in Seq(S)
  <2> HIDE DEF S, n
  <2>1. /\ buffer[w] \o lines \in Seq(S)
        /\ Len(buffer[w] \o lines) = Len(buffer[w]) + Len(lines)
        /\ \A i \in 1 .. Len(buffer[w]) + Len(lines) :
              (buffer[w] \o lines)[i] = IF i <= Len(buffer[w]) THEN buffer[w][i]
                                        ELSE lines[i - Len(buffer[w])]
    BY <1>6, <1>7, ConcatProperties
  <2>2. ASSUME NEW i \in 1 .. n
        PROVE  (buffer[w] \o lines)[Len(buffer[w]) + i] = <<p, g, i>>
    <3>1. /\ Len(buffer[w]) + i \in 1 .. Len(buffer[w]) + Len(lines)
          /\ ~(Len(buffer[w]) + i <= Len(buffer[w]))
          /\ (Len(buffer[w]) + i) - Len(buffer[w]) = i
      BY <1>2, <1>6, <1>7
    <3>2. QED
      BY <1>7, <2>1, <3>1
  <2>3. \A i \in 1 .. Len(buffer[w]) : i \in 1 .. Len(buffer[w]) + Len(lines) /\ i <= Len(buffer[w])
    BY <1>2, <1>6, <1>7
  <2>4. QED
    BY <1>7, <2>1, <2>2, <2>3
<1>10. buffer[w] \o lines # <<>>
  <2>1. Len(<<>>) = 0
    OBVIOUS
  <2>2. QED
    BY <1>2, <1>6, <1>9, <2>1
<1>11. /\ pc' = [pc EXCEPT ![w] = "next"]
       /\ taken' = [taken EXCEPT ![w] = 0]
       /\ buffer' = [buffer EXCEPT ![w] = buffer[w] \o lines]
       /\ UNCHANGED <<masterVars, load, reply, got>>
  <2> DEFINE Prints(print) ==
                IF Printed(w, print.lines) = <<>> /\ ~print.torn
                THEN LoadEnds(w)
                ELSE /\ pc' = [pc EXCEPT ![w] = "next"]
                     /\ cur_fn' = [cur_fn EXCEPT ![w] = p]
                     /\ buffer' = [buffer EXCEPT ![w] = Printed(w, print.lines)]
                     /\ torn' = [torn EXCEPT ![w] = print.torn]
                     /\ taken' = [taken EXCEPT ![w] = 0]
                     /\ UNCHANGED <<masterVars, load, reply, got>>
  <2>1. \E print \in ReadByRow(p, g) : Prints(print)
    BY DEF FetchBlock
  <2> HIDE DEF Prints
  <2>2. Prints([lines |-> lines, torn |-> FALSE])
    BY <1>5, <2>1
  <2>3. QED
    BY <1>8, <1>10, <2>2 DEF Prints
<1>12. /\ UNCHANGED dicts
       /\ buffer'[w] = buffer[w] \o lines
       /\ \A v \in Worker : v # w => buffer'[v] = buffer[v]
  BY <1>6, <1>11 DEF masterVars
<1>13. DOMAIN buffer[w] = 1 .. Len(buffer[w]) /\ DOMAIN buffer'[w] = 1 .. Len(buffer[w]) + (n + 1)
  <2> HIDE DEF S, n
  <2>1. DOMAIN (buffer[w] \o lines) = 1 .. Len(buffer[w] \o lines)
    BY <1>9
  <2>2. QED
    BY <1>6, <1>9, <1>12, <2>1
<1>14. \A i \in DOMAIN buffer[w] : i \in DOMAIN buffer'[w] /\ buffer'[w][i] = buffer[w][i]
  BY <1>2, <1>6, <1>9, <1>12, <1>13
<1>15. ASSUME NEW x \in RowsOfGroup(p, g) PROVE \E i \in DOMAIN buffer'[w] : buffer'[w][i] = x
  <2>1. PICK i \in 1 .. n : x = <<p, g, i>>
    BY DEF RowsOfGroup
  <2>2. Len(buffer[w]) + i \in DOMAIN buffer'[w]
    BY <1>2, <1>6, <1>13, <2>1
  <2>3. buffer'[w][Len(buffer[w]) + i] = x
    BY <1>9, <1>12, <2>1
  <2>4. QED
    BY <2>2, <2>3
<1>16. QED
  BY <1>1, <1>11, <1>12, <1>14, <1>15

\* What next returned was given to the load, and nothing given is taken back.
LEMMA GotGrows ==
    ASSUME IndInv, NEW w \in Worker, NextLine(w)
    PROVE  /\ \A v \in Worker : \A k \in Loads : \A y \in Row :
                 y \in got[v][k] => y \in got'[v][k]
           /\ buffer[w][taken[w] + 1] \in Row =>
                 buffer[w][taken[w] + 1] \in got'[w][load[w]]
           /\ \A v \in Worker : v # w => got'[v] = got[v]
<1> DEFINE x == buffer[w][taken[w] + 1]
<1>1. /\ load[w] \in Loads
      /\ \/ x = EmptyLine /\ got' = got
         \/ /\ x \in Row
            /\ got' = [got EXCEPT ![w] = [got[w] EXCEPT ![load[w]] =
                                            got[w][load[w]] \cup {x}]]
  BY LineFacts
<1>2. got \in [Worker -> [Loads -> SUBSET Row]]
  BY DEF IndInv, TypeOK
<1>3. CASE x = EmptyLine /\ got' = got
  <2>1. x \notin Row
    BY <1>3, RowIsNoLine
  <2>2. QED
    BY <1>3, <2>1
<1>4. CASE /\ x \in Row
           /\ got' = [got EXCEPT ![w] = [got[w] EXCEPT ![load[w]] =
                                            got[w][load[w]] \cup {x}]]
  <2> HIDE DEF x
  <2>1. /\ got'[w] = [got[w] EXCEPT ![load[w]] = got[w][load[w]] \cup {x}]
        /\ \A v \in Worker : v # w => got'[v] = got[v]
    BY <1>2, <1>4
  <2>2. /\ got'[w][load[w]] = got[w][load[w]] \cup {x}
        /\ \A k \in Loads : k # load[w] => got'[w][k] = got[w][k]
    BY <1>1, <1>2, <2>1
  <2>5. x \in got'[w][load[w]]
    BY <2>2
  <2>6. ASSUME NEW v \in Worker, NEW k \in Loads, NEW y \in Row, y \in got[v][k]
        PROVE  y \in got'[v][k]
    <3>1. CASE v = w /\ k = load[w]
      BY <2>2, <2>6, <3>1
    <3>2. CASE ~(v = w /\ k = load[w])
      BY <2>1, <2>2, <2>6, <3>2
    <3>3. QED
      BY <3>1, <3>2
  <2>7. QED
    BY <2>1, <2>5, <2>6 DEF x
<1>5. QED
  BY <1>1, <1>3, <1>4

\* Without a failure to read, a worker keeps the rows it has until it crashes.
LEMMA HeldStays ==
    ASSUME IndInv, UsedUp, TakenIsGot, "read" \notin Faults, NEW w \in Worker, WorkerStep(w),
           NEW v \in Worker, NEW x \in Row, Has(v, x)
    PROVE  Has(v, x)' \/ pc'[w] = "crashed"
<1>1. /\ TypeOK /\ GroupsExist
      /\ pc \in [Worker -> {"next", "waiting", "answered", "done", "crashed"}]
      /\ buffer \in [Worker -> Seq(Row \cup {EmptyLine})]
  BY DEF IndInv, TypeOK
<1> DEFINE Sent(u) == pc[u] = "answered" /\ reply[u] = [filename |-> x[1], offset |-> x[2]]
           Printed1(u) == \E i \in DOMAIN buffer[u] : buffer[u][i] = x
           Given1(u) == \E k \in Loads : x \in got[u][k]
<1>2. /\ Has(v, x) <=> Sent(v) \/ Printed1(v) \/ Given1(v)
      /\ Has(v, x)' <=> Sent(v)' \/ Printed1(v)' \/ Given1(v)'
  BY DEF Has
<1>3. CASE NextLine(w)
  <2>1. UNCHANGED <<pc, reply, buffer>>
    BY <1>3 DEF NextLine
  <2>2. Given1(v) => Given1(v)'
    BY <1>3, GotGrows
  <2>3. QED
    BY <1>2, <2>1, <2>2
<1>4. CASE AskMaster(w)
  <2>1. /\ pc[w] = "next" /\ pc' = [pc EXCEPT ![w] = "waiting"]
        /\ UNCHANGED <<reply, buffer, got>>
    BY <1>4 DEF AskMaster
  <2>2. Sent(v) => Sent(v)'
    BY <1>1, <2>1
  <2>3. QED
    BY <1>2, <2>1, <2>2
<1>5. CASE FetchNothing(w)
  <2>1. pc[w] = "answered" /\ reply[w] = NoBlock /\ LoadEnds(w)
    BY <1>5 DEF FetchNothing
  <2>2. /\ load[w] \in Loads
        /\ \A u \in Worker : u # w => pc'[u] = pc[u]
        /\ buffer' = [buffer EXCEPT ![w] = <<>>]
        /\ UNCHANGED <<reply, got>>
    BY <2>1, EndFacts
  <2>3. CASE v # w
    <3>1. pc'[v] = pc[v] /\ buffer'[v] = buffer[v] /\ reply'[v] = reply[v] /\ got'[v] = got[v]
      BY <1>1, <2>2, <2>3
    <3>2. QED
      BY <1>2, <3>1
  <2>4. CASE v = w
    <3>1. ~Sent(w)
      BY <2>1, RowIsNoLine
    <3>2. ASSUME NEW i \in DOMAIN buffer[w], buffer[w][i] = x PROVE Given1(w)
      <4>1. i \in 1 .. Len(buffer[w]) /\ taken[w] = Len(buffer[w])
        BY <1>1, <2>1, <3>2 DEF UsedUp
      <4>2. x \in got[w][load[w]]
        BY <3>2, <4>1, RowIsNoLine DEF TakenIsGot
      <4>3. QED
        BY <2>2, <4>2
    <3>3. Given1(w) => Given1(w)'
      BY <2>2
    <3>4. QED
      BY <1>2, <2>4, <3>1, <3>2, <3>3
  <2>5. QED
    BY <2>3, <2>4
<1>6. CASE FetchBlock(w)
  <2>1. /\ pc[w] = "answered" /\ reply[w] # NoBlock
        /\ pc' = [pc EXCEPT ![w] = "next"]
        /\ UNCHANGED <<dicts, load, reply, got>>
        /\ \A u \in Worker : u # w => buffer'[u] = buffer[u]
        /\ \A i \in DOMAIN buffer[w] :
              i \in DOMAIN buffer'[w] /\ buffer'[w][i] = buffer[w][i]
        /\ \A y \in RowsOfGroup(reply[w].filename, reply[w].offset) :
              \E i \in DOMAIN buffer'[w] : buffer'[w][i] = y
    BY <1>1, <1>6, WholeGroup
  <2>2. CASE v # w
    <3>1. pc'[v] = pc[v] /\ buffer'[v] = buffer[v] /\ reply'[v] = reply[v] /\ got'[v] = got[v]
      BY <1>1, <2>1, <2>2
    <3>2. QED
      BY <1>2, <3>1
  <2>3. CASE v = w
    <3>1. Sent(w) => Printed1(w)'
      <4>1. SUFFICES ASSUME Sent(w) PROVE Printed1(w)'
        OBVIOUS
      <4>2. reply[w].filename = x[1] /\ reply[w].offset = x[2]
        BY <4>1
      <4>3. QED
        BY <2>1, <4>2, RowIsNoLine
    <3>2. Printed1(w) => Printed1(w)'
      BY <2>1
    <3>3. Given1(w) => Given1(w)'
      BY <2>1
    <3>4. QED
      BY <1>2, <2>3, <3>1, <3>2, <3>3
  <2>4. QED
    BY <2>2, <2>3
<1>7. CASE OpenFails(w)
  <2>1. pc' = [pc EXCEPT ![w] = "crashed"]
    BY <1>7 DEF OpenFails
  <2>2. QED
    BY <1>1, <2>1
<1>9. CASE NextPiece(w)
  <2>1. UNCHANGED <<pc, reply, buffer, got>>
    BY <1>9 DEF NextPiece
  <2>2. QED
    BY <1>2, <2>1
<1>8. QED
  BY <1>3, <1>4, <1>5, <1>6, <1>7, <1>9 DEF WorkerStep

\* Who crashed never takes a step again.
LEMMA CrashedForGood ==
    ASSUME IndInv, [Next]_vars, Crashed
    PROVE  Crashed'
<1>1. pc \in [Worker -> {"next", "waiting", "answered", "done", "crashed"}]
  BY DEF IndInv, TypeOK
<1>2. PICK v \in Worker : pc[v] = "crashed"
  BY DEF Crashed
<1>3. ASSUME NEW w \in Worker, WorkerStep(w) PROVE pc'[v] = "crashed"
  <2>1. CASE NextLine(w)
    BY <1>2, <2>1 DEF NextLine
  <2>2. CASE AskMaster(w)
    BY <1>1, <1>2, <2>2 DEF AskMaster
  <2>3. CASE FetchNothing(w)
    BY <1>2, <2>3, EndFacts DEF FetchNothing
  <2>4. CASE FetchBlock(w)
    <3>1. pc[w] = "answered"
      BY <2>4 DEF FetchBlock
    <3>2. LoadEnds(w) \/ pc' = [pc EXCEPT ![w] = "next"]
      BY <2>4, FetchFacts DEF IndInv
    <3>3. QED
      BY <1>1, <1>2, <3>1, <3>2, EndFacts
  <2>5. CASE OpenFails(w)
    BY <1>1, <1>2, <2>5 DEF OpenFails
  <2>6. CASE NextPiece(w)
    BY <1>2, <2>6 DEF NextPiece
  <2>7. QED
    BY <1>3, <2>1, <2>2, <2>3, <2>4, <2>5, <2>6 DEF WorkerStep
<1>4. ASSUME NEW w \in Worker, MasterMainHandler(w) PROVE pc'[v] = "crashed"
  <2>1. pc[w] = "waiting" /\ pc' = [pc EXCEPT ![w] = "answered"]
    BY <1>4, MasterFacts
  <2>2. QED
    BY <1>1, <1>2, <2>1
<1>5. ASSUME UNCHANGED vars PROVE pc'[v] = "crashed"
  BY <1>2, <1>5 DEF vars, workerVars
<1>6. pc'[v] = "crashed"
  BY <1>3, <1>4, <1>5 DEF Next
<1>7. QED
  BY <1>6 DEF Crashed

\* A step leaves what it says of the lines.
LEMMA LinesStep ==
    ASSUME IndInv, "read" \notin Faults, UsedUp, TakenIsGot, [Next]_vars
    PROVE  UsedUp' /\ TakenIsGot'
<1> DEFINE Used(u) == /\ pc[u] \in {"waiting", "answered"} => taken[u] = Len(buffer[u])
                      /\ pc[u] = "done" => load[u] > Len(Program) /\ buffer[u] = <<>>
           Given(u) == \A i \in 1 .. taken[u] :
                          buffer[u][i] # EmptyLine => buffer[u][i] \in got[u][load[u]]
<1>1. /\ TypeOK /\ GroupsExist
      /\ pc \in [Worker -> {"next", "waiting", "answered", "done", "crashed"}]
      /\ buffer \in [Worker -> Seq(Row \cup {EmptyLine})]
      /\ load \in [Worker -> 1 .. Len(Program) + 1] /\ taken \in [Worker -> Nat]
      /\ got \in [Worker -> [Loads -> SUBSET Row]]
  BY DEF IndInv, TypeOK
<1>2. \A u \in Worker : Used(u) /\ Given(u)
  BY DEF UsedUp, TakenIsGot
<1>3. ASSUME NEW u \in Worker, pc'[u] = pc[u], load'[u] = load[u], buffer'[u] = buffer[u],
             taken'[u] = taken[u], got'[u] = got[u]
      PROVE  Used(u)' /\ Given(u)'
  BY <1>2, <1>3
<1>4. ASSUME NEW w \in Worker, LoadEnds(w), pc[w] = "answered", NEW u \in Worker
      PROVE  Used(u)' /\ Given(u)'
  <2>1. /\ load[w] \in Loads /\ Len(Program) \in Nat /\ Loads = 1 .. Len(Program)
        /\ load' = [load EXCEPT ![w] = load[w] + 1]
        /\ \A v \in Worker : v # w => pc'[v] = pc[v]
        /\ pc'[w] = IF load[w] = Len(Program) THEN "done" ELSE "next"
        /\ buffer' = [buffer EXCEPT ![w] = <<>>]
        /\ taken' = [taken EXCEPT ![w] = 0]
        /\ UNCHANGED got
    BY <1>1, <1>4, EndFacts, WorkerTypes
  <2>2. CASE u # w
    BY <1>1, <1>3, <2>1, <2>2
  <2>3. CASE u = w
    <3>1. taken'[w] = 0 /\ buffer'[w] = <<>> /\ load'[w] = load[w] + 1
      BY <1>1, <2>1
    <3>2. Given(w)'
      BY <3>1
    <3>3. Used(w)'
      BY <2>1, <3>1
    <3>4. QED
      BY <2>3, <3>2, <3>3
  <2>4. QED
    BY <2>2, <2>3
<1>5. ASSUME NEW w \in Worker, WorkerStep(w), NEW u \in Worker
      PROVE  Used(u)' /\ Given(u)'
  <2>1. CASE NextLine(w)
    <3> DEFINE n == taken[w] + 1
    <3>1. /\ pc[w] = "next" /\ n \in 1 .. Len(buffer[w]) /\ Len(buffer[w]) \in Nat
          /\ taken' = [taken EXCEPT ![w] = n]
          /\ UNCHANGED <<pc, load, buffer>>
      <4>1. /\ pc[w] = "next" /\ n \in DOMAIN buffer[w]
            /\ taken' = [taken EXCEPT ![w] = n]
            /\ UNCHANGED <<pc, load, buffer>>
        BY <2>1, LineFacts
      <4>2. buffer[w] \in Seq(Row \cup {EmptyLine})
        BY <1>1
      <4> HIDE DEF n
      <4>3. QED
        BY <4>1, <4>2
    <3>2. /\ \A v \in Worker : \A k \in Loads : \A y \in Row :
                y \in got[v][k] => y \in got'[v][k]
          /\ buffer[w][n] \in Row => buffer[w][n] \in got'[w][load[w]]
          /\ \A v \in Worker : v # w => got'[v] = got[v]
      BY <2>1, GotGrows
    <3>3. CASE u # w
      BY <1>1, <1>3, <3>1, <3>2, <3>3
    <3>4. CASE u = w
      <4>1. Used(w)'
        BY <3>1
      <4>2. ASSUME NEW i \in 1 .. n, buffer[w][i] # EmptyLine
            PROVE  buffer[w][i] \in got'[w][load[w]]
        <5>1. taken[w] \in Nat /\ load[w] \in Loads
          BY <1>1, <3>1 DEF IndInv, LoadInProgram
        <5>2. i \in 1 .. Len(buffer[w])
          BY <3>1, <5>1
        <5>3. buffer[w][i] \in Row
          BY <1>1, <3>1, <4>2, <5>2
        <5>4. CASE i = n
          BY <3>2, <5>3, <5>4
        <5>5. CASE i # n
          <6>1. i \in 1 .. taken[w]
            BY <5>1, <5>5
          <6>2. buffer[w][i] \in got[w][load[w]]
            BY <1>2, <4>2, <6>1
          <6>3. QED
            BY <3>2, <5>1, <5>3, <6>2
        <5>6. QED
          BY <5>4, <5>5
      <4>3. taken'[w] = n /\ load'[w] = load[w] /\ buffer'[w] = buffer[w]
        BY <1>1, <3>1
      <4>4. Given(w)'
        BY <4>2, <4>3
      <4>5. QED
        BY <3>4, <4>1, <4>4
    <3>5. QED
      BY <3>3, <3>4
  <2>2. CASE AskMaster(w)
    <3>1. /\ pc[w] = "next" /\ taken[w] = Len(buffer[w]) /\ pc' = [pc EXCEPT ![w] = "waiting"]
          /\ UNCHANGED <<load, buffer, taken, got>>
      BY <2>2 DEF AskMaster
    <3>2. CASE u # w
      BY <1>1, <1>3, <3>1, <3>2
    <3>3. CASE u = w
      <4>1. pc'[w] = "waiting"
        BY <1>1, <3>1
      <4>2. QED
        BY <1>2, <3>1, <3>3, <4>1
    <3>4. QED
      BY <3>2, <3>3
  <2>3. CASE FetchNothing(w)
    BY <1>4, <2>3 DEF FetchNothing
  <2>4. CASE FetchBlock(w)
    <3>1. /\ pc' = [pc EXCEPT ![w] = "next"] /\ taken' = [taken EXCEPT ![w] = 0]
          /\ UNCHANGED <<load, got>>
          /\ \A v \in Worker : v # w => buffer'[v] = buffer[v]
      BY <1>1, <2>4, WholeGroup
    <3>2. CASE u # w
      BY <1>1, <1>3, <3>1, <3>2
    <3>3. CASE u = w
      <4>1. pc'[w] = "next" /\ taken'[w] = 0
        BY <1>1, <3>1
      <4>2. QED
        BY <3>3, <4>1
    <3>4. QED
      BY <3>2, <3>3
  <2>5. CASE OpenFails(w)
    <3>1. pc' = [pc EXCEPT ![w] = "crashed"] /\ UNCHANGED <<load, buffer, taken, got>>
      BY <2>5 DEF OpenFails
    <3>2. CASE u # w
      BY <1>1, <1>3, <3>1, <3>2
    <3>3. CASE u = w
      <4>1. pc'[w] = "crashed"
        BY <1>1, <3>1
      <4>2. QED
        BY <1>2, <3>1, <3>3, <4>1
    <3>4. QED
      BY <3>2, <3>3
  <2>6. CASE NextPiece(w)
    <3>1. /\ pc[w] = "next" /\ taken' = [taken EXCEPT ![w] = 0]
          /\ UNCHANGED <<pc, load, buffer, got>>
      BY <2>6 DEF NextPiece
    <3>2. CASE u # w
      BY <1>1, <1>3, <3>1, <3>2
    <3>3. CASE u = w
      <4>1. pc'[w] = "next" /\ taken'[w] = 0
        BY <1>1, <3>1
      <4>2. QED
        BY <3>3, <4>1
    <3>4. QED
      BY <3>2, <3>3
  <2>7. QED
    BY <1>5, <2>1, <2>2, <2>3, <2>4, <2>5, <2>6 DEF WorkerStep
<1>6. ASSUME NEW w \in Worker, MasterMainHandler(w), NEW u \in Worker
      PROVE  Used(u)' /\ Given(u)'
  <2>1. /\ pc[w] = "waiting" /\ pc' = [pc EXCEPT ![w] = "answered"]
        /\ UNCHANGED <<load, buffer, taken, got>>
    BY <1>6, MasterFacts
  <2>2. CASE u # w
    BY <1>1, <1>3, <2>1, <2>2
  <2>3. CASE u = w
    <3>1. pc'[w] = "answered" /\ taken[w] = Len(buffer[w])
      BY <1>1, <1>2, <2>1
    <3>2. QED
      BY <1>2, <2>1, <2>3, <3>1
  <2>4. QED
    BY <2>2, <2>3
<1>7. ASSUME UNCHANGED vars, NEW u \in Worker PROVE Used(u)' /\ Given(u)'
  BY <1>3, <1>7 DEF vars, workerVars
<1>8. \A u \in Worker : Used(u)' /\ Given(u)'
  <2> HIDE DEF Used, Given
  <2>1. QED
    BY <1>5, <1>6, <1>7 DEF Next
<1>9. QED
  BY <1>8 DEF UsedUp, TakenIsGot

\* Nothing is lost while the workers read,
LEMMA NoneMissingOfWorkers ==
    ASSUME ReadsEveryFile, RefInv, NEW w \in Worker, WorkerStep(w), ~Crashed'
    PROVE  ToldIsReadUp' /\ NoneMissing'
<1>1. "read" \notin Faults /\ IndInv
  BY DEF ReadsEveryFile, AllLoadsAnswered, RefInv
<1>2. UNCHANGED dicts /\ \A k \in Loads : Told(k)' = Told(k)
  BY <1>1, WorkerKeeps
<1>3. ToldIsReadUp'
  BY <1>2 DEF RefInv, ToldIsReadUp, NothingIsLeft
<1>4. \A v \in Worker : \A x \in Row : Has(v, x) => Has(v, x)'
  <2>1. pc'[w] # "crashed"
    BY DEF Crashed
  <2>2. QED
    BY <1>1, <2>1, HeldStays DEF RefInv
<1>5. ~Crashed
  BY <1>1, CrashedForGood DEF Next
<1>6. ASSUME NEW k \in Loads, ~Fresh(k)', NEW p \in Opens(Program[k]), NEW x \in RowsOfFile(p)
      PROVE  Left(dicts', x[1], x[2]) \/ \E v \in Worker : Has(v, x)'
  <2>1. ~Fresh(k)
    BY <1>2, <1>6 DEF Fresh
  <2>2. x \in Row
    BY <1>6, OpensPaths, FileFacts
  <2>3. Left(dicts, x[1], x[2]) \/ \E v \in Worker : Has(v, x)
    BY <1>5, <1>6, <2>1 DEF RefInv, NoneMissing
  <2>4. QED
    BY <1>2, <1>4, <2>2, <2>3
<1>7. NoneMissing'
  BY <1>6 DEF NoneMissing
<1>8. QED
  BY <1>3, <1>7

\* and while the master answers.
LEMMA NoneMissingOfAnswers ==
    ASSUME ReadsEveryFile, RefInv, NEW w \in Worker, MasterMainHandler(w),
           NEW j, j = load[w]
    PROVE  ToldIsReadUp' /\ NoneMissing'
<1> DEFINE url == Program[j]
<1>1. IndInv /\ OnlyFiles /\ CountsWorkers /\ NamesOnce /\ "browse" \notin Faults
  BY DEF ReadsEveryFile, RefInv, Ownership
<1>2. /\ j \in Loads /\ pc[w] = "waiting"
      /\ UNCHANGED <<load, buffer, got>> /\ pc' = [pc EXCEPT ![w] = "answered"]
      /\ \E a : /\ Answer(dicts, url, a)
                /\ dicts' = a.dicts /\ reply' = [reply EXCEPT ![w] = a.ret]
  BY <1>1, MasterFacts DEF ReadsEveryFile, AllLoadsAnswered
<1>3. PICK a : /\ Answer(dicts, url, a)
               /\ dicts' = a.dicts /\ reply' = [reply EXCEPT ![w] = a.ret]
  BY <1>2
<1>4. /\ w \notin Told(j)
      /\ Told(j)' = Told(j) \cup (IF a.ret = NoBlock THEN {w} ELSE {})
      /\ \A k \in Loads : k # j => Told(k)' = Told(k)
  BY <1>1, <1>3, MasterTells
<1>5. /\ \A p : \A h \in Nat : Left(dicts', p, h) =>
            Left(dicts, p, h) \/ (url \notin DOMAIN dicts.finish_dict /\ p \in Opens(url))
      /\ OnlyThatGoes(dicts, a) /\ (a.ret = NoBlock => NothingIsLeft(dicts', url))
      /\ url \notin DOMAIN dicts.finish_dict => AllButThat(url, a)
  BY <1>1, <1>3 DEF Answer
<1>6. \A k \in Loads : k # j => KeepsCount(dicts, Program[k], a)
  BY <1>1, <1>2, <1>3, UrlsApart
<1>7. /\ pc \in [Worker -> {"next", "waiting", "answered", "done", "crashed"}]
      /\ reply \in [Worker -> [filename : Path \cup {""}, offset : Nat]]
  BY <1>1 DEF IndInv, TypeOK
<1>8. pc'[w] = "answered" /\ reply'[w] = a.ret
  BY <1>2, <1>3, <1>7
<1>9. \A v \in Worker : v # w => pc'[v] = pc[v] /\ reply'[v] = reply[v]
  BY <1>2, <1>3, <1>7
<1> HIDE DEF url
<1>10. ASSUME NEW v \in Worker, NEW x \in Row, Has(v, x) PROVE Has(v, x)'
  BY <1>2, <1>9, <1>10 DEF Has
<1>11. ASSUME NEW x \in Row, a.ret = [filename |-> x[1], offset |-> x[2]] PROVE Has(w, x)'
  BY <1>8, <1>11 DEF Has
<1>12. url \notin DOMAIN dicts.finish_dict => Told(j) = {}
  BY <1>1, <1>2, <1>4 DEF CountsWorkers, url
<1>13. ASSUME NEW k \in Loads, Told(k)' # {} PROVE NothingIsLeft(dicts', Program[k])
  <2>1. CASE k = j /\ a.ret = NoBlock
    BY <1>5, <2>1 DEF url
  <2>2. CASE k = j /\ a.ret # NoBlock
    <3>1. Told(j) # {}
      <4>1. Told(j)' = Told(j)
        BY <1>4, <2>2
      <4>2. QED
        BY <1>13, <2>2, <4>1
    <3>2. NothingIsLeft(dicts, url)
      BY <1>2, <3>1 DEF RefInv, ToldIsReadUp, url
    <3>3. url \in DOMAIN dicts.finish_dict
      BY <1>12, <3>1
    <3>4. NothingIsLeft(dicts', url)
      BY <1>5, <3>2, <3>3 DEF NothingIsLeft
    <3>5. QED
      BY <2>2, <3>4 DEF url
  <2>3. CASE k # j
    <3>1. NothingIsLeft(dicts, Program[k])
      BY <1>4, <1>13, <2>3 DEF RefInv, ToldIsReadUp
    <3>2. \A p \in Opens(Program[k]) : p \notin Opens(url)
      BY <1>1, <1>2, <2>3, OpensOnce DEF url
    <3>3. QED
      BY <1>5, <3>1, <3>2 DEF NothingIsLeft
  <2>4. QED
    BY <2>1, <2>2, <2>3
<1>14. ASSUME ~Crashed', NEW k \in Loads, ~Fresh(k)',
              NEW p \in Opens(Program[k]), NEW x \in RowsOfFile(p)
       PROVE  Left(dicts', x[1], x[2]) \/ \E v \in Worker : Has(v, x)'
  <2>1. x \in Row /\ x[1] = p
    BY <1>14, OpensPaths, FileFacts
  <2>2. x[2] \in Nat /\ x[2] < Len(RowGroups[p])
    BY <2>1, RowFacts
  <2>3. CASE ~Fresh(k)
    <3>1. Left(dicts, p, x[2]) \/ \E v \in Worker : Has(v, x)
      <4>1. ~Crashed
        BY <1>1, <1>14, CrashedForGood DEF Next
      <4>2. QED
        BY <1>14, <2>1, <2>3, <4>1 DEF RefInv, NoneMissing
    <3>2. Left(dicts, p, x[2]) =>
            Left(dicts', p, x[2]) \/ a.ret = [filename |-> p, offset |-> x[2]]
      BY <1>3, <1>5, <2>2 DEF OnlyThatGoes
    <3>3. QED
      BY <1>10, <1>11, <2>1, <3>1, <3>2
  <2>4. CASE Fresh(k)
    <3>1. k = j
      BY <1>3, <1>4, <1>6, <1>14, <2>4 DEF Fresh, KeepsCount
    <3>2. AllButThat(url, a) /\ p \in Opens(url)
      BY <1>5, <1>14, <2>4, <3>1 DEF Fresh, url
    <3>3. Left(dicts', p, x[2]) \/ a.ret = [filename |-> p, offset |-> x[2]]
      BY <1>3, <2>2, <3>2 DEF AllButThat
    <3>4. QED
      BY <1>11, <2>1, <3>3
  <2>5. QED
    BY <2>3, <2>4
<1>15. ToldIsReadUp' /\ NoneMissing'
  BY <1>13, <1>14 DEF ToldIsReadUp, NoneMissing
<1>16. QED
  BY <1>15

\* At the start nobody has printed, and nobody was told anything.
LEMMA RefInit == Init => UsedUp /\ TakenIsGot /\ ToldIsReadUp /\ NoneMissing
<1> SUFFICES ASSUME Init PROVE UsedUp /\ TakenIsGot /\ ToldIsReadUp /\ NoneMissing
  OBVIOUS
<1>1. \A w \in Worker : pc[w] = "next" /\ load[w] = 1 /\ taken[w] = 0
  BY DEF Init
<1>2. UsedUp /\ TakenIsGot
  BY <1>1 DEF UsedUp, TakenIsGot
<1>3. DOMAIN dicts.file_size = {} /\ DOMAIN dicts.finish_dict = {}
  <2>1. dicts.file_size = <<>> /\ dicts.finish_dict = <<>>
    BY DEF Init, MasterInit
  <2>2. DOMAIN <<>> = {}
    OBVIOUS
  <2>3. QED
    BY <2>1, <2>2
<1>4. \A k \in Loads : Told(k) = {}
  <2>1. \A k \in Loads : ~(1 > k)
    BY ProgramAssumption DEF Loads
  <2>2. QED
    BY <1>1, <2>1 DEF Told
<1>5. ToldIsReadUp
  BY <1>4 DEF ToldIsReadUp
<1>6. Worker # {}
  BY WorkerAssumption, CountAssumption, FS_EmptySet
<1>7. \A k \in Loads : Fresh(k)
  BY <1>3, <1>4, <1>6 DEF Fresh
<1>8. NoneMissing
  BY <1>7 DEF NoneMissing
<1>9. QED
  BY <1>2, <1>5, <1>8

\* Nobody loses a row group.
LEMMA NoneMissingStep ==
    ASSUME ReadsEveryFile, RefInv, [Next]_vars
    PROVE  ToldIsReadUp' /\ NoneMissing'
<1>1. "read" \notin Faults /\ IndInv
  BY DEF ReadsEveryFile, AllLoadsAnswered, RefInv
<1>2. ASSUME NEW w \in Worker, WorkerStep(w) PROVE ToldIsReadUp' /\ NoneMissing'
  <2>1. CASE ~Crashed'
    BY <1>2, <2>1, NoneMissingOfWorkers
  <2>2. CASE Crashed'
    <3>1. UNCHANGED dicts /\ \A k \in Loads : Told(k)' = Told(k)
      BY <1>1, <1>2, WorkerKeeps
    <3>2. ToldIsReadUp'
      BY <3>1 DEF RefInv, ToldIsReadUp, NothingIsLeft
    <3>3. QED
      BY <2>2, <3>2 DEF NoneMissing
  <2>3. QED
    BY <2>1, <2>2
<1>3. ASSUME NEW w \in Worker, MasterMainHandler(w) PROVE ToldIsReadUp' /\ NoneMissing'
  BY <1>3, NoneMissingOfAnswers
<1>4. CASE UNCHANGED vars
  <2>1. UNCHANGED <<dicts, pc, load, reply, buffer, got>>
    BY <1>4 DEF vars, masterVars, workerVars
  <2>2. \A k \in Loads : Told(k)' = Told(k)
    BY <2>1 DEF Told
  <2>3. \A w \in Worker : \A x : Has(w, x)' <=> Has(w, x)
    BY <2>1 DEF Has
  <2>4. ToldIsReadUp'
    BY <2>1, <2>2 DEF RefInv, ToldIsReadUp, NothingIsLeft
  <2>5. NoneMissing'
    BY <2>1, <2>2, <2>3 DEF RefInv, NoneMissing, Crashed, Fresh
  <2>6. QED
    BY <2>4, <2>5
<1>5. QED
  BY <1>2, <1>3, <1>4 DEF Next

\* What RowDistribution sees: who was given a row, and who is done.
Given == [w \in Worker |-> [x \in Row |-> IF \E k \in Loads : x \in got[w][k] THEN 1 ELSE 0]]

DoneWorkers == {w \in Worker : pc[w] = "done"}

\* When the last worker is done, every row was given to somebody.
AllGiven == DoneWorkers = Worker => \A x \in Row : \E w \in Worker : Given[w][x] = 1

\* The invariants leave no other place for a row.
LEMMA RefInvGives ==
    ASSUME ReadsEveryFile, RefInv
    PROVE  AllGiven
<1> SUFFICES ASSUME DoneWorkers = Worker, NEW x \in Row
             PROVE  \E w \in Worker : Given[w][x] = 1
  BY DEF AllGiven
<1>1. \A w \in Worker : pc[w] = "done"
  BY DEF DoneWorkers
<1>2. PICK k \in Loads : x[1] \in Opens(Program[k])
  BY RowFacts DEF ReadsEveryFile
<1>3. \A w \in Worker : load[w] > Len(Program) /\ buffer[w] = <<>>
  BY <1>1 DEF RefInv, UsedUp
<1>4. Told(k) = Worker
  <2>1. \A w \in Worker : load[w] > k
    <3>1. /\ \A w \in Worker : load[w] \in 1 .. Len(Program) + 1
          /\ Len(Program) \in Nat /\ k \in 1 .. Len(Program)
      <4>1. TypeOK
        BY DEF RefInv, IndInv
      <4>2. Len(Program) \in Nat /\ k \in 1 .. Len(Program)
        BY ProgramAssumption DEF Loads
      <4>3. QED
        BY <4>1, <4>2, WorkerTypes
    <3>2. QED
      BY <1>3, <3>1
  <2>2. QED
    BY <2>1 DEF Told
<1>5. Worker # {}
  BY WorkerAssumption, CountAssumption, FS_EmptySet
<1>6. ~Left(dicts, x[1], x[2])
  <2>1. NothingIsLeft(dicts, Program[k])
    BY <1>4, <1>5 DEF RefInv, ToldIsReadUp
  <2>2. QED
    BY <1>2, <2>1, RowFacts DEF NothingIsLeft
<1>7. ~Crashed /\ ~Fresh(k)
  BY <1>1, <1>4 DEF Crashed, Fresh
<1>8. PICK w \in Worker : Has(w, x)
  BY <1>2, <1>6, <1>7, RowFacts DEF RefInv, NoneMissing
<1>9. pc[w] # "answered" /\ DOMAIN buffer[w] = {}
  <2>1. DOMAIN <<>> = {}
    OBVIOUS
  <2>2. QED
    BY <1>1, <1>3, <2>1
<1>10. \E h \in Loads : x \in got[w][h]
  BY <1>8, <1>9 DEF Has
<1>11. QED
  BY <1>10 DEF Given

\* A line that is a row not given before is a Take; the step that ends a
\* worker's last load is a Stop; no other step shows.
LEMMA MapsToAStep ==
    ASSUME ReadsEveryFile, RefInv, AllGiven', [Next]_vars
    PROVE  [Distribution!Next]_<<Given, DoneWorkers>>
<1>1. /\ IndInv /\ TypeOK /\ GroupsExist /\ OneReader /\ "read" \notin Faults
      /\ pc \in [Worker -> {"next", "waiting", "answered", "done", "crashed"}]
  BY DEF RefInv, IndInv, TypeOK, Ownership, ReadsEveryFile, AllLoadsAnswered
<1>2. ASSUME UNCHANGED got, \A w \in Worker : pc'[w] = "done" <=> pc[w] = "done"
      PROVE  UNCHANGED <<Given, DoneWorkers>>
  BY <1>2 DEF Given, DoneWorkers
<1>3. CASE UNCHANGED vars
  BY <1>2, <1>3 DEF vars, workerVars
<1>4. ASSUME NEW w \in Worker, MasterMainHandler(w)
      PROVE  UNCHANGED <<Given, DoneWorkers>>
  <2>1. pc[w] = "waiting" /\ pc' = [pc EXCEPT ![w] = "answered"] /\ UNCHANGED got
    BY <1>1, <1>4, MasterFacts
  <2>2. QED
    BY <1>1, <1>2, <2>1
<1>5. ASSUME NEW w \in Worker, NextPiece(w) \/ AskMaster(w) \/ OpenFails(w)
      PROVE  UNCHANGED <<Given, DoneWorkers>>
  BY <1>1, <1>2, <1>5 DEF NextPiece, AskMaster, OpenFails
<1>6. ASSUME NEW w \in Worker, FetchBlock(w)
      PROVE  UNCHANGED <<Given, DoneWorkers>>
  <2>1. pc[w] = "answered" /\ pc' = [pc EXCEPT ![w] = "next"] /\ UNCHANGED got
    BY <1>1, <1>6, WholeGroup
  <2>2. QED
    BY <1>1, <1>2, <2>1
<1>7. ASSUME NEW w \in Worker, NextLine(w)
      PROVE  [Distribution!Next]_<<Given, DoneWorkers>>
  <2> DEFINE n == taken[w] + 1
             x == buffer[w][n]
  <2>1. /\ pc[w] = "next" /\ load[w] \in Loads /\ n \in DOMAIN buffer[w]
        /\ UNCHANGED pc
        /\ \/ x = EmptyLine /\ got' = got
           \/ /\ x \in Row
              /\ got' = [got EXCEPT ![w] = [got[w] EXCEPT ![load[w]] =
                                              got[w][load[w]] \cup {x}]]
    BY <1>1, <1>7, LineFacts
  <2>2. w \notin DoneWorkers /\ DoneWorkers' = DoneWorkers
    BY <2>1 DEF DoneWorkers
  <2>3. CASE got' = got
    BY <1>2, <2>1, <2>3
  <2>4. CASE /\ x \in Row
             /\ got' = [got EXCEPT ![w] = [got[w] EXCEPT ![load[w]] =
                                              got[w][load[w]] \cup {x}]]
    <3> HIDE DEF x, n
    <3>1. got \in [Worker -> [Loads -> SUBSET Row]]
      BY <1>1 DEF TypeOK
    <3>2. /\ got'[w] = [got[w] EXCEPT ![load[w]] = got[w][load[w]] \cup {x}]
          /\ \A v \in Worker : v # w => got'[v] = got[v]
      BY <2>4, <3>1
    <3>3. /\ got'[w][load[w]] = got[w][load[w]] \cup {x}
          /\ \A k \in Loads : k # load[w] => got'[w][k] = got[w][k]
      BY <2>1, <3>1, <3>2
    <3>6. \E k \in Loads : x \in got'[w][k]
      <4>1. x \in got'[w][load[w]]
        BY <3>3
      <4>2. QED
        BY <2>1, <4>1
    <3>7. \A v \in Worker : \A y \in Row : v # w \/ y # x =>
             \A k \in Loads : y \in got'[v][k] <=> y \in got[v][k]
      BY <3>2, <3>3
    <3>8. /\ \A v \in Worker : \A y \in Row :
                Given[v][y] = IF \E k \in Loads : y \in got[v][k] THEN 1 ELSE 0
          /\ \A v \in Worker : \A y \in Row :
                Given'[v][y] = IF \E k \in Loads : y \in got'[v][k] THEN 1 ELSE 0
      BY DEF Given
    <3>9. Given'[w][x] = 1
      BY <2>4, <3>6, <3>8
    <3>10. \A v \in Worker : \A y \in Row : v # w \/ y # x => Given'[v][y] = Given[v][y]
      BY <3>7, <3>8
    <3>11. Given' = [Given EXCEPT ![w][x] = 1]
      <4> DEFINE G == [Given EXCEPT ![w][x] = 1]
      <4>1. /\ Given \in [Worker -> [Row -> {0, 1}]]
            /\ Given' \in [Worker -> [Row -> {0, 1}]]
        BY DEF Given
      <4>2. /\ G \in [Worker -> [Row -> {0, 1}]]
            /\ G[w][x] = 1
            /\ \A v \in Worker : \A y \in Row : v # w \/ y # x => G[v][y] = Given[v][y]
        BY <2>4, <4>1
      <4> HIDE DEF G
      <4>3. \A v \in Worker : \A y \in Row : Given'[v][y] = G[v][y]
        BY <3>9, <3>10, <4>2
      <4>4. \A v \in Worker : Given'[v] = G[v]
        BY <4>1, <4>2, <4>3
      <4>5. Given' = G
        BY <4>1, <4>2, <4>4
      <4>6. QED
        BY <4>5 DEF G
    <3>12. CASE Given[w][x] = 1
      <4>1. Given' = Given
        <5>1. /\ Given \in [Worker -> [Row -> {0, 1}]]
              /\ Given' \in [Worker -> [Row -> {0, 1}]]
          BY DEF Given
        <5>2. \A v \in Worker : \A y \in Row : Given'[v][y] = Given[v][y]
          BY <3>9, <3>10, <3>12
        <5>3. \A v \in Worker : Given'[v] = Given[v]
          BY <5>1, <5>2
        <5>4. QED
          BY <5>1, <5>3
      <4>2. QED
        BY <2>2, <4>1
    <3>13. CASE Given[w][x] # 1
      <4>1. ASSUME NEW v \in Worker PROVE Given[v][x] = 0
        <5>1. CASE v = w
          BY <2>4, <3>8, <3>13, <5>1
        <5>2. CASE v # w
          <6>1. Has(w, x)
            BY <2>1 DEF Has, x
          <6>2. ~Has(v, x)
            BY <1>1, <2>4, <5>2, <6>1 DEF OneReader
          <6>3. ~\E k \in Loads : x \in got[v][k]
            BY <6>2 DEF Has
          <6>4. QED
            BY <2>4, <3>8, <6>3
        <5>3. QED
          BY <5>1, <5>2
      <4>2. PICK y \in Row : y = x
        BY <2>4
      <4>3. Distribution!Take(w, y)
        BY <2>2, <3>11, <4>1, <4>2 DEF Distribution!Take, Given, DoneWorkers
      <4>4. QED
        BY <4>3 DEF Distribution!Next
    <3>14. QED
      BY <3>12, <3>13
  <2>5. QED
    BY <2>1, <2>3, <2>4
<1>8. ASSUME NEW w \in Worker, FetchNothing(w)
      PROVE  [Distribution!Next]_<<Given, DoneWorkers>>
  <2>1. /\ pc[w] = "answered" /\ UNCHANGED got
        /\ pc' = [pc EXCEPT ![w] = IF load[w] = Len(Program) THEN "done" ELSE "next"]
    BY <1>8 DEF FetchNothing, LoadEnds
  <2>2. CASE load[w] # Len(Program)
    BY <1>1, <1>2, <2>1, <2>2
  <2>3. CASE load[w] = Len(Program)
    <3>1. w \notin DoneWorkers /\ DoneWorkers' = DoneWorkers \cup {w} /\ Given' = Given
      BY <1>1, <2>1, <2>3 DEF DoneWorkers, Given
    <3>2. ASSUME DoneWorkers' = Worker, NEW x \in Row
          PROVE  \E v \in Worker : Given[v][x] = 1
      BY <3>1, <3>2 DEF AllGiven
    <3>3. Distribution!Stop(w)
      BY <3>1, <3>2 DEF Distribution!Stop, Given, DoneWorkers
    <3>4. QED
      BY <3>3 DEF Distribution!Next
  <2>4. QED
    BY <2>2, <2>3
<1>9. QED
  BY <1>3, <1>4, <1>5, <1>6, <1>7, <1>8 DEF Next, WorkerStep

\* The workers of ParquetInput and their master implement RowDistribution:
\* each row is taken by one worker, and nobody is the last to stop before all
\* rows are taken.
THEOREM ImplementsDistribution ==
    ASSUME ReadsEveryFile
    PROVE  Spec => Distribution!Spec
<1>1. Init => IndInv /\ Ownership /\ CountsWorkers
  BY TypesInit, OwnershipInit, CountsInit
<1>2. Init => RefInv
  BY <1>1, RefInit DEF RefInv
<1>3. ASSUME RefInv, [Next]_vars PROVE RefInv'
  <2>1. IndInv' /\ Ownership' /\ CountsWorkers'
    BY <1>3, TypesStep, OwnershipStep, CountsInduction DEF RefInv, Ownership, ReadsEveryFile
  <2>2. UsedUp' /\ TakenIsGot'
    BY <1>3, LinesStep DEF RefInv, ReadsEveryFile, AllLoadsAnswered
  <2>3. ToldIsReadUp' /\ NoneMissing'
    BY <1>3, NoneMissingStep
  <2>4. QED
    BY <2>1, <2>2, <2>3 DEF RefInv
<1>4. RefInv => AllGiven
  BY RefInvGives
<1>5. ASSUME Init PROVE Distribution!Init
  <2>1. /\ \A w \in Worker : \A k \in Loads : \A x \in Row : ~(x \in got[w][k])
        /\ \A w \in Worker : pc[w] # "done"
    <3>1. \A w \in Worker : \A k \in Loads : \A x \in Row : x \notin got[w][k]
      BY <1>5 DEF Init
    <3>2. \A w \in Worker : pc[w] = "next"
      BY <1>5 DEF Init
    <3>3. QED
      BY <3>1, <3>2
  <2>2. Given = [w \in Worker |-> [x \in Row |-> 0]]
    BY <2>1 DEF Given
  <2>3. DoneWorkers = {}
    BY <2>1 DEF DoneWorkers
  <2>4. QED
    BY <2>2, <2>3 DEF Distribution!Init, Given, DoneWorkers
<1>6. RefInv /\ AllGiven' /\ [Next]_vars => [Distribution!Next]_(Distribution!vars)
  BY MapsToAStep DEF Distribution!vars, Given, DoneWorkers
<1>7. QED
  BY <1>2, <1>3, <1>4, <1>5, <1>6, PTL DEF Spec, Distribution!Spec
=============================================================================
