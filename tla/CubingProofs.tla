---------------------------- MODULE CubingProofs ----------------------------
(***************************************************************************)
(* For every number of workers and rows, every tree of cuboids and every   *)
(* way keys are hashed to workers: nobody gets more than one level ahead,  *)
(* and, where keys keep the columns of their cuboids, what is written is   *)
(* the cube and nothing else, each group once.                             *)
(***************************************************************************)
EXTENDS CubingByLayer, TLAPS

\* The layers, as sets of cuboids.
LEMMA LayerFacts ==
    /\ total_levels \in Nat
    /\ Len(Layers) = total_levels + 1
    /\ \A i \in 0 .. total_levels : LayerOf(i) \in SUBSET CuboidId
    /\ LayerOf(0) = {base_cuboid_id}
    /\ \A i \in 0 .. total_levels : \A p \in LayerOf(i) : \A c \in Spanning[p] :
         i < total_levels /\ c \in LayerOf(i + 1)
    /\ \A i \in 1 .. total_levels : \A c \in LayerOf(i) :
         \E p \in LayerOf(i - 1) : c \in Spanning[p]
<1>1. /\ Layers \in Seq(SUBSET CuboidId)
      /\ Layers # <<>>
      /\ Layers[1] = {base_cuboid_id}
      /\ \A i \in 1 .. Len(Layers) :
           UNION {Spanning[p] : p \in Layers[i]}
             = IF i = Len(Layers) THEN {} ELSE Layers[i + 1]
  BY TreeAssumption
<1>2. Len(Layers) \in Nat \ {0}
  BY <1>1
<1>3. total_levels \in Nat /\ Len(Layers) = total_levels + 1
  BY <1>2 DEF total_levels
<1>4. \A i \in 0 .. total_levels : LayerOf(i) \in SUBSET CuboidId
  BY <1>1, <1>3 DEF LayerOf
<1>5. LayerOf(0) = {base_cuboid_id}
  BY <1>1 DEF LayerOf
<1>6. ASSUME NEW i \in 0 .. total_levels, NEW p \in LayerOf(i), NEW c \in Spanning[p]
      PROVE  i < total_levels /\ c \in LayerOf(i + 1)
  <2>1. i + 1 \in 1 .. Len(Layers) /\ p \in Layers[i + 1]
    BY <1>3 DEF LayerOf
  <2>2. c \in IF i + 1 = Len(Layers) THEN {} ELSE Layers[i + 1 + 1]
    BY <1>1, <2>1
  <2>3. QED
    BY <1>3, <2>2 DEF LayerOf
<1>7. ASSUME NEW i \in 1 .. total_levels, NEW c \in LayerOf(i)
      PROVE  \E p \in LayerOf(i - 1) : c \in Spanning[p]
  <2>1. i \in 1 .. Len(Layers) /\ i # Len(Layers) /\ (i - 1) + 1 = i
    BY <1>3
  <2>2. c \in UNION {Spanning[p] : p \in Layers[i]}
    BY <1>1, <2>1 DEF LayerOf
  <2>3. QED
    BY <2>1, <2>2 DEF LayerOf
<1>8. QED
  BY <1>3, <1>4, <1>5, <1>6, <1>7

\* A key is its cuboid and a value for each of the cuboid's columns.
LEMMA KeyFacts ==
    /\ \A k \in Key : /\ k.cuboid \in CuboidId
                      /\ k.cols \in [k.cuboid -> Value \cup {Blank}]
                      /\ k = [cuboid |-> k.cuboid, cols |-> k.cols]
    /\ \A c \in CuboidId : \A f \in [c -> Value \cup {Blank}] :
         [cuboid |-> c, cols |-> f] \in Key
  BY DEF Key

\* What is built from a key is a key.
LEMMA BuildKeyIsKey ==
    ASSUME NEW k \in Key, NEW c \in CuboidId
    PROVE  BuildKey(k, c) \in Key
<1> DEFINE f == [b \in c |-> IF b \in BitsLookedAt(k.cuboid) THEN k.cols[b] ELSE Blank]
<1>1. BitsLookedAt(k.cuboid) \subseteq k.cuboid
  BY DEF BitsLookedAt
<1>2. \A b \in k.cuboid : k.cols[b] \in Value \cup {Blank}
  BY KeyFacts
<1>3. f \in [c -> Value \cup {Blank}]
  BY <1>1, <1>2
<1>4. [cuboid |-> c, cols |-> f] \in Key
  BY <1>3, KeyFacts
<1>5. QED
  BY <1>4 DEF BuildKey

\* The keys that a record is pushed under are keys.
LEMMA PushedKeysAreKeys ==
    ASSUME NEW i \in Nat, NEW k \in Key
    PROVE  PushedKeys(i, k) \subseteq Key
<1>1. CASE i = 0
  BY <1>1 DEF PushedKeys
<1>2. CASE i # 0
  <2>1. \A c \in Spanning[k.cuboid] : c \in CuboidId
    BY KeyFacts, TreeAssumption
  <2>2. QED
    BY <1>2, <2>1, BuildKeyIsKey DEF PushedKeys
<1>3. QED
  BY <1>1, <1>2

\* Combined records are records.
LEMMA CombineKeepsMeasures ==
    ASSUME NEW f, NEW g,
           \A k \in DOMAIN f : f[k] \in Measure,
           \A k \in DOMAIN g : g[k] \in Measure,
           NEW k \in DOMAIN Combine(f, g)
    PROVE  Combine(f, g)[k] \in Measure
<1> DEFINE h == Combine(f, g)
<1>1. /\ DOMAIN h = DOMAIN f \cup DOMAIN g
      /\ \A x \in DOMAIN f \ DOMAIN g : h[x] = f[x]
      /\ \A x \in DOMAIN g \ DOMAIN f : h[x] = g[x]
      /\ \A x \in DOMAIN f \cap DOMAIN g : h[x] = [y \in RowId |-> f[x][y] + g[x][y]]
  BY DEF Combine
<1> HIDE DEF h
<1>2. CASE k \notin DOMAIN g
  BY <1>1, <1>2 DEF h
<1>3. CASE k \notin DOMAIN f
  BY <1>1, <1>3 DEF h
<1>4. CASE k \in DOMAIN f \cap DOMAIN g
  <2>1. f[k] \in [RowId -> Nat] /\ g[k] \in [RowId -> Nat]
    BY <1>4 DEF Measure
  <2>2. [y \in RowId |-> f[k][y] + g[k][y]] \in [RowId -> Nat]
    BY <2>1
  <2>3. QED
    BY <1>1, <1>4, <2>2 DEF h, Measure
<1>5. QED
  BY <1>1, <1>2, <1>3, <1>4 DEF h

-----------------------------------------------------------------------------
\* The types of one worker's variables.
LEMMA WorkerTypes ==
    ASSUME TypeOK, NEW w \in Worker
    PROVE  /\ pc[w] \in {"push", "prepare", "done"}
           /\ level[w] \in 0 .. total_levels
           /\ level[w] \in Nat
           /\ \A r \in todo[w] : r.key \in Key /\ r.rows \in Measure
           /\ \A k \in DOMAIN buf[w] : k \in Key /\ buf[w][k] \in Measure
           /\ heard[w] \subseteq Worker
           /\ \A k \in DOMAIN objlist[w] :
                k \in Key /\ Owner[k] = w /\ objlist[w][k] \in Measure
  BY LayerFacts DEF TypeOK

\* Each step keeps the types: a record is pushed,
LEMMA PushTypes ==
    ASSUME TypeOK, NEW w \in Worker, NEW r \in todo[w], Push(w, r)
    PROVE  TypeOK'
<1> DEFINE pushed == [k \in PushedKeys(level[w], r.key) |-> r.rows]
<1>1. \A k \in DOMAIN pushed : k \in Key /\ pushed[k] \in Measure
  BY WorkerTypes, PushedKeysAreKeys
<1>2. buf' = [buf EXCEPT ![w] = Combine(buf[w], pushed)]
  BY DEF Push
<1> HIDE DEF pushed
<1>3. \A k \in DOMAIN Combine(buf[w], pushed) :
         k \in Key /\ Combine(buf[w], pushed)[k] \in Measure
  <2>1. DOMAIN Combine(buf[w], pushed) = DOMAIN buf[w] \cup DOMAIN pushed
    BY DEF Combine
  <2>2. QED
    BY <1>1, <2>1, WorkerTypes, CombineKeepsMeasures
<1>4. DOMAIN buf' = Worker /\ \A v \in Worker : \A k \in DOMAIN buf'[v] :
         k \in Key /\ buf'[v][k] \in Measure
  BY <1>2, <1>3 DEF TypeOK
<1>5. todo' \in [Worker -> SUBSET [key : Key, rows : Measure]]
  BY DEF TypeOK, Push
<1>6. UNCHANGED <<pc, level, channel, heard, objlist>>
  BY DEF Push
<1>7. QED
  BY <1>4, <1>5, <1>6 DEF TypeOK

\* The parts a worker sends.
LEMMA PartFacts ==
    ASSUME TypeOK, NEW w \in Worker, NEW m \in Parts(w)
    PROVE  /\ m.from = w /\ m.to \in Worker /\ m.level = level[w]
           /\ m = PartFor(w, m.to)
           /\ DOMAIN m.part = {k \in DOMAIN buf[w] : Owner[k] = m.to}
           /\ \A k \in DOMAIN m.part : m.part[k] = buf[w][k]
<1>1. PICK v \in Worker : m = PartFor(w, v)
  BY DEF Parts
<1>2. /\ m.from = w /\ m.to = v /\ m.level = level[w]
      /\ m.part = [k \in {x \in DOMAIN buf[w] : Owner[x] = v} |-> buf[w][k]]
  BY <1>1 DEF PartFor
<1>3. QED
  BY <1>1, <1>2

\* a worker flushes what it has for the others,
LEMMA FlushTypes ==
    ASSUME TypeOK, NEW w \in Worker, Flush(w)
    PROVE  TypeOK'
<1>1. \A m \in channel' :
         /\ m.from \in Worker /\ m.to \in Worker /\ m.level \in 0 .. total_levels
         /\ \A k \in DOMAIN m.part : k \in Key /\ Owner[k] = m.to /\ m.part[k] \in Measure
  <2> TAKE m \in channel'
  <2>1. CASE m \in channel
    BY <2>1 DEF TypeOK
  <2>2. CASE m \in Parts(w)
    BY <2>2, PartFacts, WorkerTypes
  <2>3. QED
    BY <2>1, <2>2 DEF Flush
<1>2. DOMAIN buf' = Worker /\ \A v \in Worker : \A k \in DOMAIN buf'[v] :
         k \in Key /\ buf'[v][k] \in Measure
  <2>1. DOMAIN NoRecord = {}
    BY DEF NoRecord
  <2>2. QED
    BY <2>1 DEF Flush, TypeOK
<1>3. pc' \in [Worker -> {"push", "prepare", "done"}]
  BY DEF Flush, TypeOK
<1>4. UNCHANGED <<level, todo, heard, objlist>>
  BY DEF Flush
<1>5. QED
  BY <1>1, <1>2, <1>3, <1>4 DEF TypeOK

\* a part arrives,
LEMMA ReceiveTypes ==
    ASSUME TypeOK, NEW w \in Worker, NEW m \in channel, Receive(w, m)
    PROVE  TypeOK'
<1>1. \A k \in DOMAIN m.part : k \in Key /\ Owner[k] = w /\ m.part[k] \in Measure
  BY DEF TypeOK, Receive
<1>2. \A k \in DOMAIN Combine(objlist[w], m.part) :
         k \in Key /\ Owner[k] = w /\ Combine(objlist[w], m.part)[k] \in Measure
  <2>1. DOMAIN Combine(objlist[w], m.part) = DOMAIN objlist[w] \cup DOMAIN m.part
    BY DEF Combine
  <2>2. QED
    BY <1>1, <2>1, WorkerTypes, CombineKeepsMeasures
<1>3. objlist' = [objlist EXCEPT ![w] = Combine(objlist[w], m.part)]
  BY DEF Receive
<1>4. DOMAIN objlist' = Worker /\ \A v \in Worker : \A k \in DOMAIN objlist'[v] :
         k \in Key /\ Owner[k] = v /\ objlist'[v][k] \in Measure
  BY <1>2, <1>3 DEF TypeOK
<1>5. heard' \in [Worker -> SUBSET Worker]
  <2>1. m.from \in Worker
    BY DEF TypeOK
  <2>2. QED
    BY <2>1 DEF TypeOK, Receive
<1>6. channel' \subseteq channel
  BY DEF Receive
<1>7. UNCHANGED <<pc, level, todo, buf>>
  BY DEF Receive
<1>8. QED
  BY <1>4, <1>5, <1>6, <1>7 DEF TypeOK

\* a level is saved and becomes the source of the next.
LEMMA SaveTypes ==
    ASSUME TypeOK, NEW w \in Worker, Save(w)
    PROVE  TypeOK'
<1>1. Records(objlist[w]) \in SUBSET [key : Key, rows : Measure]
  BY WorkerTypes DEF Records
<1>2. todo' \in [Worker -> SUBSET [key : Key, rows : Measure]]
  BY <1>1 DEF TypeOK, Save
<1>3. level' \in [Worker -> 0 .. total_levels]
  BY WorkerTypes, LayerFacts DEF TypeOK, Save
<1>4. pc' \in [Worker -> {"push", "prepare", "done"}]
  BY DEF TypeOK, Save
<1>5. heard' \in [Worker -> SUBSET Worker]
  BY DEF TypeOK, Save
<1>6. DOMAIN objlist' = Worker /\ \A v \in Worker : \A k \in DOMAIN objlist'[v] :
         k \in Key /\ Owner[k] = v /\ objlist'[v][k] \in Measure
  <2>1. DOMAIN NoRecord = {}
    BY DEF NoRecord
  <2>2. QED
    BY <2>1 DEF Save, TypeOK
<1>7. UNCHANGED <<buf, channel>>
  BY DEF Save
<1>8. QED
  BY <1>2, <1>3, <1>4, <1>5, <1>6, <1>7 DEF TypeOK

-----------------------------------------------------------------------------
\* At the start every worker is on level 0 and nothing is under way.
LEMMA ProtocolInit ==
    ASSUME Init
    PROVE  Protocol
<1>1. DOMAIN NoRecord = {}
  BY DEF NoRecord
<1>2. 0 \in 0 .. total_levels /\ \A i \in 0 .. total_levels : ~(0 > i)
  BY LayerFacts
<1>3. TypeOK
  <2>1. todo \in [Worker -> SUBSET [key : Key, rows : Measure]]
    <3>1. PICK home \in [RowId -> Worker] :
            todo = [w \in Worker |-> {[key |-> BaseKey(RowOf[x]), rows |-> OnlyRow(x)] :
                                         x \in {y \in RowId : home[y] = w}}]
      BY DEF Init
    <3>2. \A x \in RowId : OnlyRow(x) \in Measure
      BY DEF OnlyRow, Measure
    <3>3. \A x \in RowId : BaseKey(RowOf[x]) \in Key
      <4> TAKE x \in RowId
      <4>1. RowOf[x] \in [Bit -> Value \cup {Blank}] /\ Bit \in CuboidId
        BY TableAssumption DEF CuboidId
      <4>2. QED
        BY <4>1, KeyFacts DEF BaseKey, base_cuboid_id
    <3>4. QED
      BY <3>1, <3>2, <3>3
  <2>2. QED
    BY <1>1, <1>2, <2>1 DEF Init, TypeOK
<1>4. EmptyBetween
  BY <1>1 DEF Init, EmptyBetween
<1>5. SavedAfterAll
  BY <1>2 DEF Init, SavedAfterAll, Saved
<1>6. PartsAreNew
  BY DEF Init, PartsAreNew
<1>7. QED
  BY <1>3, <1>4, <1>5, <1>6 DEF Protocol

\* Neither pushing nor receiving moves a worker to another level.
LEMMA PushKeepsProtocol ==
    ASSUME Protocol, NEW w \in Worker, NEW r \in todo[w], Push(w, r)
    PROVE  Protocol'
<1>1. TypeOK'
  BY PushTypes DEF Protocol
<1>2. /\ UNCHANGED <<pc, level, channel, heard, objlist>>
      /\ pc[w] = "push"
      /\ \A v \in Worker \ {w} : todo'[v] = todo[v] /\ buf'[v] = buf[v]
  BY DEF Push, Protocol, TypeOK
<1>3. EmptyBetween'
  BY <1>2 DEF Protocol, EmptyBetween
<1>4. SavedAfterAll'
  BY <1>2 DEF Protocol, SavedAfterAll, Saved, Flushed
<1>5. PartsAreNew'
  BY <1>2 DEF Protocol, PartsAreNew, Saved, Flushed
<1>6. QED
  BY <1>1, <1>3, <1>4, <1>5 DEF Protocol

\* A worker that flushes has one part of its level under way to each worker.
LEMMA FlushKeepsProtocol ==
    ASSUME Protocol, NEW w \in Worker, Flush(w)
    PROVE  Protocol'
<1>1. TypeOK'
  BY FlushTypes DEF Protocol
<1>2. /\ UNCHANGED <<level, todo, heard, objlist>>
      /\ pc[w] = "push" /\ todo[w] = {}
      /\ pc'[w] = "prepare" /\ DOMAIN buf'[w] = {}
      /\ \A v \in Worker \ {w} : pc'[v] = pc[v] /\ buf'[v] = buf[v]
      /\ channel' = channel \cup Parts(w)
  BY DEF Flush, Protocol, TypeOK, NoRecord
<1>3. EmptyBetween'
  BY <1>2 DEF Protocol, EmptyBetween
<1>4. /\ \A v \in Worker, i \in Nat : Flushed(v, i) => Flushed(v, i)'
      /\ \A v \in Worker, i \in Nat : Saved(v, i)' <=> Saved(v, i)
      /\ Flushed(w, level[w])' /\ ~Flushed(w, level[w])
  BY <1>2, WorkerTypes DEF Flushed, Saved, Protocol
<1>5. SavedAfterAll'
  BY <1>2, <1>4, WorkerTypes, LayerFacts DEF Protocol, SavedAfterAll
<1>6. PartsAreNew'
  <2>1. ASSUME NEW m \in channel
        PROVE  /\ m.from \in Worker /\ m.to \in Worker /\ m.level \in Nat
               /\ Flushed(m.from, m.level)' /\ ~Saved(m.to, m.level)'
               /\ m.level = level'[m.to] => m.from \notin heard'[m.to]
               /\ m.from = w => m.level # level[w]
    <3>1. m.from \in Worker /\ m.to \in Worker /\ m.level \in Nat
      BY LayerFacts DEF Protocol, TypeOK
    <3>2. /\ Flushed(m.from, m.level) /\ ~Saved(m.to, m.level)
          /\ m.level = level[m.to] => m.from \notin heard[m.to]
      BY DEF Protocol, PartsAreNew
    <3>3. QED
      BY <1>2, <1>4, <3>1, <3>2
  <2>2. ASSUME NEW m \in Parts(w)
        PROVE  /\ Flushed(m.from, m.level)' /\ ~Saved(m.to, m.level)'
               /\ m.level = level'[m.to] => m.from \notin heard'[m.to]
    <3>1. m.from = w /\ m.to \in Worker /\ m.level = level[w]
      BY PartFacts DEF Protocol
    <3>2. level[w] \in 0 .. total_levels /\ level[w] \in Nat
      BY WorkerTypes DEF Protocol
    <3>3. ~Saved(m.to, level[w])
      BY <1>4, <3>1, <3>2 DEF Protocol, SavedAfterAll
    <3>4. level[w] = level[m.to] => w \notin heard[m.to]
      BY <1>4, <3>1 DEF Protocol, SavedAfterAll
    <3>5. QED
      BY <1>2, <1>4, <3>1, <3>2, <3>3, <3>4
  <2>3. ASSUME NEW m \in channel', NEW n \in channel',
               m.from = n.from, m.to = n.to, m.level = n.level
        PROVE  m = n
    <3>1. CASE m \in channel /\ n \in channel
      BY <2>3, <3>1 DEF Protocol, PartsAreNew
    <3>2. CASE m \in Parts(w) /\ n \in Parts(w)
      BY <2>3, <3>2, PartFacts DEF Protocol
    <3>3. CASE m \in channel /\ n \in Parts(w)
      BY <2>1, <2>3, <3>3, PartFacts DEF Protocol
    <3>4. CASE m \in Parts(w) /\ n \in channel
      BY <2>1, <2>3, <3>4, PartFacts DEF Protocol
    <3>5. QED
      BY <1>2, <3>1, <3>2, <3>3, <3>4
  <2>4. QED
    BY <1>2, <2>1, <2>2, <2>3 DEF PartsAreNew
<1>7. QED
  BY <1>1, <1>3, <1>5, <1>6 DEF Protocol

\* A part that arrives is heard, and is no longer under way.
LEMMA ReceiveKeepsProtocol ==
    ASSUME Protocol, NEW w \in Worker, NEW m \in channel, Receive(w, m)
    PROVE  Protocol'
<1>1. TypeOK'
  BY ReceiveTypes DEF Protocol
<1>2. /\ UNCHANGED <<pc, level, todo, buf>>
      /\ pc[w] = "prepare" /\ m.to = w /\ m.level = level[w] /\ m.from \in Worker
      /\ heard'[w] = heard[w] \cup {m.from}
      /\ \A v \in Worker \ {w} : heard'[v] = heard[v] /\ objlist'[v] = objlist[v]
      /\ channel' = channel \ {m}
  BY DEF Receive, Protocol, TypeOK
<1>3. EmptyBetween'
  BY <1>2 DEF Protocol, EmptyBetween
<1>4. /\ \A v, i : Flushed(v, i)' <=> Flushed(v, i)
      /\ \A v, i : Saved(v, i)' <=> Saved(v, i)
  BY <1>2 DEF Flushed, Saved
<1>5. SavedAfterAll'
  <2>1. Flushed(m.from, level[w])
    BY <1>2 DEF Protocol, PartsAreNew
  <2>2. ASSUME NEW u \in Worker, NEW v \in heard'[u]
        PROVE  Flushed(v, level[u])
    BY <1>2, <2>1 DEF Protocol, SavedAfterAll
  <2>3. QED
    BY <1>2, <1>4, <2>2 DEF Protocol, SavedAfterAll
<1>6. PartsAreNew'
  <2>1. ASSUME NEW n \in channel', n.level = level'[n.to]
        PROVE  n.from \notin heard'[n.to]
    <3>1. n \in channel /\ n # m /\ n.from \notin heard[n.to] /\ n.to \in Worker
      BY <1>2, <2>1 DEF Protocol, PartsAreNew, TypeOK
    <3>2. CASE n.to = w
      <4>1. n.from # m.from
        BY <1>2, <2>1, <3>1, <3>2 DEF Protocol, PartsAreNew
      <4>2. QED
        BY <1>2, <3>1, <3>2, <4>1
    <3>3. QED
      BY <1>2, <3>1, <3>2
  <2>2. QED
    BY <1>2, <1>4, <2>1 DEF Protocol, PartsAreNew
<1>7. QED
  BY <1>1, <1>3, <1>5, <1>6 DEF Protocol

\* What saving a level does to the workers' levels.
LEMMA SaveFacts ==
    ASSUME Protocol, NEW w \in Worker, Save(w)
    PROVE  /\ pc[w] = "prepare" /\ heard[w] = Worker
           /\ UNCHANGED <<buf, channel>>
           /\ heard'[w] = {} /\ DOMAIN objlist'[w] = {}
           /\ \A v \in Worker \ {w} :
                /\ pc'[v] = pc[v] /\ level'[v] = level[v] /\ todo'[v] = todo[v]
                /\ heard'[v] = heard[v] /\ objlist'[v] = objlist[v]
           /\ \/ /\ level[w] = total_levels /\ level'[w] = level[w]
                 /\ pc'[w] = "done" /\ todo'[w] = {}
              \/ /\ level[w] < total_levels /\ level'[w] = level[w] + 1
                 /\ pc'[w] = "push" /\ todo'[w] = Records(objlist[w])
           /\ \A v \in Worker : Flushed(v, level[w])
           /\ ~Saved(w, level[w])
           /\ \A v \in Worker, i \in Nat : Flushed(v, i)' <=> Flushed(v, i)
           /\ \A v \in Worker, i \in Nat :
                Saved(v, i)' <=> (Saved(v, i) \/ (v = w /\ i = level[w]))
<1>1. DOMAIN NoRecord = {}
  BY DEF NoRecord
<1>2. level[w] \in 0 .. total_levels /\ total_levels \in Nat /\ level[w] \in Nat
  BY WorkerTypes, LayerFacts DEF Protocol
<1>3. pc[w] = "prepare" /\ heard[w] = Worker /\ todo[w] = {}
  BY DEF Save, AllHeard, Protocol, EmptyBetween
<1>4. /\ UNCHANGED <<buf, channel>>
      /\ heard'[w] = {} /\ DOMAIN objlist'[w] = {}
      /\ \A v \in Worker \ {w} :
           /\ pc'[v] = pc[v] /\ level'[v] = level[v] /\ todo'[v] = todo[v]
           /\ heard'[v] = heard[v] /\ objlist'[v] = objlist[v]
  BY <1>1 DEF Save, Protocol, TypeOK
<1>5. \/ /\ level[w] = total_levels /\ level'[w] = level[w]
         /\ pc'[w] = "done" /\ todo'[w] = {}
      \/ /\ level[w] < total_levels /\ level'[w] = level[w] + 1
         /\ pc'[w] = "push" /\ todo'[w] = Records(objlist[w])
  BY <1>2, <1>3 DEF Save, Protocol, TypeOK
<1>6. \A v \in Worker : Flushed(v, level[w])
  BY <1>3 DEF Protocol, SavedAfterAll
<1>7. ~Saved(w, level[w])
  BY <1>2, <1>3 DEF Saved
<1>8. ASSUME NEW v \in Worker, NEW i \in Nat
      PROVE  /\ Flushed(v, i)' <=> Flushed(v, i)
             /\ Saved(v, i)' <=> (Saved(v, i) \/ (v = w /\ i = level[w]))
  <2>1. CASE v = w
    BY <1>2, <1>3, <1>5, <2>1 DEF Flushed, Saved
  <2>2. CASE v # w
    BY <1>4, <2>2 DEF Flushed, Saved
  <2>3. QED
    BY <2>1, <2>2
<1>9. QED
  BY <1>3, <1>4, <1>5, <1>6, <1>7, <1>8

\* A worker goes on when it has heard all of them.
LEMMA SaveKeepsProtocol ==
    ASSUME Protocol, NEW w \in Worker, Save(w)
    PROVE  Protocol'
<1>1. TypeOK'
  BY SaveTypes DEF Protocol
<1>2. level[w] \in 0 .. total_levels /\ total_levels \in Nat /\ level[w] \in Nat
  BY WorkerTypes, LayerFacts DEF Protocol
<1>3. EmptyBetween'
  <2>1. DOMAIN buf[w] = {}
    BY SaveFacts DEF Protocol, EmptyBetween
  <2>2. ASSUME NEW v \in Worker
        PROVE  /\ pc'[v] # "push" => todo'[v] = {} /\ DOMAIN buf'[v] = {}
               /\ pc'[v] # "prepare" => heard'[v] = {} /\ DOMAIN objlist'[v] = {}
               /\ pc'[v] = "done" => level'[v] = total_levels
    <3>1. CASE v = w
      BY <2>1, <3>1, SaveFacts
    <3>2. CASE v # w
      BY <3>2, SaveFacts DEF Protocol, EmptyBetween
    <3>3. QED
      BY <3>1, <3>2
  <2>3. total_levels' = total_levels
    BY DEF total_levels
  <2>4. QED
    BY <2>2, <2>3 DEF EmptyBetween
<1>4. SavedAfterAll'
  <2>1. ASSUME NEW u \in Worker, NEW i \in 0 .. total_levels, Saved(u, i)',
               NEW v \in Worker
        PROVE  Flushed(v, i)'
    <3>1. i \in Nat
      BY <1>2
    <3>2. CASE Saved(u, i)
      BY <3>1, <3>2, SaveFacts DEF Protocol, SavedAfterAll
    <3>3. CASE u = w /\ i = level[w]
      BY <3>1, <3>3, SaveFacts
    <3>4. QED
      BY <2>1, <3>1, <3>2, <3>3, SaveFacts
  <2>2. ASSUME NEW u \in Worker, NEW v \in heard'[u]
        PROVE  Flushed(v, level[u])'
    <3>1. u # w /\ v \in heard[u] /\ level'[u] = level[u]
      BY SaveFacts
    <3>2. Flushed(v, level[u]) /\ v \in Worker /\ level[u] \in Nat
      BY <3>1, WorkerTypes DEF Protocol, SavedAfterAll
    <3>3. \A i \in Nat : Flushed(v, i) => Flushed(v, i)'
      BY <3>2, SaveFacts
    <3>4. QED
      BY <3>1, <3>2, <3>3 DEF Flushed
  <2>3. QED
    BY <2>1, <2>2 DEF SavedAfterAll, total_levels
<1>5. PartsAreNew'
  <2>1. channel' = channel
    BY SaveFacts
  <2>2. ASSUME NEW m \in channel
        PROVE  /\ Flushed(m.from, m.level)'
               /\ ~Saved(m.to, m.level)'
               /\ m.level = level'[m.to] => m.from \notin heard'[m.to]
    <3>1. m.from \in Worker /\ m.to \in Worker /\ m.level \in Nat
      BY <1>2 DEF Protocol, TypeOK
    <3>2. /\ Flushed(m.from, m.level) /\ ~Saved(m.to, m.level)
          /\ m.level = level[m.to] => m.from \notin heard[m.to]
      BY DEF Protocol, PartsAreNew
    <3>3. ~(m.to = w /\ m.level = level[w])
      BY <3>1, <3>2, SaveFacts
    <3>4. m.level = level'[m.to] => m.from \notin heard'[m.to]
      <4>1. CASE m.to = w
        BY <4>1, SaveFacts
      <4>2. CASE m.to # w
        BY <3>1, <3>2, <4>2, SaveFacts
      <4>3. QED
        BY <4>1, <4>2
    <3>5. QED
      BY <3>1, <3>2, <3>3, <3>4, SaveFacts
  <2>3. QED
    BY <2>1, <2>2 DEF Protocol, PartsAreNew
<1>6. QED
  BY <1>1, <1>3, <1>4, <1>5 DEF Protocol

\* So every step keeps the workers in step.
LEMMA ProtocolStep ==
    ASSUME Protocol, [Next]_vars
    PROVE  Protocol'
<1>1. ASSUME NEW w \in Worker, WorkerStep(w)
      PROVE  Protocol'
  <2>1. CASE \E r \in todo[w] : Push(w, r)
    BY <2>1, PushKeepsProtocol
  <2>2. CASE Flush(w)
    BY <2>2, FlushKeepsProtocol
  <2>3. CASE \E m \in channel : Receive(w, m)
    BY <2>3, ReceiveKeepsProtocol
  <2>4. CASE Save(w)
    BY <2>4, SaveKeepsProtocol
  <2>5. QED
    BY <1>1, <2>1, <2>2, <2>3, <2>4 DEF WorkerStep
<1>2. CASE UNCHANGED vars
  BY <1>2 DEF vars, Protocol, TypeOK, EmptyBetween, SavedAfterAll, PartsAreNew,
              Flushed, Saved
<1>3. QED
  BY <1>1, <1>2 DEF Next

\* The types of the workers' variables and of the parts on their way.
THEOREM TypeCorrect == Spec => []TypeOK
<1>1. Init => Protocol
  BY ProtocolInit
<1>2. Protocol /\ [Next]_vars => Protocol'
  BY ProtocolStep
<1>3. Protocol => TypeOK
  BY DEF Protocol
<1>4. QED
  BY <1>1, <1>2, <1>3, PTL DEF Spec

\* No worker is more than one level ahead of another, though nothing but the
\* parts it waits for holds it back.
THEOREM InStep == Spec => []LevelsInStep
<1>1. Protocol => LevelsInStep
  <2> SUFFICES ASSUME Protocol
               PROVE  LevelsInStep
    OBVIOUS
  <2>1. ASSUME NEW v \in Worker, NEW w \in Worker
        PROVE  level[v] <= level[w] + 1
    <3>1. /\ level[v] \in Nat /\ level[w] \in Nat
          /\ level[v] \in 0 .. total_levels /\ total_levels \in Nat
      BY WorkerTypes, LayerFacts DEF Protocol
    <3>2. CASE level[v] > 0
      <4>1. Saved(v, level[v] - 1) /\ level[v] - 1 \in 0 .. total_levels
        BY <3>1, <3>2 DEF Saved
      <4>2. Flushed(w, level[v] - 1)
        BY <4>1 DEF Protocol, SavedAfterAll
      <4>3. QED
        BY <3>1, <4>2 DEF Flushed
    <3>3. QED
      BY <3>1, <3>2
  <2>2. ASSUME NEW m \in channel
        PROVE  m.level \in {level[m.to], level[m.to] + 1}
    <3>1. m.from \in Worker /\ m.to \in Worker /\ m.level \in Nat
      BY LayerFacts DEF Protocol, TypeOK
    <3>2. level[m.from] \in Nat /\ level[m.to] \in Nat
      BY <3>1, WorkerTypes DEF Protocol
    <3>3. level[m.from] >= m.level /\ m.level >= level[m.to]
      BY <3>1, <3>2 DEF Protocol, PartsAreNew, Flushed, Saved
    <3>4. level[m.from] <= level[m.to] + 1
      BY <2>1, <3>1
    <3>5. QED
      BY <3>1, <3>2, <3>3, <3>4
  <2>3. QED
    BY <2>1, <2>2 DEF LevelsInStep
<1>2. QED
  BY <1>1, ProtocolInit, ProtocolStep, PTL DEF Spec

-----------------------------------------------------------------------------
\* t is s with the stock at a combined into the one at d, of the same level.
Merges(s, t, a, d) ==
    /\ a \in DOMAIN s /\ d \in DOMAIN s /\ a # d
    /\ DOMAIN t = DOMAIN s \ {a}
    /\ s[a].level = s[d].level /\ t[d].level = s[d].level
    /\ t[d].records = Combine(s[d].records, s[a].records)
    /\ \A g \in DOMAIN s \ {a, d} : t[g] = s[g]

\* t is s with the stock at b split by keys into new ones, at P.
Splits(s, t, b, P) ==
    /\ b \in DOMAIN s
    /\ DOMAIN t = DOMAIN s \cup P /\ P \cap DOMAIN s = {}
    /\ DOMAIN t[b].records = {}
    /\ \A g \in DOMAIN s \ {b} : t[g] = s[g]
    /\ \A p \in P : /\ t[p].level = s[b].level
                    /\ DOMAIN t[p].records \subseteq DOMAIN s[b].records
                    /\ \A k \in DOMAIN t[p].records : t[p].records[k] = s[b].records[k]
    /\ \A k \in DOMAIN s[b].records : \E p \in P : k \in DOMAIN t[p].records
    /\ \A p, q \in P : \A k \in DOMAIN t[p].records \cap DOMAIN t[q].records : p = q

\* Stocks that are combined count different rows.
LEMMA MergeKeeps ==
    ASSUME NEW s, NEW t, NEW a, NEW d, Merges(s, t, a, d), Sound(s), CountedOnce(s)
    PROVE  /\ Sound(t)
           /\ CountedOnce(t)
           /\ \A i, k : \A y \in RowId : Counted(t, i, k, y) <=> Counted(s, i, k, y)
<1> USE DEF Merges
<1> DEFINE i == s[d].level
           D == s[d].records
           A == s[a].records
           C == t[d].records
<1>1. /\ DOMAIN C = DOMAIN D \cup DOMAIN A
      /\ \A k \in DOMAIN D \ DOMAIN A : C[k] = D[k]
      /\ \A k \in DOMAIN A \ DOMAIN D : C[k] = A[k]
      /\ \A k \in DOMAIN D \cap DOMAIN A : C[k] = [y \in RowId |-> D[k][y] + A[k][y]]
  BY DEF Combine
<1>2. /\ \A k \in DOMAIN D : PartOfGroup(i, k, D[k])
      /\ \A k \in DOMAIN A : PartOfGroup(i, k, A[k])
  BY DEF Sound
<1>3. \A k \in DOMAIN D \cap DOMAIN A : \A y \in RowId : ~(D[k][y] = 1 /\ A[k][y] = 1)
  BY DEF CountedOnce, Counts
<1>4. ASSUME NEW k \in DOMAIN C
      PROVE  /\ PartOfGroup(i, k, C[k])
             /\ \A y \in RowId : C[k][y] = 1 <=> \/ k \in DOMAIN D /\ D[k][y] = 1
                                                 \/ k \in DOMAIN A /\ A[k][y] = 1
  <2> HIDE DEF i, D, A, C
  <2>1. CASE k \notin DOMAIN A
    BY <1>1, <1>2, <2>1
  <2>2. CASE k \notin DOMAIN D
    BY <1>1, <1>2, <2>2
  <2>3. CASE k \in DOMAIN D \cap DOMAIN A
    <3>1. /\ D[k] \in [RowId -> {0, 1}] /\ A[k] \in [RowId -> {0, 1}]
          /\ k.cuboid \in LayerOf(i)
          /\ \E y \in RowId : D[k][y] = 1
          /\ \A y \in RowId : D[k][y] = 1 \/ A[k][y] = 1 => k = GroupKey(k.cuboid, y)
      BY <1>2, <2>3 DEF PartOfGroup
    <3>2. C[k] = [y \in RowId |-> D[k][y] + A[k][y]]
      BY <1>1, <2>3
    <3>3. \A y \in RowId : /\ C[k][y] \in {0, 1}
                           /\ C[k][y] = 1 <=> D[k][y] = 1 \/ A[k][y] = 1
      BY <1>3, <2>3, <3>1, <3>2
    <3>4. C[k] \in [RowId -> {0, 1}]
      BY <3>2, <3>3
    <3>5. QED
      BY <2>3, <3>1, <3>3, <3>4 DEF PartOfGroup
  <2>4. QED
    BY <1>1, <2>1, <2>2, <2>3
<1>5. \A j, k : \A y \in RowId :
        Counts(t[d], j, k, y) <=> Counts(s[d], j, k, y) \/ Counts(s[a], j, k, y)
  BY <1>1, <1>4 DEF Counts
<1> HIDE DEF i, D, A, C
<1>6. Sound(t)
  <2>1. ASSUME NEW g \in DOMAIN t, NEW k \in DOMAIN t[g].records
        PROVE  PartOfGroup(t[g].level, k, t[g].records[k])
    <3>1. CASE g = d
      BY <1>4, <3>1 DEF C, i
    <3>2. CASE g # d
      BY <2>1, <3>2 DEF Sound
    <3>3. QED
      BY <3>1, <3>2
  <2>2. QED
    BY <2>1 DEF Sound
<1>7. \A g, h \in DOMAIN s : \A j, k : \A y \in RowId :
        Counts(s[g], j, k, y) /\ Counts(s[h], j, k, y) => g = h
  BY DEF CountedOnce, Counts
<1>8. \A g, h \in DOMAIN t : \A j, k : \A y \in RowId :
        Counts(t[g], j, k, y) /\ Counts(t[h], j, k, y) => g = h
  <2>1. ASSUME NEW h \in DOMAIN t, h # d, NEW j, NEW k, NEW y \in RowId,
               Counts(t[d], j, k, y), Counts(t[h], j, k, y)
        PROVE  FALSE
    <3>1. h \in DOMAIN s /\ h # a /\ Counts(s[h], j, k, y)
      BY <2>1
    <3>2. Counts(s[d], j, k, y) \/ Counts(s[a], j, k, y)
      BY <1>5, <2>1
    <3>3. QED
      BY <1>7, <2>1, <3>1, <3>2
  <2>2. \A g \in DOMAIN t \ {d} : g \in DOMAIN s /\ t[g] = s[g]
    OBVIOUS
  <2>3. QED
    BY <1>7, <2>1, <2>2
<1>9. CountedOnce(t)
  BY <1>8 DEF CountedOnce
<1>10. ASSUME NEW j, NEW k, NEW y \in RowId
       PROVE  Counted(t, j, k, y) <=> Counted(s, j, k, y)
  <2>1. ASSUME NEW g \in DOMAIN t, Counts(t[g], j, k, y)
        PROVE  \E h \in DOMAIN s : Counts(s[h], j, k, y)
    <3>1. CASE g = d
      BY <1>5, <2>1, <3>1
    <3>2. CASE g # d
      BY <2>1, <3>2
    <3>3. QED
      BY <3>1, <3>2
  <2>2. ASSUME NEW g \in DOMAIN s, Counts(s[g], j, k, y)
        PROVE  \E h \in DOMAIN t : Counts(t[h], j, k, y)
    <3>1. CASE g \in {a, d}
      BY <1>5, <2>2, <3>1
    <3>2. CASE g \notin {a, d}
      BY <2>2, <3>2
    <3>3. QED
      BY <3>1, <3>2
  <2>3. QED
    BY <2>1, <2>2 DEF Counted
<1>11. QED
  BY <1>6, <1>9, <1>10

\* Every row of a stock that is split keeps its one place.
LEMMA SplitKeeps ==
    ASSUME NEW s, NEW t, NEW b, NEW P, Splits(s, t, b, P), Sound(s), CountedOnce(s)
    PROVE  /\ Sound(t)
           /\ CountedOnce(t)
           /\ \A i, k : \A y \in RowId : Counted(t, i, k, y) <=> Counted(s, i, k, y)
<1> USE DEF Splits
<1>1. Sound(t)
  <2>1. ASSUME NEW g \in DOMAIN t, NEW k \in DOMAIN t[g].records
        PROVE  PartOfGroup(t[g].level, k, t[g].records[k])
    <3>1. CASE g \in P
      BY <2>1, <3>1 DEF Sound
    <3>2. CASE g \in DOMAIN s \ {b}
      BY <2>1, <3>2 DEF Sound
    <3>3. QED
      BY <2>1, <3>1, <3>2
  <2>2. QED
    BY <2>1 DEF Sound
<1>2. \A g, h \in DOMAIN s : \A j, k : \A y \in RowId :
        Counts(s[g], j, k, y) /\ Counts(s[h], j, k, y) => g = h
  BY DEF CountedOnce, Counts
<1>3. /\ \A g \in DOMAIN s \ {b} : \A j, k : \A y \in RowId :
           Counts(t[g], j, k, y) <=> Counts(s[g], j, k, y)
      /\ \A p \in P : \A j, k : \A y \in RowId :
           Counts(t[p], j, k, y) => Counts(s[b], j, k, y) /\ k \in DOMAIN t[p].records
      /\ \A j, k : \A y \in RowId : ~Counts(t[b], j, k, y)
  BY DEF Counts
<1>4. \A g, h \in DOMAIN t : \A j, k : \A y \in RowId :
        Counts(t[g], j, k, y) /\ Counts(t[h], j, k, y) => g = h
  <2>1. ASSUME NEW g \in DOMAIN t, NEW h \in DOMAIN t, NEW j, NEW k, NEW y \in RowId,
               Counts(t[g], j, k, y), Counts(t[h], j, k, y)
        PROVE  g = h
    <3>1. g # b /\ h # b
      BY <1>3, <2>1
    <3>2. CASE g \in P /\ h \in P
      BY <1>3, <2>1, <3>2
    <3>3. CASE g \in DOMAIN s /\ h \in DOMAIN s
      BY <1>2, <1>3, <2>1, <3>1, <3>3
    <3>4. CASE g \in P /\ h \in DOMAIN s
      BY <1>2, <1>3, <2>1, <3>1, <3>4
    <3>5. CASE g \in DOMAIN s /\ h \in P
      BY <1>2, <1>3, <2>1, <3>1, <3>5
    <3>6. QED
      BY <3>2, <3>3, <3>4, <3>5
  <2>2. QED
    BY <2>1
<1>5. CountedOnce(t)
  BY <1>4 DEF CountedOnce
<1>6. ASSUME NEW j, NEW k, NEW y \in RowId
      PROVE  Counted(t, j, k, y) <=> Counted(s, j, k, y)
  <2>1. ASSUME NEW g \in DOMAIN t, Counts(t[g], j, k, y)
        PROVE  \E h \in DOMAIN s : Counts(s[h], j, k, y)
    BY <1>3, <2>1
  <2>2. ASSUME NEW g \in DOMAIN s, Counts(s[g], j, k, y)
        PROVE  \E h \in DOMAIN t : Counts(t[h], j, k, y)
    <3>1. CASE g = b
      <4>1. PICK p \in P : k \in DOMAIN t[p].records
        BY <2>2, <3>1 DEF Counts
      <4>2. Counts(t[p], j, k, y)
        BY <2>2, <3>1, <4>1 DEF Counts
      <4>3. QED
        BY <4>2
    <3>2. CASE g # b
      BY <1>3, <2>2, <3>2
    <3>3. QED
      BY <3>1, <3>2
  <2>3. QED
    BY <2>1, <2>2 DEF Counted
<1>7. QED
  BY <1>1, <1>5, <1>6

-----------------------------------------------------------------------------
\* A row's group in a cuboid is a key of it.
LEMMA GroupKeyFacts ==
    ASSUME NEW i \in 0 .. total_levels, NEW c \in LayerOf(i), NEW y \in RowId
    PROVE  /\ GroupKey(c, y) \in Key
           /\ GroupKey(c, y).cuboid = c
           /\ Owner[GroupKey(c, y)] \in Worker
<1>1. c \in CuboidId /\ c \subseteq Bit
  BY LayerFacts DEF CuboidId
<1>2. RowOf[y] \in [Bit -> Value]
  BY TableAssumption
<1>3. [b \in c |-> RowOf[y][b]] \in [c -> Value \cup {Blank}]
  BY <1>1, <1>2
<1>4. GroupKey(c, y) \in Key
  BY <1>1, <1>3, KeyFacts DEF GroupKey
<1>5. QED
  BY <1>4, OwnerAssumption DEF GroupKey

\* The key built for a child is the group of the same row.
LEMMA BuildKeyOfGroup ==
    ASSUME KeysKeepColumns,
           NEW i \in 0 .. total_levels, NEW p \in LayerOf(i), NEW c \in Spanning[p],
           NEW y \in RowId
    PROVE  BuildKey(GroupKey(p, y), c) = GroupKey(c, y)
<1>1. i + 1 \in 1 .. Len(Layers) /\ p \in Layers[i + 1]
  BY LayerFacts DEF LayerOf
<1>2. c \subseteq BitsLookedAt(p)
  BY <1>1 DEF KeysKeepColumns
<1>3. p \in CuboidId
  BY LayerFacts
<1>4. c \subseteq p
  BY <1>3, TreeAssumption
<1>5. /\ GroupKey(p, y).cuboid = p
      /\ \A b \in c : GroupKey(p, y).cols[b] = RowOf[y][b]
  BY <1>4 DEF GroupKey
<1>6. [b \in c |-> IF b \in BitsLookedAt(p) THEN GroupKey(p, y).cols[b] ELSE Blank]
        = [b \in c |-> RowOf[y][b]]
  BY <1>2, <1>5
<1>7. QED
  BY <1>5, <1>6 DEF BuildKey, GroupKey

\* A cuboid has one parent.
LEMMA ParentFacts ==
    ASSUME NEW i \in 0 .. total_levels, NEW p \in LayerOf(i), NEW q \in LayerOf(i),
           NEW c, c \in Spanning[p], c \in Spanning[q]
    PROVE  p = q
<1>1. p \in CuboidId /\ q \in CuboidId
  BY LayerFacts
<1>2. QED
  BY <1>1, TreeAssumption

\* The source of level 0 goes to its own key, that of a later level to a key
\* of each child; a row stays in its group.
LEMMA PushedFacts ==
    ASSUME KeysKeepColumns, NEW i \in 0 .. total_levels, NEW key, NEW rows,
           PartOfGroup(IF i = 0 THEN 0 ELSE i - 1, key, rows),
           NEW k \in PushedKeys(i, key)
    PROVE  /\ PartOfGroup(i, k, rows)
           /\ i = 0 => k = key
           /\ i > 0 => k.cuboid \in Spanning[key.cuboid]
<1>1. CASE i = 0
  BY <1>1 DEF PushedKeys
<1>2. CASE i > 0
  <2>1. i - 1 \in 0 .. total_levels /\ i # 0 /\ (i - 1) + 1 = i
    BY <1>2, LayerFacts
  <2>2. PartOfGroup(i - 1, key, rows)
    BY <2>1
  <2>3. PICK c \in Spanning[key.cuboid] : k = BuildKey(key, c)
    BY <2>1 DEF PushedKeys
  <2>4. key.cuboid \in LayerOf(i - 1)
    BY <2>2 DEF PartOfGroup
  <2>5. c \in LayerOf(i)
    BY <2>1, <2>4, LayerFacts
  <2>6. k.cuboid = c
    BY <2>3 DEF BuildKey
  <2>7. \A y \in RowId : rows[y] = 1 => k = GroupKey(c, y)
    <3>1. ASSUME NEW y \in RowId, rows[y] = 1
          PROVE  k = GroupKey(c, y)
      <4>1. key = GroupKey(key.cuboid, y)
        BY <2>2, <3>1 DEF PartOfGroup
      <4>2. BuildKey(GroupKey(key.cuboid, y), c) = GroupKey(c, y)
        BY <2>1, <2>4, BuildKeyOfGroup
      <4>3. QED
        BY <2>3, <4>1, <4>2
    <3>2. QED
      BY <3>1
  <2>8. QED
    BY <1>2, <2>2, <2>3, <2>5, <2>6, <2>7 DEF PartOfGroup
<1>3. QED
  BY <1>1, <1>2

\* The places where records lie, and what lies there.
PlacesAndStocks ==
    /\ DOMAIN Stocks = Places
    /\ \A g \in Places : Stocks[g] = Stock(g)
    /\ \A g : g \in Places <=>
         \/ \E w \in Worker : \E r \in todo[w] : g = <<"todo", w, r>>
         \/ \E m \in channel : g = <<"part", m.to, m>>
         \/ \E w \in Worker : g = <<"buf", w, NoRecord>>
         \/ \E w \in Worker : g = <<"objlist", w, NoRecord>>
    /\ \A w, r : /\ Stock(<<"todo", w, r>>).level = level[w]
                 /\ Stock(<<"todo", w, r>>).records
                      = [k \in PushedKeys(level[w], r.key) |-> r.rows]
    /\ \A v, m : /\ Stock(<<"part", v, m>>).level = m.level
                 /\ Stock(<<"part", v, m>>).records = m.part
    /\ \A w, r : /\ Stock(<<"buf", w, r>>).level = level[w]
                 /\ Stock(<<"buf", w, r>>).records = buf[w]
    /\ \A w, r : /\ Stock(<<"objlist", w, r>>).level = level[w]
                 /\ Stock(<<"objlist", w, r>>).records = objlist[w]

\* The places of this state are those the steps reason about,
LEMMA PlaceFacts == PlacesAndStocks
<1>1. DOMAIN Stocks = Places /\ \A g \in Places : Stocks[g] = Stock(g)
  BY DEF Stocks
<1>2. \A g : g \in Places <=>
         \/ \E w \in Worker : \E r \in todo[w] : g = <<"todo", w, r>>
         \/ \E m \in channel : g = <<"part", m.to, m>>
         \/ \E w \in Worker : g = <<"buf", w, NoRecord>>
         \/ \E w \in Worker : g = <<"objlist", w, NoRecord>>
  <2> DEFINE Todo == UNION {{<<"todo", w, r>> : r \in todo[w]} : w \in Worker}
  <2>1. Places = Todo \cup {<<"part", m.to, m>> : m \in channel}
                   \cup {<<"buf", w, NoRecord>> : w \in Worker}
                   \cup {<<"objlist", w, NoRecord>> : w \in Worker}
    BY Zenon DEF Places
  <2>2. ASSUME NEW w \in Worker, NEW r \in todo[w]
        PROVE  <<"todo", w, r>> \in Todo
    <3>1. <<"todo", w, r>> \in {<<"todo", w, q>> : q \in todo[w]}
      OBVIOUS
    <3>2. QED
      BY <3>1
  <2>3. ASSUME NEW g \in Todo
        PROVE  \E w \in Worker : \E r \in todo[w] : g = <<"todo", w, r>>
    OBVIOUS
  <2> HIDE DEF Todo
  <2>4. QED
    BY <2>1, <2>2, <2>3
<1>3. \A w, r : /\ Stock(<<"todo", w, r>>).level = level[w]
                /\ Stock(<<"todo", w, r>>).records
                     = [k \in PushedKeys(level[w], r.key) |-> r.rows]
  BY DEF Stock
<1>4. \A v, m : /\ Stock(<<"part", v, m>>).level = m.level
                /\ Stock(<<"part", v, m>>).records = m.part
  BY DEF Stock
<1>5. \A w, r : /\ Stock(<<"buf", w, r>>).level = level[w]
                /\ Stock(<<"buf", w, r>>).records = buf[w]
  BY DEF Stock
<1>6. \A w, r : /\ Stock(<<"objlist", w, r>>).level = level[w]
                /\ Stock(<<"objlist", w, r>>).records = objlist[w]
  BY DEF Stock
<1>7. QED
  BY <1>1, <1>2, <1>3, <1>4, <1>5, <1>6 DEF PlacesAndStocks

\* and so are those of the next one.
LEMMA NextPlaceFacts == PlacesAndStocks'
  BY PlaceFacts, PTL

\* Pushing a source record combines it into what the worker has.
LEMMA PushMerges ==
    ASSUME Protocol, NEW w \in Worker, NEW r \in todo[w], Push(w, r)
    PROVE  \E a, d : Merges(Stocks, Stocks', a, d)
<1> DEFINE a == <<"todo", w, r>>
           d == <<"buf", w, NoRecord>>
<1>1. /\ UNCHANGED <<pc, level, channel, heard, objlist>>
      /\ todo'[w] = todo[w] \ {r}
      /\ buf'[w] = Combine(buf[w], [k \in PushedKeys(level[w], r.key) |-> r.rows])
      /\ \A v \in Worker \ {w} : todo'[v] = todo[v] /\ buf'[v] = buf[v]
  BY DEF Push, Protocol, TypeOK
<1>2. a \in Places /\ d \in Places /\ a # d
  BY PlaceFacts DEF PlacesAndStocks
<1>3. Places' = Places \ {a}
  <2>1. \A g : g \in Places' => g \in Places /\ g # a
    BY <1>1, PlaceFacts, NextPlaceFacts DEF PlacesAndStocks
  <2>2. \A g : g \in Places /\ g # a => g \in Places'
    BY <1>1, PlaceFacts, NextPlaceFacts DEF PlacesAndStocks
  <2>3. QED
    BY <2>1, <2>2
<1>4. /\ Stocks[a].level = level[w] /\ Stocks[d].level = level[w]
      /\ Stocks[a].records = [k \in PushedKeys(level[w], r.key) |-> r.rows]
      /\ Stocks[d].records = buf[w]
      /\ Stocks'[d].level = level'[w] /\ Stocks'[d].records = buf'[w]
  BY <1>2, <1>3, PlaceFacts, NextPlaceFacts DEF PlacesAndStocks
<1>5. ASSUME NEW g \in Places \ {a, d}
      PROVE  Stocks'[g] = Stocks[g]
  <2>1. Stocks[g] = Stock(g) /\ Stocks'[g] = Stock(g)'
    BY <1>3, PlaceFacts, NextPlaceFacts DEF PlacesAndStocks
  <2>2. CASE \E v \in Worker : g = <<"buf", v, NoRecord>>
    BY <1>1, <2>1, <2>2 DEF Stock
  <2>3. CASE \E v \in Worker : \E q \in todo[v] : g = <<"todo", v, q>>
    BY <1>1, <2>1, <2>3 DEF Stock
  <2>4. CASE \E m \in channel : g = <<"part", m.to, m>>
    BY <1>1, <2>1, <2>4 DEF Stock
  <2>5. CASE \E v \in Worker : g = <<"objlist", v, NoRecord>>
    BY <1>1, <2>1, <2>5 DEF Stock
  <2>6. QED
    BY <2>2, <2>3, <2>4, <2>5, PlaceFacts DEF PlacesAndStocks
<1> HIDE DEF a, d
<1>6. DOMAIN Stocks = Places /\ DOMAIN Stocks' = Places'
  BY PlaceFacts, NextPlaceFacts DEF PlacesAndStocks
<1>7. Merges(Stocks, Stocks', a, d)
  BY <1>1, <1>2, <1>3, <1>4, <1>5, <1>6 DEF Merges
<1>8. QED
  BY <1>7

\* Receiving a part combines it into what the worker has received.
LEMMA ReceiveMerges ==
    ASSUME Protocol, NEW w \in Worker, NEW m \in channel, Receive(w, m)
    PROVE  \E a, d : Merges(Stocks, Stocks', a, d)
<1> DEFINE a == <<"part", w, m>>
           d == <<"objlist", w, NoRecord>>
<1>1. /\ UNCHANGED <<pc, level, todo, buf>>
      /\ channel' = channel \ {m} /\ m.to = w /\ m.level = level[w]
      /\ objlist'[w] = Combine(objlist[w], m.part)
      /\ \A v \in Worker \ {w} : objlist'[v] = objlist[v]
  BY DEF Receive, Protocol, TypeOK
<1>2. a \in Places /\ d \in Places /\ a # d
  BY <1>1, PlaceFacts DEF PlacesAndStocks
<1>3. Places' = Places \ {a}
  <2>1. \A g : g \in Places' => g \in Places /\ g # a
    BY <1>1, PlaceFacts, NextPlaceFacts DEF PlacesAndStocks
  <2>2. \A g : g \in Places /\ g # a => g \in Places'
    BY <1>1, PlaceFacts, NextPlaceFacts DEF PlacesAndStocks
  <2>3. QED
    BY <2>1, <2>2
<1>4. /\ Stocks[a].level = m.level /\ Stocks[d].level = level[w]
      /\ Stocks[a].records = m.part
      /\ Stocks[d].records = objlist[w]
      /\ Stocks'[d].level = level'[w] /\ Stocks'[d].records = objlist'[w]
  BY <1>2, <1>3, PlaceFacts, NextPlaceFacts DEF PlacesAndStocks
<1>5. ASSUME NEW g \in Places \ {a, d}
      PROVE  Stocks'[g] = Stocks[g]
  <2>1. Stocks[g] = Stock(g) /\ Stocks'[g] = Stock(g)'
    BY <1>3, PlaceFacts, NextPlaceFacts DEF PlacesAndStocks
  <2>2. CASE \E v \in Worker : g = <<"buf", v, NoRecord>>
    BY <1>1, <2>1, <2>2 DEF Stock
  <2>3. CASE \E v \in Worker : \E q \in todo[v] : g = <<"todo", v, q>>
    BY <1>1, <2>1, <2>3 DEF Stock
  <2>4. CASE \E n \in channel : g = <<"part", n.to, n>>
    BY <1>1, <2>1, <2>4 DEF Stock
  <2>5. CASE \E v \in Worker : g = <<"objlist", v, NoRecord>>
    BY <1>1, <2>1, <2>5 DEF Stock
  <2>6. QED
    BY <2>2, <2>3, <2>4, <2>5, PlaceFacts DEF PlacesAndStocks
<1> HIDE DEF a, d
<1>6. DOMAIN Stocks = Places /\ DOMAIN Stocks' = Places'
  BY PlaceFacts, NextPlaceFacts DEF PlacesAndStocks
<1>7. Merges(Stocks, Stocks', a, d)
  BY <1>1, <1>2, <1>3, <1>4, <1>5, <1>6 DEF Merges
<1>8. QED
  BY <1>7

\* Flushing splits what the worker combined into the parts of the owners.
LEMMA FlushSplits ==
    ASSUME Protocol, NEW w \in Worker, Flush(w)
    PROVE  \E b, P : Splits(Stocks, Stocks', b, P)
<1> DEFINE b == <<"buf", w, NoRecord>>
           P == {<<"part", m.to, m>> : m \in Parts(w)}
<1>1. /\ UNCHANGED <<level, todo, objlist>>
      /\ pc[w] = "push"
      /\ channel' = channel \cup Parts(w)
      /\ DOMAIN buf'[w] = {}
      /\ \A v \in Worker \ {w} : buf'[v] = buf[v]
  BY DEF Flush, Protocol, TypeOK, NoRecord
<1>2. \A m \in Parts(w) : m \notin channel
  <2>1. ASSUME NEW m \in Parts(w), m \in channel
        PROVE  FALSE
    <3>1. m.from = w /\ m.level = level[w] /\ level[w] \in Nat
      BY PartFacts, WorkerTypes DEF Protocol
    <3>2. Flushed(w, level[w])
      BY <2>1, <3>1 DEF Protocol, PartsAreNew
    <3>3. QED
      BY <1>1, <3>1, <3>2 DEF Flushed
  <2>2. QED
    BY <2>1
<1>3. b \in Places
  BY PlaceFacts DEF PlacesAndStocks
<1>4. Places' = Places \cup P /\ P \cap Places = {}
  <2>1. \A g : g \in Places' => g \in Places \/ g \in P
    BY <1>1, PlaceFacts, NextPlaceFacts DEF PlacesAndStocks
  <2>2. \A g : g \in Places \/ g \in P => g \in Places'
    BY <1>1, PlaceFacts, NextPlaceFacts DEF PlacesAndStocks
  <2>3. \A g : g \in P => g \notin Places
    BY <1>2, PlaceFacts DEF PlacesAndStocks
  <2>4. QED
    BY <2>1, <2>2, <2>3
<1>5. /\ Stocks[b].level = level[w] /\ Stocks[b].records = buf[w]
      /\ Stocks'[b].records = buf'[w]
  BY <1>3, <1>4, PlaceFacts, NextPlaceFacts DEF PlacesAndStocks
<1>6. ASSUME NEW g \in Places \ {b}
      PROVE  Stocks'[g] = Stocks[g]
  <2>1. Stocks[g] = Stock(g) /\ Stocks'[g] = Stock(g)'
    BY <1>4, PlaceFacts, NextPlaceFacts DEF PlacesAndStocks
  <2>2. CASE \E v \in Worker : g = <<"buf", v, NoRecord>>
    BY <1>1, <2>1, <2>2 DEF Stock
  <2>3. CASE \E v \in Worker : \E q \in todo[v] : g = <<"todo", v, q>>
    BY <1>1, <2>1, <2>3 DEF Stock
  <2>4. CASE \E n \in channel : g = <<"part", n.to, n>>
    BY <1>1, <2>1, <2>4 DEF Stock
  <2>5. CASE \E v \in Worker : g = <<"objlist", v, NoRecord>>
    BY <1>1, <2>1, <2>5 DEF Stock
  <2>6. QED
    BY <2>2, <2>3, <2>4, <2>5, PlaceFacts DEF PlacesAndStocks
<1>7. ASSUME NEW m \in Parts(w), NEW p, p = <<"part", m.to, m>>
      PROVE  /\ p \in P
             /\ Stocks'[p].level = level[w]
             /\ DOMAIN Stocks'[p].records = {k \in DOMAIN buf[w] : Owner[k] = m.to}
             /\ \A k \in DOMAIN Stocks'[p].records : Stocks'[p].records[k] = buf[w][k]
  <2>1. p \in P /\ p \in Places'
    BY <1>4, <1>7
  <2>2. Stocks'[p].level = m.level /\ Stocks'[p].records = m.part
    BY <1>7, <2>1, NextPlaceFacts DEF PlacesAndStocks
  <2>3. QED
    BY <2>1, <2>2, PartFacts DEF Protocol
<1>8. ASSUME NEW k \in DOMAIN buf[w]
      PROVE  \E p \in P : k \in DOMAIN Stocks'[p].records
  <2>1. Owner[k] \in Worker
    BY WorkerTypes, OwnerAssumption DEF Protocol
  <2>2. PartFor(w, Owner[k]) \in Parts(w) /\ PartFor(w, Owner[k]).to = Owner[k]
    BY <2>1 DEF Parts, PartFor
  <2>3. QED
    BY <1>7, <2>2
<1>9. ASSUME NEW p \in P, NEW q \in P,
             NEW k \in DOMAIN Stocks'[p].records, k \in DOMAIN Stocks'[q].records
      PROVE  p = q
  <2>1. PICK m \in Parts(w) : p = <<"part", m.to, m>>
    OBVIOUS
  <2>2. PICK n \in Parts(w) : q = <<"part", n.to, n>>
    OBVIOUS
  <2>3. m.to = n.to
    BY <1>7, <1>9, <2>1, <2>2
  <2>4. m = n
    BY <2>3, PartFacts DEF Protocol
  <2>5. QED
    BY <2>1, <2>2, <2>4
<1>10. ASSUME NEW p \in P
       PROVE  /\ Stocks'[p].level = Stocks[b].level
              /\ DOMAIN Stocks'[p].records \subseteq DOMAIN Stocks[b].records
              /\ \A k \in DOMAIN Stocks'[p].records :
                   Stocks'[p].records[k] = Stocks[b].records[k]
  <2>1. PICK m \in Parts(w) : p = <<"part", m.to, m>>
    OBVIOUS
  <2>2. QED
    BY <1>5, <1>7, <2>1
<1> HIDE DEF b, P
<1>11. DOMAIN Stocks = Places /\ DOMAIN Stocks' = Places'
  BY PlaceFacts, NextPlaceFacts DEF PlacesAndStocks
<1>12. Splits(Stocks, Stocks', b, P)
  BY <1>1, <1>3, <1>4, <1>5, <1>6, <1>8, <1>9, <1>10, <1>11 DEF Splits
<1>13. QED
  BY <1>12

-----------------------------------------------------------------------------
\* While rows only move within a level and nothing is saved, they stay in turn.
LEMMA MovesKeepTurn ==
    ASSUME CountedInTurn(Stocks),
           \A i, k : \A y \in RowId : Counted(Stocks', i, k, y) <=> Counted(Stocks, i, k, y),
           \A v \in Worker, i \in Nat : Saved(v, i)' <=> Saved(v, i)
    PROVE  CountedInTurn(Stocks)'
<1>1. ASSUME NEW i \in 0 .. total_levels, NEW c \in LayerOf(i), NEW y \in RowId
      PROVE  /\ Due(i, c, y)' <=> Due(i, c, y)
             /\ Saved(Owner[GroupKey(c, y)], i)' <=> Saved(Owner[GroupKey(c, y)], i)
  <2>1. i \in Nat /\ (i > 0 => i - 1 \in 0 .. total_levels /\ i - 1 \in Nat)
    BY LayerFacts
  <2>2. i > 0 => \A p \in LayerOf(i - 1) :
          Saved(Owner[GroupKey(p, y)], i - 1)' <=> Saved(Owner[GroupKey(p, y)], i - 1)
    BY <2>1, GroupKeyFacts
  <2>3. Saved(Owner[GroupKey(c, y)], i)' <=> Saved(Owner[GroupKey(c, y)], i)
    BY <2>1, GroupKeyFacts
  <2>4. QED
    BY <2>2, <2>3 DEF Due, LayerOf, GroupKey
<1>2. ASSUME NEW i \in 0 .. total_levels, NEW c \in LayerOf(i), NEW y \in RowId
      PROVE  /\ Counted(Stocks', i, GroupKey(c, y), y) => Due(i, c, y)'
             /\ Due(i, c, y)' => \/ Counted(Stocks', i, GroupKey(c, y), y)
                                 \/ Saved(Owner[GroupKey(c, y)], i)'
  BY <1>1 DEF CountedInTurn
<1>3. QED
  BY <1>2 DEF CountedInTurn, total_levels, LayerOf, GroupKey

\* A row of a group moves on, from place to place: with a push,
LEMMA PushKeepsRows ==
    ASSUME Protocol, RowsMove, NEW w \in Worker, NEW r \in todo[w], Push(w, r)
    PROVE  RowsMove'
<1>1. UNCHANGED <<pc, level, written>> /\ \A v \in Worker : todo'[v] \subseteq todo[v]
  BY DEF Push, Protocol, TypeOK
<1>2. /\ Sound(Stocks') /\ CountedOnce(Stocks')
      /\ \A i, k : \A y \in RowId : Counted(Stocks', i, k, y) <=> Counted(Stocks, i, k, y)
  BY PushMerges, MergeKeeps DEF RowsMove
<1>3. \A v \in Worker, i \in Nat : Saved(v, i)' <=> Saved(v, i)
  BY <1>1 DEF Saved
<1>4. CountedInTurn(Stocks)'
  BY <1>2, <1>3, MovesKeepTurn DEF RowsMove
<1>5. SourcesSound'
  BY <1>1 DEF RowsMove, SourcesSound, PartOfGroup, LayerOf, GroupKey
<1>6. WrittenAreSaved'
  BY <1>1 DEF RowsMove, WrittenAreSaved, Saved, total_levels
<1>7. QED
  BY <1>2, <1>4, <1>5, <1>6 DEF RowsMove

\* with a part that arrives,
LEMMA ReceiveKeepsRows ==
    ASSUME Protocol, RowsMove, NEW w \in Worker, NEW m \in channel, Receive(w, m)
    PROVE  RowsMove'
<1>1. UNCHANGED <<pc, level, todo, written>>
  BY DEF Receive
<1>2. /\ Sound(Stocks') /\ CountedOnce(Stocks')
      /\ \A i, k : \A y \in RowId : Counted(Stocks', i, k, y) <=> Counted(Stocks, i, k, y)
  BY ReceiveMerges, MergeKeeps DEF RowsMove
<1>3. \A v \in Worker, i \in Nat : Saved(v, i)' <=> Saved(v, i)
  BY <1>1 DEF Saved
<1>4. CountedInTurn(Stocks)'
  BY <1>2, <1>3, MovesKeepTurn DEF RowsMove
<1>5. SourcesSound'
  BY <1>1 DEF RowsMove, SourcesSound, PartOfGroup, LayerOf, GroupKey
<1>6. WrittenAreSaved'
  BY <1>1 DEF RowsMove, WrittenAreSaved, Saved, total_levels
<1>7. QED
  BY <1>2, <1>4, <1>5, <1>6 DEF RowsMove

\* with a flush,
LEMMA FlushKeepsRows ==
    ASSUME Protocol, RowsMove, NEW w \in Worker, Flush(w)
    PROVE  RowsMove'
<1>1. UNCHANGED <<level, todo, written>>
  BY DEF Flush
<1>2. /\ Sound(Stocks') /\ CountedOnce(Stocks')
      /\ \A i, k : \A y \in RowId : Counted(Stocks', i, k, y) <=> Counted(Stocks, i, k, y)
  BY FlushSplits, SplitKeeps DEF RowsMove
<1>3. \A v \in Worker, i \in Nat : Saved(v, i)' <=> Saved(v, i)
  BY DEF Saved, Flush, Protocol, TypeOK
<1>4. CountedInTurn(Stocks)'
  BY <1>2, <1>3, MovesKeepTurn DEF RowsMove
<1>5. SourcesSound'
  BY <1>1 DEF RowsMove, SourcesSound, PartOfGroup, LayerOf, GroupKey
<1>6. WrittenAreSaved'
  <2>1. \A i \in 0 .. total_levels : i \in Nat
    BY LayerFacts
  <2>2. QED
    BY <1>1, <1>3, <2>1 DEF RowsMove, WrittenAreSaved, total_levels
<1>7. QED
  BY <1>2, <1>4, <1>5, <1>6 DEF RowsMove

-----------------------------------------------------------------------------
\* What a worker owns is due, complete and with it when everybody flushed.
LEMMA SavesWholeGroups ==
    ASSUME Protocol, RowsMove, NEW w \in Worker, Save(w),
           NEW c \in LayerOf(level[w]), NEW y \in RowId, Owner[GroupKey(c, y)] = w
    PROVE  /\ GroupKey(c, y) \in DOMAIN objlist[w]
           /\ objlist[w][GroupKey(c, y)][y] = 1
<1> DEFINE i == level[w]
           k == GroupKey(c, y)
<1>1. i \in 0 .. total_levels /\ i \in Nat
  BY WorkerTypes DEF Protocol
<1>2. Due(i, c, y)
  <2>1. ASSUME i > 0, NEW p \in LayerOf(i - 1)
        PROVE  Saved(Owner[GroupKey(p, y)], i - 1)
    <3>1. i - 1 \in 0 .. total_levels
      BY <1>1, <2>1, LayerFacts
    <3>2. Owner[GroupKey(p, y)] \in Worker
      BY <2>1, <3>1, GroupKeyFacts
    <3>3. \A v \in Worker : Flushed(v, i) => Saved(v, i - 1)
      <4> TAKE v \in Worker
      <4>1. level[v] \in Nat
        BY WorkerTypes DEF Protocol
      <4>2. QED
        BY <1>1, <2>1, <4>1 DEF Flushed, Saved
    <3>4. QED
      BY <3>2, <3>3, SaveFacts
  <2>2. QED
    BY <2>1 DEF Due
<1>3. Counted(Stocks, i, k, y)
  BY <1>1, <1>2, SaveFacts DEF RowsMove, CountedInTurn
<1>4. PICK g \in Places : Counts(Stock(g), i, k, y)
  BY <1>3, PlaceFacts DEF PlacesAndStocks, Counted
<1>5. ASSUME NEW v \in Worker, level[v] = i
      PROVE  todo[v] = {} /\ DOMAIN buf[v] = {}
  <2>1. Flushed(v, i) /\ level[v] \in Nat
    BY SaveFacts, WorkerTypes DEF Protocol
  <2>2. pc[v] # "push"
    BY <1>5, <2>1 DEF Flushed
  <2>3. QED
    BY <2>2 DEF Protocol, EmptyBetween
<1>6. ASSUME NEW v \in Worker, NEW r \in todo[v], g = <<"todo", v, r>>
      PROVE  FALSE
  <2>1. level[v] = i
    BY <1>4, <1>6, PlaceFacts DEF PlacesAndStocks, Counts
  <2>2. QED
    BY <1>5, <1>6, <2>1
<1>7. ASSUME NEW v \in Worker, g = <<"buf", v, NoRecord>>
      PROVE  FALSE
  <2>1. level[v] = i /\ k \in DOMAIN buf[v]
    BY <1>4, <1>7, PlaceFacts DEF PlacesAndStocks, Counts
  <2>2. QED
    BY <1>5, <2>1
<1>8. ASSUME NEW m \in channel, g = <<"part", m.to, m>>
      PROVE  FALSE
  <2>1. m.level = i /\ k \in DOMAIN m.part
    BY <1>4, <1>8, PlaceFacts DEF PlacesAndStocks, Counts
  <2>2. m.to = w /\ m.from \in Worker
    BY <2>1 DEF Protocol, TypeOK
  <2>3. m.from \notin heard[w]
    BY <2>1, <2>2 DEF Protocol, PartsAreNew
  <2>4. QED
    BY <2>2, <2>3, SaveFacts
<1>9. ASSUME NEW v \in Worker, g = <<"objlist", v, NoRecord>>
      PROVE  k \in DOMAIN objlist[w] /\ objlist[w][k][y] = 1
  <2>1. k \in DOMAIN objlist[v] /\ objlist[v][k][y] = 1
    BY <1>4, <1>9, PlaceFacts DEF PlacesAndStocks, Counts
  <2>2. v = w
    BY <2>1, WorkerTypes DEF Protocol
  <2>3. QED
    BY <2>1, <2>2
<1>10. QED
  BY <1>6, <1>7, <1>8, <1>9, PlaceFacts DEF PlacesAndStocks

\* What a worker saves at its level: parts of groups it owns, of layer level[w].
LEMMA SavedRecords ==
    ASSUME Protocol, RowsMove, NEW w \in Worker, NEW k \in DOMAIN objlist[w]
    PROVE  PartOfGroup(level[w], k, objlist[w][k]) /\ Owner[k] = w
<1>1. <<"objlist", w, NoRecord>> \in Places
  BY PlaceFacts DEF PlacesAndStocks
<1>2. /\ Stocks[<<"objlist", w, NoRecord>>].records = objlist[w]
      /\ Stocks[<<"objlist", w, NoRecord>>].level = level[w]
  BY <1>1, PlaceFacts DEF PlacesAndStocks
<1>3. PartOfGroup(level[w], k, objlist[w][k])
  BY <1>1, <1>2, PlaceFacts DEF PlacesAndStocks, RowsMove, Sound
<1>4. QED
  BY <1>3, WorkerTypes DEF Protocol

\* The stocks after a worker saved: what it received is gone, and unless it was
\* the last level it is the source of the next.
LEMMA SaveStocks ==
    ASSUME Protocol, NEW w \in Worker, Save(w)
    PROVE  /\ \A g \in Places' :
                \/ /\ g \in Places
                   /\ \/ Stocks'[g] = Stocks[g]
                      \/ DOMAIN Stocks'[g].records = {}
                \/ /\ level[w] < total_levels
                   /\ \E k \in DOMAIN objlist[w] :
                        /\ g = <<"todo", w, [key |-> k, rows |-> objlist[w][k]]>>
                        /\ Stocks'[g].level = level[w] + 1
                        /\ Stocks'[g].records =
                             [x \in PushedKeys(level[w] + 1, k) |-> objlist[w][k]]
           /\ \A g \in Places :
                \/ g \in Places' /\ Stocks'[g] = Stocks[g]
                \/ DOMAIN Stocks[g].records = {}
                \/ Stocks[g].level = level[w] /\ Stocks[g].records = objlist[w]
           /\ level[w] < total_levels =>
                \A k \in DOMAIN objlist[w] : \E g \in Places' :
                    /\ Stocks'[g].level = level[w] + 1
                    /\ Stocks'[g].records =
                         [x \in PushedKeys(level[w] + 1, k) |-> objlist[w][k]]
<1>1. UNCHANGED <<buf, channel>> /\ DOMAIN objlist'[w] = {}
  BY SaveFacts
<1>2. todo[w] = {} /\ DOMAIN buf[w] = {}
  BY SaveFacts DEF Protocol, EmptyBetween
<1>3. \A v \in Worker \ {w} :
        level'[v] = level[v] /\ todo'[v] = todo[v] /\ objlist'[v] = objlist[v]
  BY SaveFacts
<1>4. \/ level[w] = total_levels /\ todo'[w] = {}
      \/ /\ level[w] < total_levels
         /\ level'[w] = level[w] + 1
         /\ todo'[w] = Records(objlist[w])
  BY SaveFacts
<1>5. /\ \A g \in Places : Stocks[g] = Stock(g)
      /\ \A g \in Places' : Stocks'[g] = Stock(g)'
  BY PlaceFacts, NextPlaceFacts DEF PlacesAndStocks
<1>6. ASSUME NEW m \in channel, NEW g, g = <<"part", m.to, m>>
      PROVE  g \in Places /\ g \in Places' /\ Stocks'[g] = Stocks[g]
  <2>1. g \in Places /\ g \in Places'
    BY <1>1, <1>6, PlaceFacts, NextPlaceFacts DEF PlacesAndStocks
  <2>2. QED
    BY <1>5, <1>6, <2>1 DEF Stock
<1>7. ASSUME NEW v \in Worker, NEW g, g = <<"buf", v, NoRecord>>
      PROVE  /\ g \in Places /\ g \in Places'
             /\ v # w => Stocks'[g] = Stocks[g]
             /\ v = w => DOMAIN Stocks[g].records = {} /\ DOMAIN Stocks'[g].records = {}
  <2>1. g \in Places /\ g \in Places'
    BY <1>7, PlaceFacts, NextPlaceFacts DEF PlacesAndStocks
  <2>2. CASE v # w
    <3>1. Stocks[g] = Stock(g) /\ Stocks'[g] = Stock(g)'
      BY <1>5, <2>1
    <3>2. Stock(g) = [level |-> level[v], records |-> buf[v]]
      BY <1>7 DEF Stock
    <3>3. Stock(g)' = [level |-> level'[v], records |-> buf'[v]]
      BY <1>7 DEF Stock
    <3>4. QED
      BY <1>1, <1>3, <2>1, <2>2, <3>1, <3>2, <3>3
  <2>3. CASE v = w
    BY <1>1, <1>2, <1>5, <1>7, <2>1, <2>3, PlaceFacts, NextPlaceFacts DEF PlacesAndStocks
  <2>4. QED
    BY <2>1, <2>2, <2>3
<1>8. ASSUME NEW v \in Worker, NEW g, g = <<"objlist", v, NoRecord>>
      PROVE  /\ g \in Places /\ g \in Places'
             /\ v # w => Stocks'[g] = Stocks[g]
             /\ v = w => /\ Stocks[g].level = level[w] /\ Stocks[g].records = objlist[w]
                         /\ DOMAIN Stocks'[g].records = {}
  <2>1. g \in Places /\ g \in Places'
    BY <1>8, PlaceFacts, NextPlaceFacts DEF PlacesAndStocks
  <2>2. CASE v # w
    <3>1. Stocks[g] = Stock(g) /\ Stocks'[g] = Stock(g)'
      BY <1>5, <2>1
    <3>2. Stock(g) = [level |-> level[v], records |-> objlist[v]]
      BY <1>8 DEF Stock
    <3>3. Stock(g)' = [level |-> level'[v], records |-> objlist'[v]]
      BY <1>8 DEF Stock
    <3>4. QED
      BY <1>1, <1>3, <2>1, <2>2, <3>1, <3>2, <3>3
  <2>3. CASE v = w
    BY <1>1, <1>5, <1>8, <2>1, <2>3, PlaceFacts, NextPlaceFacts DEF PlacesAndStocks
  <2>4. QED
    BY <2>1, <2>2, <2>3
<1>9. ASSUME NEW v \in Worker \ {w}, NEW r \in todo[v], NEW g, g = <<"todo", v, r>>
      PROVE  g \in Places /\ g \in Places' /\ Stocks'[g] = Stocks[g]
  <2>1. g \in Places /\ g \in Places'
    BY <1>3, <1>9, PlaceFacts, NextPlaceFacts DEF PlacesAndStocks
  <2>2. Stocks[g] = Stock(g) /\ Stocks'[g] = Stock(g)'
    BY <1>5, <2>1
  <2>3. QED
    BY <1>3, <1>9, <2>1, <2>2 DEF Stock
<1>10. ASSUME level[w] < total_levels, NEW k \in DOMAIN objlist[w],
              NEW g, g = <<"todo", w, [key |-> k, rows |-> objlist[w][k]]>>
       PROVE  /\ g \in Places'
              /\ Stocks'[g].level = level[w] + 1
              /\ Stocks'[g].records =
                   [x \in PushedKeys(level[w] + 1, k) |-> objlist[w][k]]
  <2>1. level'[w] = level[w] + 1 /\ todo'[w] = Records(objlist[w])
    BY <1>4, <1>10, LayerFacts
  <2>2. [key |-> k, rows |-> objlist[w][k]] \in todo'[w]
    BY <2>1 DEF Records
  <2>3. g \in Places'
    BY <1>10, <2>2, NextPlaceFacts DEF PlacesAndStocks
  <2>4. QED
    BY <1>10, <2>1, <2>3, NextPlaceFacts DEF PlacesAndStocks
<1>11. ASSUME NEW g \in Places'
       PROVE  \/ /\ g \in Places
                 /\ \/ Stocks'[g] = Stocks[g]
                    \/ DOMAIN Stocks'[g].records = {}
              \/ /\ level[w] < total_levels
                 /\ \E k \in DOMAIN objlist[w] :
                      /\ g = <<"todo", w, [key |-> k, rows |-> objlist[w][k]]>>
                      /\ Stocks'[g].level = level[w] + 1
                      /\ Stocks'[g].records =
                           [x \in PushedKeys(level[w] + 1, k) |-> objlist[w][k]]
  <2>1. CASE \E v \in Worker : \E r \in todo'[v] : g = <<"todo", v, r>>
    <3>1. PICK v \in Worker : \E r \in todo'[v] : g = <<"todo", v, r>>
      BY <2>1
    <3>2. CASE v # w
      BY <1>3, <1>9, <3>1, <3>2
    <3>3. CASE v = w
      <4>1. level[w] < total_levels /\ todo'[w] = Records(objlist[w])
        BY <1>4, <3>1, <3>3
      <4>2. PICK k \in DOMAIN objlist[w] :
              g = <<"todo", w, [key |-> k, rows |-> objlist[w][k]]>>
        BY <3>1, <3>3, <4>1 DEF Records
      <4>3. QED
        BY <1>10, <4>1, <4>2
    <3>4. QED
      BY <3>2, <3>3
  <2>2. CASE \E m \in channel' : g = <<"part", m.to, m>>
    BY <1>1, <1>6, <2>2
  <2>3. CASE \E v \in Worker : g = <<"buf", v, NoRecord>>
    BY <1>7, <2>3
  <2>4. CASE \E v \in Worker : g = <<"objlist", v, NoRecord>>
    BY <1>8, <2>4
  <2>5. QED
    BY <2>1, <2>2, <2>3, <2>4, NextPlaceFacts DEF PlacesAndStocks
<1>12. ASSUME NEW g \in Places
       PROVE  \/ g \in Places' /\ Stocks'[g] = Stocks[g]
              \/ DOMAIN Stocks[g].records = {}
              \/ Stocks[g].level = level[w] /\ Stocks[g].records = objlist[w]
  <2>1. CASE \E v \in Worker : \E r \in todo[v] : g = <<"todo", v, r>>
    BY <1>2, <1>9, <2>1
  <2>2. CASE \E m \in channel : g = <<"part", m.to, m>>
    BY <1>6, <2>2
  <2>3. CASE \E v \in Worker : g = <<"buf", v, NoRecord>>
    BY <1>7, <2>3
  <2>4. CASE \E v \in Worker : g = <<"objlist", v, NoRecord>>
    BY <1>8, <2>4
  <2>5. QED
    BY <2>1, <2>2, <2>3, <2>4, PlaceFacts DEF PlacesAndStocks
<1>13. QED
  BY <1>10, <1>11, <1>12

\* and, where keys keep their columns, with a level that is saved.
LEMMA SaveKeepsRows ==
    ASSUME KeysKeepColumns, Protocol, RowsMove, NEW w \in Worker, Save(w)
    PROVE  RowsMove'
<1> DEFINE i == level[w]
           rows(k) == objlist[w][k]
<1>1. i \in 0 .. total_levels /\ i \in Nat /\ total_levels \in Nat
  BY WorkerTypes, LayerFacts DEF Protocol
<1>2. /\ ~Saved(w, i)
      /\ \A v \in Worker, j \in Nat : Saved(v, j)' <=> (Saved(v, j) \/ (v = w /\ j = i))
  BY SaveFacts
<1>3. DOMAIN Stocks = Places /\ DOMAIN Stocks' = Places'
  BY PlaceFacts, NextPlaceFacts DEF PlacesAndStocks
<1>4. /\ Sound(Stocks) /\ CountedOnce(Stocks) /\ CountedInTurn(Stocks)
      /\ SourcesSound /\ WrittenAreSaved
  BY DEF RowsMove
<1>5. \A g \in Places' :
        \/ /\ g \in Places
           /\ \/ Stocks'[g] = Stocks[g]
              \/ DOMAIN Stocks'[g].records = {}
        \/ /\ i < total_levels
           /\ \E k \in DOMAIN objlist[w] :
                /\ g = <<"todo", w, [key |-> k, rows |-> rows(k)]>>
                /\ Stocks'[g].level = i + 1
                /\ Stocks'[g].records = [x \in PushedKeys(i + 1, k) |-> rows(k)]
  BY SaveStocks
<1>6. \A g \in Places :
        \/ g \in Places' /\ Stocks'[g] = Stocks[g]
        \/ DOMAIN Stocks[g].records = {}
        \/ Stocks[g].level = i /\ Stocks[g].records = objlist[w]
  BY SaveStocks
<1>7. \A k \in DOMAIN objlist[w] : PartOfGroup(i, k, rows(k)) /\ Owner[k] = w
  BY SavedRecords
<1>8. ASSUME i < total_levels, NEW k \in DOMAIN objlist[w], NEW x \in PushedKeys(i + 1, k)
      PROVE  PartOfGroup(i + 1, x, rows(k)) /\ x.cuboid \in Spanning[k.cuboid]
  <2>1. i + 1 \in 0 .. total_levels /\ i + 1 > 0 /\ i + 1 # 0 /\ (i + 1) - 1 = i
    BY <1>1, <1>8
  <2>2. PartOfGroup(IF i + 1 = 0 THEN 0 ELSE (i + 1) - 1, k, rows(k))
    BY <1>7, <2>1
  <2> HIDE DEF i, rows
  <2>3. QED
    BY <1>8, <2>1, <2>2, PushedFacts
<1> HIDE DEF rows
\* What the new source counts is of level i + 1, and the parent's group is w's.
<1>9. ASSUME i < total_levels, NEW k \in DOMAIN objlist[w],
             NEW x \in PushedKeys(i + 1, k), NEW y \in RowId, rows(k)[y] = 1
      PROVE  /\ x = GroupKey(x.cuboid, y) /\ x.cuboid \in LayerOf(i + 1)
             /\ k = GroupKey(k.cuboid, y) /\ k.cuboid \in LayerOf(i)
             /\ \A p \in LayerOf(i) : x.cuboid \in Spanning[p] => p = k.cuboid
  <2>1. PartOfGroup(i + 1, x, rows(k)) /\ x.cuboid \in Spanning[k.cuboid]
    BY <1>8, <1>9
  <2>2. PartOfGroup(i, k, rows(k))
    BY <1>7
  <2>3. /\ x = GroupKey(x.cuboid, y) /\ x.cuboid \in LayerOf(i + 1)
        /\ k = GroupKey(k.cuboid, y) /\ k.cuboid \in LayerOf(i)
    BY <1>9, <2>1, <2>2 DEF PartOfGroup
  <2>4. QED
    BY <1>1, <2>1, <2>3, ParentFacts
<1>10. Sound(Stocks')
  <2>1. ASSUME NEW g \in Places', NEW x \in DOMAIN Stocks'[g].records
        PROVE  PartOfGroup(Stocks'[g].level, x, Stocks'[g].records[x])
    <3>1. CASE g \in Places /\ Stocks'[g] = Stocks[g]
      BY <1>3, <1>4, <2>1, <3>1 DEF Sound
    <3>2. CASE ~(g \in Places /\ Stocks'[g] = Stocks[g])
      <4>1. PICK k \in DOMAIN objlist[w] :
              /\ i < total_levels /\ Stocks'[g].level = i + 1
              /\ Stocks'[g].records = [z \in PushedKeys(i + 1, k) |-> rows(k)]
        BY <1>5, <2>1, <3>2
      <4>2. x \in PushedKeys(i + 1, k) /\ Stocks'[g].records[x] = rows(k)
        BY <2>1, <4>1
      <4>3. QED
        BY <1>8, <4>1, <4>2
    <3>3. QED
      BY <3>1, <3>2
  <2>2. QED
    BY <1>3, <2>1 DEF Sound
\* A row the new source counts was counted nowhere at level i + 1: it was not due.
<1>11. ASSUME i < total_levels, NEW k \in DOMAIN objlist[w],
              NEW x \in PushedKeys(i + 1, k), NEW y \in RowId, rows(k)[y] = 1
       PROVE  ~Counted(Stocks, i + 1, x, y)
  <2>1. /\ x = GroupKey(x.cuboid, y) /\ x.cuboid \in LayerOf(i + 1)
        /\ k = GroupKey(k.cuboid, y) /\ k.cuboid \in LayerOf(i)
    BY <1>9, <1>11
  <2>2. x.cuboid \in Spanning[k.cuboid]
    BY <1>8, <1>11
  <2>3. i + 1 \in 0 .. total_levels /\ i + 1 > 0 /\ (i + 1) - 1 = i
    BY <1>1, <1>11
  <2>4. Owner[GroupKey(k.cuboid, y)] = w
    BY <1>7, <2>1
  <2>5. ~Due(i + 1, x.cuboid, y)
    BY <1>2, <2>1, <2>2, <2>3, <2>4 DEF Due
  <2>6. QED
    BY <1>4, <2>1, <2>3, <2>5 DEF CountedInTurn
<1>12. CountedOnce(Stocks')
  <2>1. ASSUME NEW g \in Places', NEW j, NEW x, NEW y \in RowId, Counts(Stocks'[g], j, x, y)
        PROVE  \/ g \in Places /\ Counts(Stocks[g], j, x, y)
               \/ /\ i < total_levels /\ j = i + 1
                  /\ \E k \in DOMAIN objlist[w] :
                       /\ g = <<"todo", w, [key |-> k, rows |-> rows(k)]>>
                       /\ x \in PushedKeys(i + 1, k) /\ rows(k)[y] = 1
    BY <1>5, <2>1 DEF Counts
  <2>2. ASSUME NEW k \in DOMAIN objlist[w], NEW l \in DOMAIN objlist[w], i < total_levels,
               NEW x, x \in PushedKeys(i + 1, k), x \in PushedKeys(i + 1, l),
               NEW y \in RowId, rows(k)[y] = 1, rows(l)[y] = 1
        PROVE  k = l
    <3>1. /\ k = GroupKey(k.cuboid, y) /\ k.cuboid \in LayerOf(i)
          /\ l = GroupKey(l.cuboid, y) /\ l.cuboid \in LayerOf(i)
      BY <1>9, <2>2
    <3>2. x.cuboid \in Spanning[k.cuboid] /\ x.cuboid \in Spanning[l.cuboid]
      BY <1>8, <2>2
    <3>3. QED
      BY <1>1, <3>1, <3>2, ParentFacts
  <2>3. ASSUME NEW g \in Places', NEW h \in Places', NEW j, NEW x, NEW y \in RowId,
               Counts(Stocks'[g], j, x, y), Counts(Stocks'[h], j, x, y)
        PROVE  g = h
    <3>1. CASE /\ g \in Places /\ Counts(Stocks[g], j, x, y)
               /\ h \in Places /\ Counts(Stocks[h], j, x, y)
      <4>1. x \in DOMAIN Stocks[g].records /\ Stocks[g].level = j
        BY <3>1 DEF Counts
      <4>2. QED
        BY <1>3, <1>4, <3>1, <4>1 DEF CountedOnce
    <3>2. CASE (\/ g \in Places /\ Counts(Stocks[g], j, x, y)
                \/ h \in Places /\ Counts(Stocks[h], j, x, y))
               /\ i < total_levels /\ j = i + 1
               /\ \E k \in DOMAIN objlist[w] : x \in PushedKeys(i + 1, k) /\ rows(k)[y] = 1
      <4>1. Counted(Stocks, i + 1, x, y)
        BY <1>3, <3>2 DEF Counted
      <4>2. QED
        BY <1>11, <3>2, <4>1
    <3>3. CASE /\ i < total_levels
               /\ \E k \in DOMAIN objlist[w] :
                    /\ g = <<"todo", w, [key |-> k, rows |-> rows(k)]>>
                    /\ x \in PushedKeys(i + 1, k) /\ rows(k)[y] = 1
               /\ \E l \in DOMAIN objlist[w] :
                    /\ h = <<"todo", w, [key |-> l, rows |-> rows(l)]>>
                    /\ x \in PushedKeys(i + 1, l) /\ rows(l)[y] = 1
      BY <2>2, <3>3
    <3>4. QED
      BY <2>1, <2>3, <3>1, <3>2, <3>3
  <2>4. QED
    BY <1>3, <2>3 DEF CountedOnce, Counts
<1>13. CountedInTurn(Stocks)'
  <2>1. ASSUME NEW j \in 0 .. total_levels, NEW c \in LayerOf(j), NEW y \in RowId,
               Due(j, c, y)
        PROVE  Due(j, c, y)'
    <3>1. ASSUME j > 0, NEW p \in LayerOf(j - 1), c \in Spanning[p]
          PROVE  Saved(Owner[GroupKey(p, y)], j - 1)'
      <4>1. j - 1 \in 0 .. total_levels /\ j - 1 \in Nat
        BY <1>1, <3>1
      <4>2. Owner[GroupKey(p, y)] \in Worker
        BY <3>1, <4>1, GroupKeyFacts
      <4>3. Saved(Owner[GroupKey(p, y)], j - 1)
        BY <2>1, <3>1 DEF Due
      <4>4. QED
        BY <1>2, <4>1, <4>2, <4>3
    <3>2. QED
      BY <3>1 DEF Due, LayerOf, GroupKey
  <2>2. ASSUME NEW j \in 0 .. total_levels, NEW c \in LayerOf(j), NEW y \in RowId,
               Counted(Stocks', j, GroupKey(c, y), y)
        PROVE  Due(j, c, y)'
    <3>1. PICK g \in Places' : Counts(Stocks'[g], j, GroupKey(c, y), y)
      BY <1>3, <2>2 DEF Counted
    <3>2. CASE g \in Places /\ Stocks'[g] = Stocks[g]
      <4>1. Counted(Stocks, j, GroupKey(c, y), y)
        BY <1>3, <3>1, <3>2 DEF Counted
      <4>2. QED
        BY <1>4, <2>1, <4>1 DEF CountedInTurn
    <3>3. CASE ~(g \in Places /\ Stocks'[g] = Stocks[g])
      <4>1. PICK k \in DOMAIN objlist[w] :
              /\ i < total_levels /\ Stocks'[g].level = i + 1
              /\ Stocks'[g].records = [z \in PushedKeys(i + 1, k) |-> rows(k)]
        BY <1>5, <3>1, <3>3 DEF Counts
      <4>2. /\ j = i + 1 /\ GroupKey(c, y) \in PushedKeys(i + 1, k)
            /\ rows(k)[y] = 1 /\ GroupKey(c, y).cuboid = c
        BY <3>1, <4>1, GroupKeyFacts DEF Counts
      <4>3. /\ k = GroupKey(k.cuboid, y)
            /\ \A p \in LayerOf(i) : c \in Spanning[p] => p = k.cuboid
        BY <1>9, <4>1, <4>2
      <4>4. \A p \in LayerOf(i) : c \in Spanning[p] => Owner[GroupKey(p, y)] = w
        BY <1>7, <4>3
      <4>5. Saved(w, j - 1)'
        BY <1>1, <1>2, <4>2
      <4>6. j - 1 = i
        BY <1>1, <4>2
      <4>7. QED
        BY <4>4, <4>5, <4>6 DEF Due, LayerOf, GroupKey
    <3>4. QED
      BY <3>2, <3>3
  <2>3. ASSUME NEW j \in 0 .. total_levels, NEW c \in LayerOf(j), NEW y \in RowId,
               Due(j, c, y)'
        PROVE  \/ Counted(Stocks', j, GroupKey(c, y), y)
               \/ Saved(Owner[GroupKey(c, y)], j)'
    <3> DEFINE x == GroupKey(c, y)
    <3>1. Owner[x] \in Worker /\ x.cuboid = c /\ j \in Nat
      BY <1>1, GroupKeyFacts
    <3>2. CASE Due(j, c, y)
      <4>1. Counted(Stocks, j, x, y) \/ Saved(Owner[x], j)
        BY <1>4, <3>2 DEF CountedInTurn
      <4>2. CASE Saved(Owner[x], j)
        BY <1>2, <3>1, <4>2
      <4>3. CASE Counted(Stocks, j, x, y)
        <5>1. PICK g \in Places : Counts(Stocks[g], j, x, y)
          BY <1>3, <4>3 DEF Counted
        <5>2. CASE g \in Places' /\ Stocks'[g] = Stocks[g]
          BY <1>3, <5>1, <5>2 DEF Counted
        <5>3. CASE Stocks[g].level = i /\ Stocks[g].records = objlist[w]
          <6>1. j = i /\ x \in DOMAIN objlist[w]
            BY <5>1, <5>3 DEF Counts
          <6>2. Owner[x] = w
            BY <1>7, <6>1
          <6>3. QED
            BY <1>2, <3>1, <6>1, <6>2
        <5>4. QED
          BY <1>6, <5>1, <5>2, <5>3 DEF Counts
      <4>4. QED
        BY <4>1, <4>2, <4>3
    <3>3. CASE ~Due(j, c, y)
      <4>1. PICK p \in LayerOf(j - 1) :
              j > 0 /\ c \in Spanning[p] /\ ~Saved(Owner[GroupKey(p, y)], j - 1)
        BY <3>3 DEF Due
      <4>2. j - 1 \in 0 .. total_levels /\ j - 1 \in Nat
        BY <1>1, <4>1
      <4>3. Saved(Owner[GroupKey(p, y)], j - 1)'
        BY <2>3, <4>1 DEF Due, LayerOf, GroupKey
      <4>4. Owner[GroupKey(p, y)] = w /\ j - 1 = i
        BY <1>2, <4>1, <4>2, <4>3, GroupKeyFacts
      <4>5. i < total_levels /\ j = i + 1
        BY <1>1, <4>1, <4>4
      <4>6. GroupKey(p, y) \in DOMAIN objlist[w] /\ rows(GroupKey(p, y))[y] = 1
        BY <4>1, <4>4, SavesWholeGroups DEF rows
      <4>7. PICK g \in Places' :
              /\ Stocks'[g].level = i + 1
              /\ Stocks'[g].records =
                   [z \in PushedKeys(i + 1, GroupKey(p, y)) |-> rows(GroupKey(p, y))]
        BY <4>5, <4>6, SaveStocks DEF rows
      <4>8. x = BuildKey(GroupKey(p, y), c)
        BY <4>1, <4>2, BuildKeyOfGroup
      <4>9. x \in PushedKeys(i + 1, GroupKey(p, y))
        <5>1. i + 1 # 0 /\ GroupKey(p, y).cuboid = p
          BY <1>1, <4>1, <4>2, GroupKeyFacts
        <5>2. QED
          BY <4>1, <4>8, <5>1 DEF PushedKeys
      <4>10. Counts(Stocks'[g], j, x, y)
        BY <4>5, <4>6, <4>7, <4>9 DEF Counts
      <4>11. QED
        BY <1>3, <4>10 DEF Counted
    <3>4. QED
      BY <3>2, <3>3
  <2>4. QED
    BY <2>2, <2>3 DEF CountedInTurn, total_levels, LayerOf, GroupKey
<1>14. SourcesSound'
  <2>1. ASSUME NEW v \in Worker, NEW r \in todo'[v]
        PROVE  PartOfGroup(IF level'[v] = 0 THEN 0 ELSE level'[v] - 1, r.key, r.rows)
    <3>1. CASE v # w
      BY <1>4, <3>1, SaveFacts DEF SourcesSound
    <3>2. CASE v = w
      <4>1. level'[w] = i + 1 /\ r \in Records(objlist[w])
        BY <2>1, <3>2, SaveFacts
      <4>2. PICK k \in DOMAIN objlist[w] : r = [key |-> k, rows |-> rows(k)]
        BY <4>1 DEF Records, rows
      <4>3. level'[w] # 0 /\ level'[w] - 1 = i
        BY <1>1, <4>1
      <4>4. QED
        BY <1>7, <3>2, <4>2, <4>3
    <3>3. QED
      BY <3>1, <3>2
  <2>2. QED
    BY <2>1 DEF SourcesSound, PartOfGroup, LayerOf, GroupKey
<1>15. WrittenAreSaved'
  <2>1. ASSUME NEW p \in written'
        PROVE  /\ p[1] \in Worker /\ p[2].level \in 0 .. total_levels
               /\ Owner[p[2].key] = p[1] /\ Saved(p[1], p[2].level)'
    <3>1. CASE p \in written
      <4>1. p[2].level \in Nat
        BY <1>1, <1>4, <3>1 DEF WrittenAreSaved
      <4>2. QED
        BY <1>2, <1>4, <3>1, <4>1 DEF WrittenAreSaved
    <3>2. CASE p \in SaveToHdfs(w)
      <4>1. PICK k \in DOMAIN objlist[w] :
              p = <<w, [level |-> i, key |-> k, rows |-> rows(k)]>>
        BY <3>2 DEF SaveToHdfs, Records, rows
      <4>2. Owner[k] = w
        BY <1>7
      <4>3. p[1] = w /\ p[2].level = i /\ p[2].key = k
        BY <4>1
      <4>4. QED
        BY <1>1, <1>2, <4>2, <4>3
    <3>3. QED
      BY <3>1, <3>2 DEF Save
  <2>2. QED
    BY <2>1 DEF WrittenAreSaved, total_levels
<1>16. QED
  BY <1>10, <1>12, <1>13, <1>14, <1>15 DEF RowsMove

\* At the start each row is a source record of one worker.
LEMMA RowsInit ==
    ASSUME Init
    PROVE  RowsMove
<1>1. PICK home \in [RowId -> Worker] :
        todo = [w \in Worker |-> {[key |-> BaseKey(RowOf[x]), rows |-> OnlyRow(x)] :
                                     x \in {y \in RowId : home[y] = w}}]
  BY DEF Init
<1> DEFINE source(x) == [key |-> BaseKey(RowOf[x]), rows |-> OnlyRow(x)]
<1>2. \A w \in Worker : todo[w] = {source(x) : x \in {y \in RowId : home[y] = w}}
  BY <1>1
<1>3. \A x \in RowId : source(x).key = GroupKey(Bit, x) /\ source(x).rows = OnlyRow(x)
  <2> TAKE x \in RowId
  <2>1. RowOf[x] = [b \in Bit |-> RowOf[x][b]]
    BY TableAssumption
  <2>2. QED
    BY <2>1 DEF BaseKey, GroupKey, base_cuboid_id
<1>4. \A x, y \in RowId : OnlyRow(x)[y] \in {0, 1} /\ (OnlyRow(x)[y] = 1 <=> y = x)
  BY DEF OnlyRow
<1>5. LayerOf(0) = {Bit}
  BY LayerFacts DEF base_cuboid_id
<1>6. \A x \in RowId : PartOfGroup(0, source(x).key, source(x).rows)
  <2> TAKE x \in RowId
  <2>1. source(x).key.cuboid = Bit
    <3>1. source(x).key = GroupKey(Bit, x)
      BY <1>3
    <3>2. GroupKey(Bit, x).cuboid = Bit
      BY DEF GroupKey
    <3>3. QED
      BY <3>1, <3>2
  <2>2. OnlyRow(x) \in [RowId -> {0, 1}]
    BY <1>4 DEF OnlyRow
  <2>3. QED
    BY <1>3, <1>4, <1>5, <2>1, <2>2 DEF PartOfGroup
<1> HIDE DEF source
<1>7. \A w \in Worker : /\ pc[w] = "push" /\ level[w] = 0
                        /\ DOMAIN buf[w] = {} /\ DOMAIN objlist[w] = {}
  BY DEF Init, NoRecord
<1>8. channel = {} /\ written = {}
  BY DEF Init
<1>9. SourcesSound
  BY <1>2, <1>6, <1>7 DEF SourcesSound
<1>10. ASSUME NEW g \in Places, NEW k \in DOMAIN Stocks[g].records
       PROVE  \E x \in RowId : /\ g = <<"todo", home[x], source(x)>>
                               /\ k = source(x).key
                               /\ Stocks[g].level = 0
                               /\ Stocks[g].records[k] = source(x).rows
  <2>1. PICK w \in Worker : \E r \in todo[w] : g = <<"todo", w, r>>
    BY <1>7, <1>8, <1>10, PlaceFacts DEF PlacesAndStocks
  <2>2. PICK x \in RowId : home[x] = w /\ g = <<"todo", w, source(x)>>
    BY <1>2, <2>1
  <2>3. /\ Stocks[g].level = level[w]
        /\ Stocks[g].records = [z \in PushedKeys(level[w], source(x).key) |-> source(x).rows]
    BY <1>10, <2>2, PlaceFacts DEF PlacesAndStocks
  <2>4. level[w] = 0 /\ PushedKeys(0, source(x).key) = {source(x).key}
    BY <1>7 DEF PushedKeys
  <2>5. QED
    BY <1>10, <2>2, <2>3, <2>4
<1>11. DOMAIN Stocks = Places
  BY PlaceFacts DEF PlacesAndStocks
<1>12. Sound(Stocks)
  BY <1>6, <1>10, <1>11 DEF Sound
<1>13. CountedOnce(Stocks)
  <2>1. ASSUME NEW g \in Places, NEW k, NEW j, NEW y \in RowId, Counts(Stocks[g], j, k, y)
        PROVE  g = <<"todo", home[y], source(y)>>
    <3>1. k \in DOMAIN Stocks[g].records /\ Stocks[g].records[k][y] = 1
      BY <2>1 DEF Counts
    <3>2. QED
      BY <1>3, <1>4, <1>10, <3>1
  <2>2. QED
    BY <1>11, <2>1 DEF CountedOnce
<1>14. CountedInTurn(Stocks)
  <2>1. ASSUME NEW i \in 0 .. total_levels, NEW c \in LayerOf(i), NEW y \in RowId,
               Counted(Stocks, i, GroupKey(c, y), y)
        PROVE  Due(i, c, y)
    <3>1. i = 0
      BY <1>10, <1>11, <2>1 DEF Counted, Counts
    <3>2. QED
      BY <3>1 DEF Due
  <2>2. ASSUME NEW i \in 0 .. total_levels, NEW c \in LayerOf(i), NEW y \in RowId,
               Due(i, c, y)
        PROVE  Counted(Stocks, i, GroupKey(c, y), y)
    <3>1. CASE i = 0
      <4> DEFINE g == <<"todo", home[y], source(y)>>
      <4>1. home[y] \in Worker /\ source(y) \in todo[home[y]]
        BY <1>2
      <4>2. /\ g \in Places /\ Stocks[g].level = level[home[y]]
            /\ Stocks[g].records
                 = [z \in PushedKeys(level[home[y]], source(y).key) |-> source(y).rows]
        BY <4>1, PlaceFacts DEF PlacesAndStocks
      <4>3. level[home[y]] = 0 /\ PushedKeys(0, source(y).key) = {source(y).key}
        BY <1>7, <4>1 DEF PushedKeys
      <4>4. GroupKey(c, y) = source(y).key
        BY <1>3, <1>5, <3>1
      <4>5. source(y).rows[y] = 1
        BY <1>3, <1>4
      <4>6. Counts(Stocks[g], i, GroupKey(c, y), y)
        BY <3>1, <4>2, <4>3, <4>4, <4>5 DEF Counts
      <4>7. QED
        BY <1>11, <4>2, <4>6 DEF Counted
    <3>2. CASE i > 0
      <4>1. PICK p \in LayerOf(i - 1) : c \in Spanning[p]
        BY <3>2, LayerFacts
      <4>2. i - 1 \in 0 .. total_levels
        BY <3>2, LayerFacts
      <4>3. Owner[GroupKey(p, y)] \in Worker
        BY <4>1, <4>2, GroupKeyFacts
      <4>4. ~Saved(Owner[GroupKey(p, y)], i - 1)
        BY <1>7, <4>2, <4>3, LayerFacts DEF Saved
      <4>5. QED
        BY <2>2, <3>2, <4>1, <4>4 DEF Due
    <3>3. QED
      BY <3>1, <3>2, LayerFacts
  <2>3. QED
    BY <2>1, <2>2 DEF CountedInTurn
<1>15. WrittenAreSaved
  BY <1>8 DEF WrittenAreSaved
<1>16. QED
  BY <1>9, <1>12, <1>13, <1>14, <1>15 DEF RowsMove

\* Every step keeps each row of each group in one place.
LEMMA RowsStep ==
    ASSUME KeysKeepColumns, Protocol, RowsMove, [Next]_vars
    PROVE  RowsMove'
<1>1. ASSUME NEW w \in Worker, WorkerStep(w)
      PROVE  RowsMove'
  <2>1. CASE \E r \in todo[w] : Push(w, r)
    BY <2>1, PushKeepsRows
  <2>2. CASE Flush(w)
    BY <2>2, FlushKeepsRows
  <2>3. CASE \E m \in channel : Receive(w, m)
    BY <2>3, ReceiveKeepsRows
  <2>4. CASE Save(w)
    BY <2>4, SaveKeepsRows
  <2>5. QED
    BY <1>1, <2>1, <2>2, <2>3, <2>4 DEF WorkerStep
<1>2. CASE UNCHANGED vars
  <2>1. Stocks' = Stocks
    BY <1>2 DEF vars, Stocks, Stock, Places
  <2>2. \A v \in Worker, i \in Nat : Saved(v, i)' <=> Saved(v, i)
    BY <1>2 DEF vars, Saved
  <2>3. Sound(Stocks') /\ CountedOnce(Stocks') /\ CountedInTurn(Stocks)'
    BY <2>1, <2>2, MovesKeepTurn DEF RowsMove
  <2>4. SourcesSound'
    BY <1>2 DEF vars, RowsMove, SourcesSound, PartOfGroup, LayerOf, GroupKey
  <2>5. WrittenAreSaved'
    BY <1>2 DEF vars, RowsMove, WrittenAreSaved, Saved, total_levels
  <2>6. QED
    BY <2>3, <2>4, <2>5 DEF RowsMove
<1>3. QED
  BY <1>1, <1>2 DEF Next

\* The inductive invariant: the protocol of levels, and where the rows of every
\* group are counted.
THEOREM Invariance ==
    ASSUME KeysKeepColumns
    PROVE  Spec => []IndInv
<1>1. Init => IndInv
  BY ProtocolInit, RowsInit DEF IndInv
<1>2. IndInv /\ [Next]_vars => IndInv'
  BY ProtocolStep, RowsStep DEF IndInv
<1>3. QED
  BY <1>1, <1>2, PTL DEF Spec

-----------------------------------------------------------------------------
\* What a worker writes is a record of the cube that nobody wrote.
LEMMA SaveWrites ==
    ASSUME KeysKeepColumns, Protocol, RowsMove, NEW w \in Worker, Save(w)
    PROVE  Result!Write(w)
<1> DEFINE i == level[w]
<1>1. i \in 0 .. total_levels /\ i \in Nat
  BY WorkerTypes DEF Protocol
<1>2. written' = written \cup SaveToHdfs(w)
  BY DEF Save
<1>3. ASSUME NEW p \in SaveToHdfs(w)
      PROVE  p \in {w} \X (GroupByCube \ Result!WrittenRecords)
  <2>1. PICK k \in DOMAIN objlist[w] :
          p = <<w, [level |-> i, key |-> k, rows |-> objlist[w][k]]>>
    BY DEF SaveToHdfs, Records
  <2> DEFINE rec == [level |-> i, key |-> k, rows |-> objlist[w][k]]
             c == k.cuboid
  <2>2. PartOfGroup(i, k, objlist[w][k]) /\ Owner[k] = w
    BY SavedRecords
  <2>3. PICK x \in RowId : objlist[w][k][x] = 1
    BY <2>2 DEF PartOfGroup
  <2>4. k = GroupKey(c, x) /\ c \in LayerOf(i)
    BY <2>2, <2>3 DEF PartOfGroup
  <2>5. objlist[w][k] = GroupRows(c, x)
    <3>1. objlist[w][k] \in [RowId -> {0, 1}]
      BY <2>2 DEF PartOfGroup
    <3>2. \A y \in RowId : objlist[w][k][y] = 1 => GroupKey(c, y) = k
      BY <2>2 DEF PartOfGroup
    <3>3. \A y \in RowId : GroupKey(c, y) = k => objlist[w][k][y] = 1
      BY <2>2, <2>4, SavesWholeGroups
    <3>4. \A y \in RowId : objlist[w][k][y] = IF GroupKey(c, y) = GroupKey(c, x) THEN 1 ELSE 0
      BY <2>4, <3>1, <3>2, <3>3
    <3> DEFINE f == objlist[w][k]
    <3>5. f = [y \in RowId |-> f[y]]
      BY <3>1
    <3> HIDE DEF f
    <3>6. f = GroupRows(c, x)
      BY <3>4, <3>5 DEF GroupRows, f
    <3>7. QED
      BY <3>6 DEF f
  <2>6. rec \in GroupByCube
    <3>1. i + 1 \in 1 .. Len(Layers) /\ (i + 1) - 1 = i /\ c \in Layers[i + 1]
      BY <1>1, <2>4, LayerFacts DEF LayerOf
    <3>2. rec = [level |-> (i + 1) - 1, key |-> GroupKey(c, x), rows |-> GroupRows(c, x)]
      BY <2>4, <2>5, <3>1
    <3> HIDE DEF rec, c, i
    <3>3. rec \in {[level |-> (i + 1) - 1, key |-> GroupKey(d, y), rows |-> GroupRows(d, y)] :
                      d \in Layers[i + 1], y \in RowId}
      BY <3>1, <3>2
    <3>4. QED
      BY <3>1, <3>3 DEF GroupByCube
  <2>7. rec \notin Result!WrittenRecords
    <3>1. ASSUME NEW q \in written, q[2] = rec
          PROVE  FALSE
      <4>1. Owner[rec.key] = q[1] /\ Saved(q[1], rec.level)
        BY <3>1 DEF RowsMove, WrittenAreSaved
      <4>2. Saved(w, i)
        BY <2>2, <4>1
      <4>3. QED
        BY <4>2, SaveFacts
    <3>2. QED
      BY <3>1 DEF Result!WrittenRecords
  <2>8. QED
    BY <2>1, <2>6, <2>7
<1>4. QED
  BY <1>2, <1>3 DEF Result!Write

\* Whatever is written, at whatever time and by whomever, is a whole group of
\* the cube with every row of it counted once, written by one worker: the job
\* implements CubeResult.  Where a key loses columns (the keys of cuboids whose
\* highest bit is odd), it does not.
THEOREM BuildsTheCube ==
    ASSUME KeysKeepColumns
    PROVE  Spec => BuildsCube
<1>1. Init => Result!Init
  BY DEF Init, Result!Init
<1>2. IndInv /\ [Next]_vars => [Result!Next]_written
  <2> SUFFICES ASSUME Protocol, RowsMove, [Next]_vars
               PROVE  [Result!Next]_written
    BY DEF IndInv
  <2>1. ASSUME NEW w \in Worker, WorkerStep(w)
        PROVE  [Result!Next]_written
    <3>1. CASE \E r \in todo[w] : Push(w, r)
      BY <3>1 DEF Push
    <3>2. CASE Flush(w)
      BY <3>2 DEF Flush
    <3>3. CASE \E m \in channel : Receive(w, m)
      BY <3>3 DEF Receive
    <3>4. CASE Save(w)
      BY <3>4, SaveWrites DEF Result!Next
    <3>5. QED
      BY <2>1, <3>1, <3>2, <3>3, <3>4 DEF WorkerStep
  <2>2. CASE UNCHANGED vars
    BY <2>2 DEF vars
  <2>3. QED
    BY <2>1, <2>2 DEF Next
<1>3. QED
  BY <1>1, <1>2, Invariance, PTL DEF Spec, BuildsCube, Result!Spec
=============================================================================
