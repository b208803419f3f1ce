--------------------------- MODULE CubingByLayer ---------------------------
(***************************************************************************)
(* The cubing job, CubingByLayer::build_cube.  Every worker runs it on its *)
(* part of the flat table.  Level 0 groups the rows by all columns; level  *)
(* i computes the cuboids of layer i from the records of layer i - 1.  At  *)
(* each level a worker pushes its source records to a push-combined        *)
(* channel, which combines records with the same key; flushes it to the    *)
(* workers that own the keys; waits until everybody flushed; and saves the *)
(* records it owns.  Nothing else makes a worker wait, so a fast worker    *)
(* may push level i + 1 while others still push level i.                   *)
(*                                                                         *)
(* A record's measures are represented by how often each row of the table  *)
(* went into them: an aggregator that adds values up computes from that.   *)
(***************************************************************************)
EXTENDS RowKey, Sequences

CONSTANTS
    Worker,
    RowId,          \* the rows of the flat table
    RowOf,          \* [RowId -> [Bit -> Value]]: their row key columns
    Owner,          \* [Key -> Worker]: the worker a key is hashed to
    Layers,         \* get_cuboids_by_layer(), each layer as a set
    Spanning        \* [CuboidId -> SUBSET CuboidId]: get_spanning_cuboid

ASSUME TableAssumption == IsFiniteSet(RowId) /\ RowOf \in [RowId -> [Bit -> Value]]

ASSUME OwnerAssumption == IsFiniteSet(Worker) /\ Owner \in [Key -> Worker]

(***************************************************************************)
(* What CuboidLayers shows of the scheduler's tree (ParentCovers,          *)
(* OneParent, LayersHoldAll).                                              *)
(***************************************************************************)
ASSUME TreeAssumption ==
    /\ Layers \in Seq(SUBSET CuboidId)
    /\ Layers # <<>>
    /\ Layers[1] = {base_cuboid_id}
    /\ Spanning \in [CuboidId -> SUBSET CuboidId]
    /\ \A i \in 1 .. Len(Layers) :
         UNION {Spanning[p] : p \in Layers[i]} = IF i = Len(Layers) THEN {} ELSE Layers[i + 1]
    /\ \A p \in CuboidId : \A c \in Spanning[p] : c \subseteq p /\ c # p /\ c # {}
    /\ \A p, q \in CuboidId : p # q => Spanning[p] \cap Spanning[q] = {}

VARIABLES
    pc,         \* "push", "prepare" (the channel) or "done"
    level,      \* the level being built
    todo,       \* the source records still to be pushed
    buf,        \* key -> rows: what the worker combined and has not flushed
    channel,    \* the flushed parts on their way
    heard,      \* the workers whose part of this level has arrived
    objlist,    \* key -> rows: the worker's records of this level
    written     \* the records in the output, with the worker that wrote them

vars == <<pc, level, todo, buf, channel, heard, objlist, written>>

total_levels == Len(Layers) - 1

Measure == [RowId -> Nat]
OnlyRow(x) == [y \in RowId |-> IF y = x THEN 1 ELSE 0]
NoRecord == [k \in {} |-> [y \in RowId |-> 0]]

\* A mutant of Combine: the last value of a key replaces the others.
Combine_Replaces(f, g) ==
    [k \in DOMAIN f \cup DOMAIN g |-> IF k \in DOMAIN g THEN g[k] ELSE f[k]]

\* CuboidStringCombiner::combine, on two lists of records.
Combine(f, g) ==
    [k \in DOMAIN f \cup DOMAIN g |->
        IF k \notin DOMAIN g THEN f[k]
        ELSE IF k \notin DOMAIN f THEN g[k]
        ELSE [x \in RowId |-> f[k][x] + g[k][x]]]

Records(f) == {[key |-> k, rows |-> f[k]] : k \in DOMAIN f}

\* The rows are where reading the table left them.
Init ==
    /\ pc = [w \in Worker |-> "push"]
    /\ level = [w \in Worker |-> 0]
    /\ \E home \in [RowId -> Worker] :
         todo = [w \in Worker |->
                    {[key |-> BaseKey(RowOf[x]), rows |-> OnlyRow(x)] :
                        x \in {y \in RowId : home[y] = w}}]
    /\ buf = [w \in Worker |-> NoRecord]
    /\ channel = {}
    /\ heard = [w \in Worker |-> {}]
    /\ objlist = [w \in Worker |-> NoRecord]
    /\ written = {}

-----------------------------------------------------------------------------
\* Where a source record goes: its own key at level 0, else the keys of the
\* cuboids computed from its cuboid.
PushedKeys(i, key) ==
    IF i = 0 THEN {key} ELSE {BuildKey(key, child) : child \in Spanning[key.cuboid]}

Push(w, record) ==
    /\ pc[w] = "push"
    /\ record \in todo[w]
    /\ buf' = [buf EXCEPT ![w] =
                  Combine(@, [k \in PushedKeys(level[w], record.key) |-> record.rows])]
    /\ todo' = [todo EXCEPT ![w] = @ \ {record}]
    /\ UNCHANGED <<pc, level, channel, heard, objlist, written>>

\* A mutant of PartFor: everybody gets everything.
PartFor_Everything(w, v) ==
    [from |-> w, to |-> v, level |-> level[w], part |-> buf[w]]

\* The part of a worker's combined records that v owns.
PartFor(w, v) ==
    LET owned == {k \in DOMAIN buf[w] : Owner[k] = v}
    IN  [from |-> w, to |-> v, level |-> level[w], part |-> [k \in owned |-> buf[w][k]]]

\* A mutant of Parts: empty parts are not sent.
Parts_NotEmpty(w) ==
    {m \in {PartFor(w, v) : v \in Worker} : DOMAIN m.part # {}}

\* out(): every worker is sent its part, be it empty.
Parts(w) == {PartFor(w, v) : v \in Worker}

Flush(w) ==
    /\ pc[w] = "push"
    /\ todo[w] = {}
    /\ channel' = channel \cup Parts(w)
    /\ buf' = [buf EXCEPT ![w] = NoRecord]
    /\ pc' = [pc EXCEPT ![w] = "prepare"]
    /\ UNCHANGED <<level, todo, heard, objlist, written>>

\* list_execute takes the parts for this level as they come; a key without an
\* object gets one.
Receive(w, m) ==
    /\ pc[w] = "prepare"
    /\ m \in channel
    /\ m.to = w
    /\ m.level = level[w]
    /\ objlist' = [objlist EXCEPT ![w] = Combine(@, m.part)]
    /\ heard' = [heard EXCEPT ![w] = @ \cup {m.from}]
    /\ channel' = channel \ {m}
    /\ UNCHANGED <<pc, level, todo, buf, written>>

\* A mutant of AllHeard: the worker's own part is enough.
AllHeard_Own(w) == w \in heard[w]

AllHeard(w) == heard[w] = Worker

\* save_to_hdfs: every record the worker has goes to the output of its level.
SaveToHdfs(w) ==
    {<<w, [level |-> level[w], key |-> r.key, rows |-> r.rows]>> :
        r \in Records(objlist[w])}

\* With everybody's part, set_measure_strs and save_to_hdfs run over the
\* records, which are the next level's source.
Save(w) ==
    /\ pc[w] = "prepare"
    /\ AllHeard(w)
    /\ written' = written \cup SaveToHdfs(w)
    /\ IF level[w] = total_levels
       THEN pc' = [pc EXCEPT ![w] = "done"] /\ UNCHANGED <<level, todo>>
       ELSE /\ pc' = [pc EXCEPT ![w] = "push"]
            /\ level' = [level EXCEPT ![w] = @ + 1]
            /\ todo' = [todo EXCEPT ![w] = Records(objlist[w])]
    /\ objlist' = [objlist EXCEPT ![w] = NoRecord]
    /\ heard' = [heard EXCEPT ![w] = {}]
    /\ UNCHANGED <<buf, channel>>

WorkerStep(w) ==
    \/ \E record \in todo[w] : Push(w, record)
    \/ Flush(w)
    \/ \E m \in channel : Receive(w, m)
    \/ Save(w)

Next == \E w \in Worker : WorkerStep(w)

Spec == Init /\ [][Next]_vars

\* Threads are scheduled, and what is sent arrives.
FairSpec == Spec /\ \A w \in Worker : WF_vars(WorkerStep(w))

-----------------------------------------------------------------------------
TypeOK ==
    /\ pc \in [Worker -> {"push", "prepare", "done"}]
    /\ level \in [Worker -> 0 .. total_levels]
    /\ todo \in [Worker -> SUBSET [key : Key, rows : Measure]]
    /\ DOMAIN buf = Worker
    /\ \A w \in Worker : \A k \in DOMAIN buf[w] : k \in Key /\ buf[w][k] \in Measure
    /\ \A m \in channel :
         /\ m.from \in Worker /\ m.to \in Worker /\ m.level \in 0 .. total_levels
         /\ \A k \in DOMAIN m.part : k \in Key /\ Owner[k] = m.to /\ m.part[k] \in Measure
    /\ heard \in [Worker -> SUBSET Worker]
    /\ DOMAIN objlist = Worker
    /\ \A w \in Worker : \A k \in DOMAIN objlist[w] :
         k \in Key /\ Owner[k] = w /\ objlist[w][k] \in Measure

\* A row's group in a cuboid, and the rows in it.
GroupKey(c, x) == [cuboid |-> c, cols |-> [b \in c |-> RowOf[x][b]]]
GroupRows(c, x) == [y \in RowId |-> IF GroupKey(c, y) = GroupKey(c, x) THEN 1 ELSE 0]

\* The cube: for each cuboid of each layer, the table grouped by its columns.
GroupByCube ==
    UNION {{[level |-> i - 1, key |-> GroupKey(c, x), rows |-> GroupRows(c, x)] :
               c \in Layers[i], x \in RowId} : i \in 1 .. Len(Layers)}

\* Whatever a worker writes, at whatever time, is a whole group of the cube,
\* with every row of it counted once, and no other worker writes it.
Result == INSTANCE CubeResult WITH Cube <- GroupByCube
BuildsCube == Result!Spec

\* In the end the output holds the whole cube.
CubeIsBuilt == <>[](Result!Complete /\ \A w \in Worker : pc[w] = "done")

\* No worker is more than one level ahead of another, and a part of a level is
\* on its way only to a worker that is building it or the level before.
LevelsInStep ==
    /\ \A v, w \in Worker : level[v] <= level[w] + 1
    /\ \A m \in channel : m.level \in {level[m.to], level[m.to] + 1}

\* A record of a cuboid holds the values of all its columns ("if the child
\* cuboid has this column", nd_cuboid_builder.hpp, copies it).
ColumnsKept ==
    \A p \in written : \A b \in p[2].key.cuboid : p[2].key.cols[b] # Blank

-----------------------------------------------------------------------------
(***************************************************************************)
(* Why LevelsInStep holds.  A worker saves a level when it has heard of it *)
(* from every worker, and nobody sends a part of a level twice.            *)
(***************************************************************************)
Flushed(v, i) == level[v] > i \/ (level[v] = i /\ pc[v] # "push")
Saved(v, i) == level[v] > i \/ (level[v] = i /\ pc[v] = "done")

\* What a worker keeps only while it pushes, or only while it receives.
EmptyBetween ==
    \A w \in Worker :
        /\ pc[w] # "push" => todo[w] = {} /\ DOMAIN buf[w] = {}
        /\ pc[w] # "prepare" => heard[w] = {} /\ DOMAIN objlist[w] = {}
        /\ pc[w] = "done" => level[w] = total_levels

SavedAfterAll ==
    /\ \A w \in Worker : \A i \in 0 .. total_levels :
         Saved(w, i) => \A v \in Worker : Flushed(v, i)
    /\ \A w \in Worker : \A v \in heard[w] : Flushed(v, level[w])

PartsAreNew ==
    /\ \A m \in channel :
         /\ Flushed(m.from, m.level)
         /\ ~Saved(m.to, m.level)
         /\ m.level = level[m.to] => m.from \notin heard[m.to]
    /\ \A m, n \in channel :
         m.from = n.from /\ m.to = n.to /\ m.level = n.level => m = n

Protocol == TypeOK /\ EmptyBetween /\ SavedAfterAll /\ PartsAreNew

(***************************************************************************)
(* Why BuildsCube holds, where the keys of the tree keep the columns of    *)
(* its cuboids.  The records of a level lie in stocks: a source record     *)
(* that is still to be pushed (it is the records it will give), what a     *)
(* worker combined, a part on its way, what a worker received.  A row of a *)
(* group is counted in one stock, from when the parent's group is saved    *)
(* until its own is.                                                       *)
(***************************************************************************)
LayerOf(i) == Layers[i + 1]

KeysKeepColumns ==
    \A i \in 1 .. Len(Layers) : \A p \in Layers[i] : \A c \in Spanning[p] :
        c \subseteq BitsLookedAt(p)

Places ==
    (UNION {{<<"todo", w, r>> : r \in todo[w]} : w \in Worker})
        \cup {<<"part", m.to, m>> : m \in channel}
        \cup {<<"buf", w, NoRecord>> : w \in Worker}
        \cup {<<"objlist", w, NoRecord>> : w \in Worker}

Stock(g) ==
    [level |-> IF g[1] = "part" THEN g[3].level ELSE level[g[2]],
     records |-> CASE g[1] = "todo" ->
                        [k \in PushedKeys(level[g[2]], g[3].key) |-> g[3].rows]
                   [] g[1] = "buf" -> buf[g[2]]
                   [] g[1] = "part" -> g[3].part
                   [] g[1] = "objlist" -> objlist[g[2]]]

Stocks == [g \in Places |-> Stock(g)]

\* Some rows of a group of a cuboid of layer i, each once.
PartOfGroup(i, k, rows) ==
    /\ k.cuboid \in LayerOf(i)
    /\ rows \in [RowId -> {0, 1}]
    /\ \E y \in RowId : rows[y] = 1
    /\ \A y \in RowId : rows[y] = 1 => k = GroupKey(k.cuboid, y)

Sound(s) ==
    \A g \in DOMAIN s : \A k \in DOMAIN s[g].records :
        PartOfGroup(s[g].level, k, s[g].records[k])

SourcesSound ==
    \A w \in Worker : \A r \in todo[w] :
        PartOfGroup(IF level[w] = 0 THEN 0 ELSE level[w] - 1, r.key, r.rows)

Counts(stock, i, k, y) ==
    stock.level = i /\ k \in DOMAIN stock.records /\ stock.records[k][y] = 1

CountedOnce(s) ==
    \A g, h \in DOMAIN s : \A k \in DOMAIN s[g].records : \A y \in RowId :
        /\ Counts(s[g], s[g].level, k, y)
        /\ Counts(s[h], s[g].level, k, y)
        => g = h

Counted(s, i, k, y) == \E g \in DOMAIN s : Counts(s[g], i, k, y)

\* The row's group in the parent is saved.
Due(i, c, y) ==
    i > 0 => \A p \in LayerOf(i - 1) :
                 c \in Spanning[p] => Saved(Owner[GroupKey(p, y)], i - 1)

\* A row is counted only when it is due, and from then on until it is saved.
CountedInTurn(s) ==
    \A i \in 0 .. total_levels : \A c \in LayerOf(i) : \A y \in RowId :
        /\ Counted(s, i, GroupKey(c, y), y) => Due(i, c, y)
        /\ Due(i, c, y) =>
             Counted(s, i, GroupKey(c, y), y) \/ Saved(Owner[GroupKey(c, y)], i)

WrittenAreSaved ==
    \A p \in written :
        /\ p[1] \in Worker /\ p[2].level \in 0 .. total_levels
        /\ Owner[p[2].key] = p[1] /\ Saved(p[1], p[2].level)

RowsMove ==
    /\ SourcesSound
    /\ Sound(Stocks)
    /\ CountedOnce(Stocks)
    /\ CountedInTurn(Stocks)
    /\ WrittenAreSaved

\* The inductive invariant, where KeysKeepColumns holds: the workers keep in
\* step, and every row of a group is counted in one place, in its turn.
IndInv == Protocol /\ RowsMove
=============================================================================
