---------------------------- MODULE MCPutBatcher ----------------------------
(***************************************************************************)
(* What must hold of the batcher, and an instance: two workers, two shards *)
(* and two columns whose types the first rows disagree on.                 *)
(***************************************************************************)
EXTENDS PutBatcher, TLC

CONSTANTS int, str, bool, s1, s2

\* The keys on one shard or on two; which one makes no difference.
MCRoutes == {[k \in Keys |-> s1], [k \in Keys |-> IF k = "k" THEN s1 ELSE s2]}

StoredRows == [id : Ids, vals : [Cols -> Types \cup {None}]]

\* The type invariant; a channel never holds more than its capacity and a set
\* never waits once it has FlushSize rows.
TypeOK ==
    /\ \A s \in Shards :
          /\ chan[s] \in Seq(Ids) /\ Len(chan[s]) <= ChanCap
          /\ \A a \in Sets : pending[s][a] \in Seq(Ids) /\ Len(pending[s][a]) < FlushSize
          /\ hand[s] \in Seq(Ids) /\ flushing[s] \subseteq Waiting(s)
          /\ pos[s] \in 1..(FlushSize + 1) /\ tries[s] \in 0..MaxRetries
    /\ pc \in [Shards -> {"select", "prepare", "commit", "put", "coerce", "exit"}]
    /\ closed \in {"no", "draining", "done"}
    /\ schema \in [Sets -> [Cols -> Types \cup {None}]]
    /\ table \in [Sets -> [Keys -> StoredRows \cup {None}]]

\* The rows of the flush under way that are not settled yet.
Left(s) == {hand[s][i] : i \in IF pc[s] \in {"put", "coerce"} THEN pos[s]..Len(hand[s])
                               ELSE DOMAIN hand[s]}

Rows(p) == UNION {Elems(p[a]) : a \in Sets}

\* The rows shard s has and has not written or given up.
Held(s) == Elems(chan[s]) \cup Rows(pending[s]) \cup Left(s)

Outcome == [written |-> committed, error |-> failed, conflict |-> gaveUp]

\* Every submitted row is in exactly one place: with one shard, written, or
\* logged as lost; no flush, fallback or close loses one silently or writes one
\* twice (putBatcher.run).
RowsAccounted ==
    /\ TypeOK
    /\ \A r \in Elems(order) :
          Cardinality({s \in Shards : r \in Held(s)} \cup {o \in DOMAIN Outcome : r \in Outcome[o]}) = 1
    /\ closed = "done" => Elems(order) \subseteq committed \cup failed \cup gaveUp

IndexIn(q, r) == CHOOSE i \in DOMAIN q : q[i] = r
At(r) == IndexIn(order, r)

\* The row stored at a key is the one of its rows written that was submitted
\* last, whichever workers submitted them and whichever way they were written
\* (submit: a given row's writes stay on one shard).  Every value of it has the
\* type of its column, and one was left out only if coerceRow may refuse it.
LastSubmittedWins ==
    /\ \A r \in committed :
         LET stored == table[Row[r].set][Row[r].key]
         IN  stored # None /\ At(r) <= At(stored.id)
    /\ \A a \in Sets, k \in Keys : table[a][k] # None =>
         \A c \in Cols :
            LET have == Row[table[a][k].id].vals[c]
                got  == table[a][k].vals[c]
            IN  /\ got \in {None, schema[a][c]}
                /\ got = None /\ have # None =>
                      have # schema[a][c] /\ <<have, schema[a][c]>> \notin Widens

\* No row is given up for a type conflict: however the shards race for the types
\* of new columns, a row with as many columns as MaxRetries - 1 gets through
\* (putDataMaxRetries).
RetriesSuffice == gaveUp = {}

\* Every submitted row is written, or logged as lost, even if no more rows come
\* and the batcher is not closed; and close returns.
RowsArrive ==
    /\ <>[](Elems(order) \subseteq committed \cup failed \cup gaveUp)
    /\ (closed = "draining") ~> (closed = "done")

MCRow ==
    1 :> [set |-> "a", key |-> "k", vals |-> ("x" :> bool @@ "y" :> None)]
 @@ 2 :> [set |-> "a", key |-> "k", vals |-> ("x" :> str @@ "y" :> int)]
 @@ 3 :> [set |-> "a", key |-> "l", vals |-> ("x" :> None @@ "y" :> str)]
 @@ 4 :> [set |-> "b", key |-> "k", vals |-> ("x" :> int @@ "y" :> None)]
 @@ 5 :> [set |-> "b", key |-> "k", vals |-> ("x" :> int @@ "y" :> int)]

MCLoad == "v" :> <<1, 2>> @@ "w" :> <<3, 4, 5>>
MCWidens == {<<int, str>>, <<bool, str>>}
MCParses == {<<str, int>>}
=============================================================================
