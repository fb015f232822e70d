----------------------------- MODULE PutBatcher -----------------------------
(***************************************************************************)
(* putBatcher of src/pkg/agi/ingest: the workers of ProcessLogs submit     *)
(* rows to shards, each a goroutine that gathers the rows of its keys by   *)
(* set and writes them with db.PutBatch, by number or by age.  The first   *)
(* row that has a column decides the column's type; a batch with a value   *)
(* of another type fails as a whole, and its rows are then put one by one, *)
(* each coerced to the types known by then (putDataSingle, coerceRow).     *)
(***************************************************************************)
EXTENDS Naturals, Sequences, FiniteSets

CONSTANTS
    Workers, Shards, Sets, Keys, Cols, Types,
    Routes,     \* the ways the hash may spread the keys over the shards
    Ids,        \* the rows of the run
    Row,        \* Row[r]: its set, its key and the type of each of its values
    Load,       \* Load[w]: the rows worker w submits, in order
    Widens,     \* the pairs <<have, want>> of types coerceRow always converts
    Parses,     \* the pairs it converts for some values only
    FlushSize,
    ChanCap,    \* capacity of a shard's channel (flushSize * 4 in the code)
    MaxRetries, \* putDataMaxRetries
    StoreFails, \* db.Put and db.PutBatch may fail for other reasons
    None

ASSUME BatcherAssumption ==
    /\ Row \in [Ids -> [set : Sets, key : Keys, vals : [Cols -> Types \cup {None}]]]
    /\ Routes \subseteq [Keys -> Shards]
    /\ Load \in [Workers -> Seq(Ids)]
    /\ {FlushSize, ChanCap, MaxRetries} \subseteq Nat \ {0}
    /\ StoreFails \in BOOLEAN /\ None \notin Types

\* No row is submitted twice.
ASSUME LoadAssumption ==
    \A v, w \in Workers : \A i \in DOMAIN Load[v], j \in DOMAIN Load[w] :
        Load[v][i] = Load[w][j] => v = w /\ i = j

\* No row stored is None.
ASSUME NoneAssumption == None \notin [id : Ids, vals : [Cols -> Types \cup {None}]]

VARIABLES
    route,     \* route[k]: maphash(k) % nShards under this process's seed
    todo,      \* todo[w]: rows w has not submitted
    chan,      \* chan[s]: inCh of shard s
    pending,   \* pending[s][a]: rows gathered for set a
    flushing,  \* flushing[s]: the sets flushAll has yet to flush
    hand,      \* hand[s]: the rows of the flush under way
    pos,       \* pos[s]: which of them is next
    vals,      \* vals[s]: its values as coerced so far (putDataSingle's current)
    tries,     \* tries[s]: db.Put calls made for it
    pc,        \* pc[s]: where the goroutine is
    closed,    \* "no", "draining" (the channels are closed) or "done"
    schema,    \* schema[a][c]: the type of column c, or None
    table,     \* table[a][k]: the row stored, with the values it got
    order,     \* history: rows in the order of submission
    committed, \* history: rows written
    failed,    \* history: rows logged as lost to an error of the store
    gaveUp     \* history: rows logged as lost to a type conflict

flusher == <<chan, pending, flushing, hand, pos, vals, tries, pc>>
store   == <<schema, table>>
past    == <<order, committed, failed, gaveUp>>
vars    == <<route, todo, chan, pending, flushing, hand, pos, vals, tries, pc,
             closed, schema, table, order, committed, failed, gaveUp>>

Init ==
    /\ route \in Routes
    /\ todo = Load
    /\ chan = [s \in Shards |-> <<>>]
    /\ pending = [s \in Shards |-> [a \in Sets |-> <<>>]]
    /\ flushing = [s \in Shards |-> {}]
    /\ hand = [s \in Shards |-> <<>>]
    /\ pos = [s \in Shards |-> 1]
    /\ vals = [s \in Shards |-> None]
    /\ tries = [s \in Shards |-> 0]
    /\ pc = [s \in Shards |-> "select"]
    /\ closed = "no"
    /\ schema = [a \in Sets |-> [c \in Cols |-> None]]
    /\ table = [a \in Sets |-> [k \in Keys |-> None]]
    /\ order = <<>> /\ committed = {} /\ failed = {} /\ gaveUp = {}

Elems(q) == {q[i] : i \in DOMAIN q}

-----------------------------------------------------------------------------
\* A row goes to any shard that has room.
SubmitAnywhere(w) ==
    /\ todo[w] # <<>>
    /\ \E s \in Shards :
          /\ Len(chan[s]) < ChanCap
          /\ chan' = [chan EXCEPT ![s] = Append(@, Head(todo[w]))]
          /\ order' = Append(order, Head(todo[w]))
    /\ todo' = [todo EXCEPT ![w] = Tail(@)]
    /\ UNCHANGED <<route, pending, flushing, hand, pos, vals, tries, pc, closed,
                   store, committed, failed, gaveUp>>

\* submit blocks while the channel of the key's shard is full.
Submit(w) ==
    /\ todo[w] # <<>>
    /\ LET r == Head(todo[w])
           s == route[Row[r].key]
       IN  /\ Len(chan[s]) < ChanCap
           /\ chan' = [chan EXCEPT ![s] = Append(@, r)]
           /\ order' = Append(order, r)
    /\ todo' = [todo EXCEPT ![w] = Tail(@)]
    /\ UNCHANGED <<route, pending, flushing, hand, pos, vals, tries, pc, closed,
                   store, committed, failed, gaveUp>>

\* A flush that leaves its rows pending.
BeginFlushKeeps(s, p, a) ==
    /\ hand' = [hand EXCEPT ![s] = p[a]]
    /\ pending' = [pending EXCEPT ![s] = p]
    /\ pos' = [pos EXCEPT ![s] = 1]
    /\ pc' = [pc EXCEPT ![s] = "prepare"]

\* A flush of set a begins: its rows leave pending.
BeginFlush(s, p, a) ==
    /\ hand' = [hand EXCEPT ![s] = p[a]]
    /\ pending' = [pending EXCEPT ![s] = [p EXCEPT ![a] = <<>>]]
    /\ pos' = [pos EXCEPT ![s] = 1]
    /\ pc' = [pc EXCEPT ![s] = "prepare"]

\* A row is received; the set that is full by it is flushed.
Receive(s) ==
    /\ pc[s] = "select" /\ flushing[s] = {} /\ chan[s] # <<>>
    /\ LET r == Head(chan[s])
           a == Row[r].set
           p == [pending[s] EXCEPT ![a] = Append(@, r)]
       IN  \/ Len(p[a]) >= FlushSize /\ BeginFlush(s, p, a)
           \/ /\ Len(p[a]) < FlushSize
              /\ pending' = [pending EXCEPT ![s] = p]
              /\ UNCHANGED <<hand, pos, pc>>
    /\ chan' = [chan EXCEPT ![s] = Tail(@)]
    /\ UNCHANGED <<route, todo, flushing, vals, tries, closed, store, past>>

Waiting(s) == {a \in Sets : pending[s][a] # <<>>}

\* A timer that is not set again.
AgeNever(s) ==
    /\ pc[s] = "select" /\ flushing[s] = {} /\ Waiting(s) # {}
    /\ UNCHANGED vars

\* The timer has fired: flushAll.
Age(s) ==
    /\ pc[s] = "select" /\ flushing[s] = {} /\ Waiting(s) # {}
    /\ flushing' = [flushing EXCEPT ![s] = Waiting(s)]
    /\ UNCHANGED <<route, todo, chan, pending, hand, pos, vals, tries, pc, closed,
                   store, past>>

\* The channel is closed and empty: flushAll, then done is closed.
Finish(s) ==
    /\ pc[s] = "select" /\ flushing[s] = {} /\ closed = "draining" /\ chan[s] = <<>>
    /\ flushing' = [flushing EXCEPT ![s] = Waiting(s)]
    /\ pc' = [pc EXCEPT ![s] = IF Waiting(s) = {} THEN "exit" ELSE @]
    /\ UNCHANGED <<route, todo, chan, pending, hand, pos, vals, tries, closed,
                   store, past>>

\* flushAll walks pending in any order.
FlushNext(s) ==
    /\ pc[s] = "select"
    /\ \E a \in flushing[s] :
          /\ BeginFlush(s, pending[s], a)
          /\ flushing' = [flushing EXCEPT ![s] = @ \ {a}]
    /\ UNCHANGED <<route, todo, chan, vals, tries, closed, store, past>>
-----------------------------------------------------------------------------
\* The columns of values v that have another type in set a.
Conflicts(a, v) ==
    {c \in Cols : v[c] # None /\ schema[a][c] # None /\ v[c] # schema[a][c]}

\* The schema of a set once a row with values v was prepared for it.
Learn(a, v) ==
    [schema EXCEPT ![a] = [c \in Cols |-> IF @[c] = None THEN v[c] ELSE @[c]]]

\* The flush is over.
Done(s) ==
    /\ hand' = [hand EXCEPT ![s] = <<>>]
    /\ pos' = [pos EXCEPT ![s] = 1]
    /\ pc' = [pc EXCEPT ![s] = "select"]

\* PutBatch resolves the columns of one row after the other; new ones are
\* persisted then and there.  A conflict fails the batch.
Prepare(s) ==
    /\ pc[s] = "prepare"
    /\ LET r == hand[s][pos[s]]
           a == Row[r].set
           v == Row[r].vals
       IN  \/ /\ Conflicts(a, v) # {}
              /\ pos' = [pos EXCEPT ![s] = 1]
              /\ vals' = [vals EXCEPT ![s] = Row[hand[s][1]].vals]
              /\ tries' = [tries EXCEPT ![s] = 0]
              /\ pc' = [pc EXCEPT ![s] = "put"]
              /\ UNCHANGED schema
           \/ /\ Conflicts(a, v) = {}
              /\ schema' = Learn(a, v)
              /\ pos' = [pos EXCEPT ![s] = @ + 1]
              /\ pc' = [pc EXCEPT ![s] = IF pos[s] = Len(hand[s]) THEN "commit" ELSE @]
              /\ UNCHANGED <<vals, tries>>
    /\ UNCHANGED <<route, todo, chan, pending, flushing, hand, closed, table, past>>

\* The batch is committed: all of its rows, the last one of a key wins.
Commit(s) ==
    /\ pc[s] = "commit"
    /\ LET a == Row[hand[s][1]].set
       IN  table' = [table EXCEPT ![a] = [k \in Keys |->
              LET mine == {i \in DOMAIN hand[s] : Row[hand[s][i]].key = k}
                  last == CHOOSE i \in mine : \A j \in mine : j <= i
              IN  IF mine = {} THEN @[k]
                  ELSE [id |-> hand[s][last], vals |-> Row[hand[s][last]].vals]]]
    /\ committed' = committed \cup Elems(hand[s])
    /\ Done(s)
    /\ UNCHANGED <<route, todo, chan, pending, flushing, vals, tries, closed, schema,
                   order, failed, gaveUp>>

\* Any other error of PutBatch is logged and its rows are gone.
BatchFails(s) ==
    /\ StoreFails /\ pc[s] \in {"prepare", "commit"}
    /\ failed' = failed \cup Elems(hand[s])
    /\ Done(s)
    /\ UNCHANGED <<route, todo, chan, pending, flushing, vals, tries, closed, store,
                   order, committed, gaveUp>>
-----------------------------------------------------------------------------
\* On to the next row of the fallback.
NextRow(s) ==
    /\ tries' = [tries EXCEPT ![s] = 0]
    /\ IF pos[s] = Len(hand[s])
       THEN Done(s) /\ vals' = [vals EXCEPT ![s] = None]
       ELSE /\ pos' = [pos EXCEPT ![s] = @ + 1]
            /\ vals' = [vals EXCEPT ![s] = Row[hand[s][pos[s] + 1]].vals]
            /\ UNCHANGED hand /\ pc' = [pc EXCEPT ![s] = "put"]

\* A single db.Put of the row as coerced so far.
PutSingle(s) ==
    /\ pc[s] = "put"
    /\ LET r == hand[s][pos[s]]
           a == Row[r].set
       IN  \/ /\ Conflicts(a, vals[s]) # {}
              /\ tries' = [tries EXCEPT ![s] = @ + 1]
              /\ pc' = [pc EXCEPT ![s] = "coerce"]
              /\ UNCHANGED <<store, committed, hand, pos, vals>>
           \/ /\ Conflicts(a, vals[s]) = {}
              /\ schema' = Learn(a, vals[s])
              /\ table' = [table EXCEPT ![a][Row[r].key] = [id |-> r, vals |-> vals[s]]]
              /\ committed' = committed \cup {r}
              /\ NextRow(s)
    /\ UNCHANGED <<route, todo, chan, pending, flushing, closed, order, failed, gaveUp>>

\* Another error of Put: the row is logged and gone.
PutFails(s) ==
    /\ StoreFails /\ pc[s] = "put"
    /\ failed' = failed \cup {hand[s][pos[s]]}
    /\ NextRow(s)
    /\ UNCHANGED <<route, todo, chan, pending, flushing, closed, store,
                   order, committed, gaveUp>>

\* What coerceRow may make of a value of type have in a column of type want: a
\* value it cannot convert is left out of the row.
Coerced(have, want) ==
    IF have = None \/ want = None \/ have = want THEN {have}
    ELSE (IF <<have, want>> \in Widens \cup Parses THEN {want} ELSE {})
         \cup (IF <<have, want>> \in Widens THEN {} ELSE {None})

\* A loop that ends one try early.
CoerceEarly(s) ==
    /\ pc[s] = "coerce"
    /\ \/ /\ tries[s] + 1 >= MaxRetries
          /\ gaveUp' = gaveUp \cup {hand[s][pos[s]]}
          /\ NextRow(s)
       \/ /\ tries[s] + 1 < MaxRetries
          /\ LET a == Row[hand[s][pos[s]]].set
             IN  vals' = [vals EXCEPT ![s] = [c \in Cols |->
                    CHOOSE t \in Coerced(@[c], schema[a][c]) : TRUE]]
          /\ pc' = [pc EXCEPT ![s] = "put"]
          /\ UNCHANGED <<gaveUp, tries, hand, pos>>
    /\ UNCHANGED <<route, todo, chan, pending, flushing, closed, store,
                   order, committed, failed>>

\* The schema is read again and the row coerced to it; after MaxRetries
\* conflicts the row is logged and gone.
Coerce(s) ==
    /\ pc[s] = "coerce"
    /\ \/ /\ tries[s] >= MaxRetries
          /\ gaveUp' = gaveUp \cup {hand[s][pos[s]]}
          /\ NextRow(s)
       \/ /\ tries[s] < MaxRetries
          /\ LET a == Row[hand[s][pos[s]]].set
             IN  \E v \in [Cols -> Types \cup {None}] :
                    /\ \A c \in Cols : v[c] \in Coerced(vals[s][c], schema[a][c])
                    /\ vals' = [vals EXCEPT ![s] = v]
          /\ pc' = [pc EXCEPT ![s] = "put"]
          /\ UNCHANGED <<gaveUp, tries, hand, pos>>
    /\ UNCHANGED <<route, todo, chan, pending, flushing, closed, store,
                   order, committed, failed>>
-----------------------------------------------------------------------------
\* close, once the workers are gone: the channels are closed,
Close ==
    /\ closed = "no" /\ \A w \in Workers : todo[w] = <<>>
    /\ closed' = "draining"
    /\ UNCHANGED <<route, todo, flusher, store, past>>

\* and every shard is waited for.
Closed ==
    /\ closed = "draining" /\ \A s \in Shards : pc[s] = "exit"
    /\ closed' = "done"
    /\ UNCHANGED <<route, todo, flusher, store, past>>

ShardStep(s) ==
    \/ Receive(s) \/ Age(s) \/ Finish(s) \/ FlushNext(s)
    \/ Prepare(s) \/ Commit(s) \/ PutSingle(s) \/ Coerce(s)

Next ==
    \/ \E w \in Workers : Submit(w)
    \/ \E s \in Shards : ShardStep(s) \/ BatchFails(s) \/ PutFails(s)
    \/ Close \/ Closed

Spec == Init /\ [][Next]_vars

\* The shards' goroutines run.
Fairness == WF_vars(Closed) /\ \A s \in Shards : WF_vars(ShardStep(s))

FairSpec == Spec /\ Fairness
=============================================================================
