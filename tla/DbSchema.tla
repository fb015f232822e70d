------------------------------ MODULE DbSchema ------------------------------
(***************************************************************************)
(* The schema of one set of src/pkg/agi/db while its rows are written:     *)
(* writers add the columns they meet, RegisterSet declares columns and the *)
(* indexed one, DropColumn retires a column.  Stored rows name columns by  *)
(* colID only.  On an indexed set D/ holds a pointer and the row is the    *)
(* value of its index entry; on an unindexed set D/ holds the row.         *)
(*                                                                         *)
(* Which indexed value a row has plays no part here (DbRow): a key has at  *)
(* most one index entry per column.  A cell stands for a value; it         *)
(* remembers the column it was written to and how often that column had    *)
(* been dropped by then.                                                   *)
(***************************************************************************)
EXTENDS Naturals, FiniteSets

CONSTANTS
    Procs, Keys,
    Names,        \* column names, all of one type
    MaxCol,       \* bound: colIDs are 0..MaxCol
    Requests,     \* the calls goroutines make
    FirstIndexed, \* the indexed column the set is registered with, or None
    PutModes,     \* which of AssumeNew = TRUE, FALSE the callers may all use
    CanCrash,
    None, Ptr,    \* nothing; an index pointer in D/
    Corrupt, Ok, Err, Pending

ASSUME SchemaAssumption ==
    /\ MaxCol \in Nat /\ Keys \subseteq Nat /\ IsFiniteSet(Names)
    /\ PutModes \subseteq BOOLEAN /\ CanCrash \in BOOLEAN
    /\ FirstIndexed \in Names \cup {None}
    /\ Requests \subseteq [op : {"put"}, key : Keys, names : (SUBSET Names) \ {{}}]
                     \cup [op : {"get"}, key : Keys]
                     \cup [op : {"register"}, name : Names, indexed : BOOLEAN]
                     \cup [op : {"drop"}, name : Names]

ColIds == 0..MaxCol

Cells == [name : Names, drops : Nat]

\* What is no name and no row is told from them: from a row as it is stored, by
\* colID, as from one that Get hands out, by name.
ASSUME NoneAssumption ==
    /\ None \notin ColIds \cup Names \cup Procs /\ Ptr # None
    /\ \A C \in SUBSET ColIds : {None, Ptr} \cap [C -> Cells] = {}
    /\ \A N \in SUBSET Names : {None, Corrupt} \cap [N -> Cells] = {}
    /\ Corrupt \notin {None, Ok, Err, Pending}
    /\ \A N \in SUBSET Names : Corrupt \notin [row : [N -> Cells]]

VARIABLES
    schema,   \* setSchema: cols[n] the colID of n, next NextColID, index IndexedCol
    disk,     \* Pebble: rec the schema record, data D/, entry I/, drops (history)
    durable,  \* what of it survives a crash
    lock,     \* lock[k]: the goroutine holding the row lock of k
    smu,      \* the goroutine holding s.mu exclusively
    req, pc, ret,
    entries,  \* entries[p]: the encoded row p writes or has read
    idx,      \* idx[p]: p's snapshot of the indexed column's colID
    assumeNew \* PutBatch takes no row lock; never changes

vars == <<schema, disk, durable, lock, smu, req, pc, ret, entries, idx, assumeNew>>

Empty == [c \in {} |-> None]

\* The column the set was registered with has colID 0.
FirstSchema ==
    [cols  |-> [n \in Names |-> IF n = FirstIndexed THEN 0 ELSE None],
     next  |-> IF FirstIndexed = None THEN 0 ELSE 1,
     index |-> FirstIndexed]

Init ==
    /\ schema = FirstSchema
    /\ disk = [rec |-> FirstSchema, data |-> [k \in Keys |-> None],
               entry |-> [k \in Keys |-> [c \in ColIds |-> None]],
               drops |-> [n \in Names |-> 0]]
    /\ durable = disk
    /\ lock = [k \in Keys |-> None]
    /\ smu = None
    /\ req = [p \in Procs |-> None]
    /\ pc = [p \in Procs |-> "idle"]
    /\ ret = [p \in Procs |-> Pending]
    /\ entries = [p \in Procs |-> Empty]
    /\ idx = [p \in Procs |-> None]
    /\ assumeNew \in PutModes

Go(p, l) == pc' = [pc EXCEPT ![p] = l]

\* The deferred unlocks; the outcome stays visible until the next call.
Finish(p, out) ==
    /\ Go(p, "idle")
    /\ ret' = [ret EXCEPT ![p] = out]
    /\ lock' = [k \in Keys |-> IF lock[k] = p THEN None ELSE lock[k]]
    /\ smu' = IF smu = p THEN None ELSE smu
    /\ entries' = [entries EXCEPT ![p] = Empty]
    /\ idx' = [idx EXCEPT ![p] = None]
    /\ UNCHANGED req

Stay == UNCHANGED <<lock, smu, req, ret, entries, idx>>

IndexedId(s) == IF s.index = None THEN None ELSE s.cols[s.index]

\* addColumn with a counter that is reset to the lowest free colID.
AddColumnsReuse(s, names, index) ==
    LET new  == {n \in names : s.cols[n] = None}
        used == {s.cols[n] : n \in Names}
        free == CHOOSE c \in ColIds : c \notin used /\ \A b \in ColIds \ used : c <= b
    IN  {[cols |-> [n \in Names |-> IF n \in new THEN free ELSE s.cols[n]],
          next |-> s.next + 1, index |-> index]}

\* addColumn for every unknown name of a row, in the order the row's map is
\* walked: the schemas that may result.
AddColumns(s, names, index) ==
    LET new == {n \in names : s.cols[n] = None}
        top == s.next + Cardinality(new)
    IN  {[cols |-> [n \in Names |-> IF n \in new THEN f[n] ELSE s.cols[n]],
          next |-> top, index |-> index] :
            f \in {g \in [new -> s.next..top - 1] :
                      \A a, b \in new : g[a] = g[b] => a = b}}

\* The cells of a row by colID.
Encode(s, names) ==
    [c \in {s.cols[n] : n \in names} |->
        LET n == CHOOSE m \in names : s.cols[m] = c
        IN  [name |-> n, drops |-> disk.drops[n]]]

\* rowFromColIDs: the cells whose colID the schema still knows.
Decode(s, row) ==
    [n \in {m \in Names : s.cols[m] \in DOMAIN row} |-> row[s.cols[n]]]

Call(p, r) ==
    /\ pc[p] = "idle"
    /\ req' = [req EXCEPT ![p] = r]
    /\ ret' = [ret EXCEPT ![p] = Pending]
    /\ Go(p, CASE r.op = "put" -> "prepare" [] r.op = "get" -> "getdata"
               [] r.op = "register" -> "reglock" [] r.op = "drop" -> "drain")
    /\ UNCHANGED <<schema, disk, durable, lock, smu, entries, idx>>
-----------------------------------------------------------------------------
AfterPrepare == IF assumeNew THEN "snapshot" ELSE "lock"

\* prepareEntriesForSet, s.mu held shared: every column is known.
PrepareFast(p) ==
    /\ pc[p] = "prepare" /\ smu = None
    /\ \A n \in req[p].names : schema.cols[n] # None
    /\ entries' = [entries EXCEPT ![p] = Encode(schema, req[p].names)]
    /\ Go(p, AfterPrepare)
    /\ UNCHANGED <<schema, disk, durable, lock, smu, req, ret, idx>>

\* Some column is not: the shared lock is given up,
PrepareMiss(p) ==
    /\ pc[p] = "prepare" /\ smu = None
    /\ \E n \in req[p].names : schema.cols[n] = None
    /\ Go(p, "preplock")
    /\ Stay /\ UNCHANGED <<schema, disk, durable>>

\* and s.mu is taken exclusively.
PrepareLock(p) ==
    /\ pc[p] = "preplock" /\ smu = None
    /\ smu' = p
    /\ Go(p, "persist")
    /\ UNCHANGED <<schema, disk, durable, lock, req, ret, entries, idx>>

\* A slow path that adds the columns without looking again.
PersistAgain(p) ==
    /\ pc[p] = "persist"
    /\ LET missed == [schema EXCEPT !.cols = [n \in Names |->
                        IF n \in req[p].names \ {schema.index} THEN None ELSE @[n]]]
       IN  \E s \in AddColumns(missed, req[p].names, schema.index) :
              /\ s.next <= MaxCol + 1
              /\ schema' = s
              /\ disk' = [disk EXCEPT !.rec = s]
              /\ entries' = [entries EXCEPT ![p] = Encode(s, req[p].names)]
    /\ smu' = None
    /\ Go(p, AfterPrepare)
    /\ UNCHANGED <<durable, lock, req, ret, idx>>

\* The columns are looked at again, added, and the record is persisted if it
\* has changed.
Persist(p) ==
    /\ pc[p] = "persist"
    /\ \E s \in AddColumns(schema, req[p].names, schema.index) :
          /\ s.next <= MaxCol + 1
          /\ schema' = s
          /\ disk' = [disk EXCEPT !.rec = s]
          /\ entries' = [entries EXCEPT ![p] = Encode(s, req[p].names)]
    /\ smu' = None
    /\ Go(p, AfterPrepare)
    /\ UNCHANGED <<durable, lock, req, ret, idx>>

\* persistSchema fails: restore(checkpoint).
PersistFails(p) ==
    /\ pc[p] = "persist"
    /\ \E n \in req[p].names : schema.cols[n] = None
    /\ Finish(p, Err)
    /\ UNCHANGED <<schema, disk, durable>>

LockRow(p) ==
    /\ pc[p] = "lock"
    /\ lock[req[p].key] = None
    /\ lock' = [lock EXCEPT ![req[p].key] = p]
    /\ Go(p, "snapshot")
    /\ UNCHANGED <<schema, disk, durable, smu, req, ret, entries, idx>>

\* indexedColumnSnapshot; a row without the indexed column is rejected.
Snapshot(p) ==
    /\ pc[p] = "snapshot" /\ smu = None
    /\ LET c == IndexedId(schema)
       IN  IF c # None /\ c \notin DOMAIN entries[p]
           THEN Finish(p, Err)
           ELSE /\ idx' = [idx EXCEPT ![p] = c]
                /\ Go(p, "commit")
                /\ UNCHANGED <<lock, smu, req, ret, entries>>
    /\ UNCHANGED <<schema, disk, durable>>

\* The batch: pointer and entry on a set that was indexed at the snapshot, else
\* the row in D/.
Commit(p) ==
    /\ pc[p] = "commit"
    /\ disk' = LET k == req[p].key
               IN  IF idx[p] = None
                   THEN [disk EXCEPT !.data[k] = entries[p]]
                   ELSE [disk EXCEPT !.data[k] = Ptr, !.entry[k][idx[p]] = entries[p]]
    /\ Finish(p, Ok)
    /\ UNCHANGED <<schema, durable>>

CommitFails(p) ==
    /\ pc[p] \in {"commit", "dropcommit"}
    /\ Finish(p, Err)
    /\ UNCHANGED <<schema, disk, durable>>
-----------------------------------------------------------------------------
\* RegisterSet of one column, s.mu held exclusively.
RegisterLock(p) ==
    /\ pc[p] = "reglock" /\ smu = None
    /\ smu' = p
    /\ Go(p, "register")
    /\ UNCHANGED <<schema, disk, durable, lock, req, ret, entries, idx>>

\* addColumn refuses to promote a known column and to index twice; else the
\* new column is persisted, or restored if that fails.
Register(p) ==
    /\ pc[p] = "register"
    /\ LET n       == req[p].name
           known   == schema.cols[n] # None
           refused == req[p].indexed /\ IF known THEN schema.index # n
                                                 ELSE schema.index # None
       IN  \/ refused /\ Finish(p, Err) /\ UNCHANGED <<schema, disk>>
           \/ ~refused /\ known /\ Finish(p, Ok) /\ UNCHANGED <<schema, disk>>
           \/ /\ ~refused /\ ~known /\ schema.next <= MaxCol
              /\ \E s \in AddColumns(schema, {n}, IF req[p].indexed THEN n
                                                  ELSE schema.index) :
                    schema' = s /\ disk' = [disk EXCEPT !.rec = s]
              /\ Finish(p, Ok)
           \/ ~refused /\ ~known /\ Finish(p, Err) /\ UNCHANGED <<schema, disk>>
    /\ UNCHANGED durable

\* DropColumn: every row lock in order, then s.mu.
Drain(p) ==
    /\ pc[p] = "drain"
    /\ \E k \in Keys :
          /\ lock[k] = None
          /\ \A j \in Keys : j < k => lock[j] = p
          /\ lock' = [lock EXCEPT ![k] = p]
          /\ Go(p, IF \A j \in Keys : j <= k THEN "droplock" ELSE "drain")
    /\ UNCHANGED <<schema, disk, durable, smu, req, ret, entries, idx>>

DropLock(p) ==
    /\ pc[p] = "droplock" /\ smu = None
    /\ IF schema.cols[req[p].name] = None
       THEN Finish(p, Ok)
       ELSE /\ smu' = p
            /\ Go(p, "dropcommit")
            /\ UNCHANGED <<lock, req, ret, entries, idx>>
    /\ UNCHANGED <<schema, disk, durable>>

\* A drop that leaves the set unindexed whatever the column.
DropColumnUnindexes(p) ==
    /\ pc[p] = "dropcommit"
    /\ LET n == req[p].name
           s == [schema EXCEPT !.cols[n] = None, !.index = None]
       IN  schema' = s /\ disk' = [disk EXCEPT !.rec = s, !.drops[n] = @ + 1]
    /\ Finish(p, Ok)
    /\ UNCHANGED durable

\* The name and its colID are retired; the entries of an indexed column go too.
DropColumn(p) ==
    /\ pc[p] = "dropcommit"
    /\ LET n == req[p].name
           c == schema.cols[n]
           s == [schema EXCEPT !.cols[n] = None,
                               !.index = IF @ = n THEN None ELSE @]
       IN  /\ schema' = s
           /\ disk' = [disk EXCEPT !.rec = s, !.drops[n] = @ + 1,
                          !.entry = [k \in Keys |-> [b \in ColIds |->
                              IF schema.index = n /\ b = c THEN None ELSE @[k][b]]]]
    /\ Finish(p, Ok)
    /\ UNCHANGED durable
-----------------------------------------------------------------------------
\* Get: D/ first.
GetData(p) ==
    /\ pc[p] = "getdata"
    /\ LET v == disk.data[req[p].key]
       IN  IF v = None
           THEN Finish(p, None)
           ELSE /\ entries' = [entries EXCEPT ![p] = v]
                /\ Go(p, "getsnap")
                /\ UNCHANGED <<lock, smu, req, ret, idx>>
    /\ UNCHANGED <<schema, disk, durable>>

\* Then the snapshot: on an indexed set what was read must be a pointer.  On an
\* unindexed one a pointer decodes as a row without columns (its first bytes
\* are the column count 0).
GetSnapshot(p) ==
    /\ pc[p] = "getsnap" /\ smu = None
    /\ LET c == IndexedId(schema)
       IN  \/ c # None /\ entries[p] # Ptr /\ Finish(p, Corrupt)
           \/ /\ c # None /\ entries[p] = Ptr
              /\ idx' = [idx EXCEPT ![p] = c] /\ Go(p, "getentry")
              /\ UNCHANGED <<lock, smu, req, ret, entries>>
           \/ /\ c = None
              /\ entries' = [entries EXCEPT ![p] = IF @ = Ptr THEN Empty ELSE @]
              /\ Go(p, "decode")
              /\ UNCHANGED <<lock, smu, req, ret, idx>>
    /\ UNCHANGED <<schema, disk, durable>>

\* Then the entry the pointer names; a missing one is no row.
GetEntry(p) ==
    /\ pc[p] = "getentry"
    /\ LET v == disk.entry[req[p].key][idx[p]]
       IN  IF v = None
           THEN Finish(p, None)
           ELSE /\ entries' = [entries EXCEPT ![p] = v]
                /\ Go(p, "decode")
                /\ UNCHANGED <<lock, smu, req, ret, idx>>
    /\ UNCHANGED <<schema, disk, durable>>

\* Then the names, s.mu held shared again.
GetDecode(p) ==
    /\ pc[p] = "decode" /\ smu = None
    /\ Finish(p, [row |-> Decode(schema, entries[p])])
    /\ UNCHANGED <<schema, disk, durable>>
-----------------------------------------------------------------------------
Flush ==
    /\ CanCrash
    /\ durable' = disk
    /\ UNCHANGED <<schema, disk, lock, smu, req, pc, ret, entries, idx>>

\* The process dies; loadSchemas reads the record back.
Crash ==
    /\ CanCrash
    /\ disk' = durable
    /\ schema' = durable.rec
    /\ lock' = [k \in Keys |-> None]
    /\ smu' = None
    /\ req' = [p \in Procs |-> None]
    /\ pc' = [p \in Procs |-> "idle"]
    /\ ret' = [p \in Procs |-> Pending]
    /\ entries' = [p \in Procs |-> Empty]
    /\ idx' = [p \in Procs |-> None]
    /\ UNCHANGED durable

Step(p) ==
    \/ PrepareFast(p) \/ PrepareMiss(p) \/ PrepareLock(p) \/ Persist(p) \/ PersistFails(p)
    \/ LockRow(p) \/ Snapshot(p) \/ Commit(p) \/ CommitFails(p)
    \/ RegisterLock(p) \/ Register(p)
    \/ Drain(p) \/ DropLock(p) \/ DropColumn(p)
    \/ GetData(p) \/ GetSnapshot(p) \/ GetEntry(p) \/ GetDecode(p)

Next ==
    /\ \/ \E p \in Procs : (\E r \in Requests : Call(p, r)) \/ Step(p)
       \/ Flush
       \/ Crash
    /\ UNCHANGED assumeNew

Spec == Init /\ [][Next]_vars
=============================================================================
