----------------------------- MODULE MCDbSchema -----------------------------
(***************************************************************************)
(* What must hold of a set's schema and rows together, and small instances *)
(* with the columns ts and a.                                              *)
(***************************************************************************)
EXTENDS DbSchema, TLC

CONSTANTS ts, a

\* What Get would answer for k now.
View(k) ==
    LET c == IndexedId(schema)
        v == disk.data[k]
    IN  IF v = None THEN None
        ELSE IF c = None THEN Decode(schema, IF v = Ptr THEN Empty ELSE v)
        ELSE IF v # Ptr THEN Corrupt
        ELSE IF disk.entry[k][c] = None THEN None
        ELSE Decode(schema, disk.entry[k][c])

IsSchema(s) ==
    /\ s.cols \in [Names -> ColIds \cup {None}]
    /\ s.next \in 0..MaxCol + 1
    /\ s.index \in Names \cup {None}

\* The type invariant.
TypeOK ==
    /\ IsSchema(schema) /\ IsSchema(disk.rec) /\ IsSchema(durable.rec)
    /\ schema.index # None => schema.cols[schema.index] # None
    /\ \A n \in Names : schema.cols[n] # None => schema.cols[n] < schema.next
    /\ lock \in [Keys -> Procs \cup {None}] /\ smu \in Procs \cup {None}
    /\ idx \in [Procs -> ColIds \cup {None}]

\* Every row held anywhere: in D/, in an index entry, or by a goroutine that
\* is about to write it or has just read it.
HeldRows ==
    ({disk.data[k] : k \in Keys} \cup {disk.entry[k][c] : k \in Keys, c \in ColIds}
        \cup {entries[p] : p \in Procs}) \ {None, Ptr}

\* A stored value surfaces only under the column it was written to, and never
\* again once that column was dropped, even if its name is added back
\* (DropColumn: it does not resurrect the old one; addColumn, restore).  So it
\* is after a restart too: whenever s.mu is free the schema in memory is the one
\* on disk, a failed persist being rolled back (schemaCheckpoint).
ValuesKeepTheirColumn ==
    /\ TypeOK
    /\ \A row \in HeldRows : \A n \in DOMAIN Decode(schema, row) :
         Decode(schema, row)[n] = [name |-> n, drops |-> disk.drops[n]]
    /\ smu = None => schema = disk.rec

\* The column the set was registered with still is the indexed one.
KeepsIndex == FirstIndexed # None /\ disk.drops[FirstIndexed] = 0

\* On a set that keeps its indexed column every row that was stored and not
\* overwritten can be read back: D/ holds a pointer, and no row is taken for
\* corrupt (errCorruptIndexedValue is documented as on-disk corruption).  And
\* with writers that take the row locks no index entry is left under a column
\* that is not the indexed one, so that no row has two (DropColumn).
RowsReadable ==
    /\ KeepsIndex =>
         /\ \A k \in Keys : disk.data[k] # None =>
               disk.data[k] = Ptr /\ View(k) \notin {None, Corrupt}
         /\ \A p \in Procs : ret[p] # Corrupt
    /\ ~assumeNew =>
         \A k \in Keys, c \in ColIds : disk.entry[k][c] # None => c = IndexedId(disk.rec)

\* On such a set a Put that is acknowledged is visible: each of its values,
\* unless its column was dropped after the Put had resolved it.
PutIsVisible ==
    [][\A p \in Procs : KeepsIndex /\ Commit(p) =>
         \A c \in DOMAIN entries[p] :
             LET cell == entries[p][c]
                 row  == View(req[p].key)'
             IN  cell.drops = disk.drops[cell.name] =>
                    /\ row \notin {None, Corrupt} /\ cell.name \in DOMAIN row
                    /\ row[cell.name] = cell]_vars

\* DropColumn hides the one column: what Get shows of the others stays
\* (DropColumn: the data simply stops being surfaced).
DropHidesOneColumn ==
    [][\A p \in Procs : DropColumn(p) =>
         \A k \in Keys : View(k) \in {None, Corrupt} \/
             /\ View(k)' \notin {None, Corrupt}
             /\ \A n \in DOMAIN View(k) \ {req[p].name} :
                   n \in DOMAIN View(k)' /\ View(k)'[n] = View(k)[n]]_vars

Put(names) == [op |-> "put", key |-> 1, names |-> names]
Get1 == [op |-> "get", key |-> 1]
Reg(n, indexed) == [op |-> "register", name |-> n, indexed |-> indexed]
DropReq(n) == [op |-> "drop", name |-> n]

\* Everything, the indexed column dropped and declared again included.
AllRequests == {Put({ts, a}), Put({a}), Get1, Reg(ts, TRUE), DropReq(ts),
                DropReq(a)}

\* Goroutines are alike.
MCSymmetry == Permutations(Procs)
=============================================================================
