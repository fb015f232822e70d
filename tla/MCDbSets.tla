------------------------------ MODULE MCDbSets ------------------------------
(***************************************************************************)
(* What must hold of the life of sets, and small instances of it.          *)
(***************************************************************************)
EXTENDS DbSets

Labels == {"idle", "ensure", "create", "prepare", "persist", "lookup", "lock", "check",
           "write", "open", "unmap", "flag", "drain", "seal", "drop", "closing"}

\* Where a DropSet has unmapped the name and not yet returned.
Dropping == {"flag", "drain", "seal", "drop"}

DiskType == [rec : [Ids -> Names \cup {None}], rows : [Ids -> SUBSET Keys],
             next : 1..MaxId + 1, retired : SUBSET Ids]

\* The type invariant.
TypeOK ==
    /\ byName \in [Names -> Ids \cup {None}]
    /\ nextID \in 1..MaxId + 1
    /\ dropped \subseteq Ids
    /\ disk \in DiskType /\ durable \in DiskType
    /\ stripe \in [Keys -> Procs \cup {None}]
    /\ smu \in [Ids -> Procs \cup {None}]
    /\ closing \subseteq Procs /\ closed \in BOOLEAN
    /\ iters \in [Procs -> 0..1]
    /\ call \in [Procs -> Calls \cup {None}]
    /\ pc \in [Procs -> Labels]
    /\ sid \in [Procs -> Ids \cup {None}]
    /\ botched \subseteq Names

\* Nothing is ever stored under a set ID whose drop has committed: neither a row
\* by a writer that looked the set up before, nor the schema record by one that
\* was adding a column (setSchema.dropped, DropSet).
RetiredStayEmpty ==
    \A i \in disk.retired : disk.rows[i] = {} /\ disk.rec[i] = None

\* While no DropSet is under way, every name is mapped to a set whose schema
\* record names it, and, unless a DropSet of it has failed or was cut short by a
\* crash, the map shows every stored set: none is hidden from its callers, and reopening the store shows
\* the same sets (DropSet, ensureSet).
MapMatchesRecords ==
    /\ TypeOK
    /\ (~closed /\ \A p \in Procs : pc[p] \notin Dropping) =>
         \A n \in Names :
            /\ byName[n] # None => disk.rec[byName[n]] = n
            /\ n \notin botched => \A i \in Ids : disk.rec[i] = n => byName[n] = i

\* A set is created under an ID that holds nothing and never did since the
\* store last fell back to its durable state (nextSetID).
FreshSetIsEmpty ==
    [][\A i \in Ids :
         (\E p \in Procs : Create(p)) /\ disk.rec[i] = None /\ disk'.rec[i] # None =>
             disk.rows[i] = {} /\ i \notin disk.retired]_vars

\* Nobody uses the Pebble handle once Close has torn it down: neither an
\* operation in flight nor an open iterator (acquire, Close, iterOpen).
NoUseAfterClose == closed => Inside = {} /\ \A p \in Procs : iters[p] = 0

\* p cannot go on before q does.
WaitsFor(p, q) ==
    \/ pc[p] = "lock" /\ stripe[call[p].key] = q
    \/ pc[p] = "drain" /\ p # q /\ \E k \in Keys : stripe[k] = q /\ \A j \in Keys : j < k => stripe[j] = p
    \/ pc[p] \in {"prepare", "write", "open", "seal"} /\ smu[sid[p]] = q
    \/ pc[p] = "closing" /\ q \in Inside

\* No goroutines wait for each other in a circle, whatever mixture of writers,
\* column additions, DropSet's drain of all stripes and Close is under way: the
\* locks are taken in one global order.
NoCircularWait ==
    ~\E ring \in (SUBSET Procs) \ {{}} : \A p \in ring : \E q \in ring : WaitsFor(p, q)
=============================================================================
