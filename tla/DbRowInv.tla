------------------------------ MODULE DbRowInv ------------------------------
(***************************************************************************)
(* What must hold of the row path.  Some properties hold only for callers  *)
(* that keep the contract of AssumeNew (crud.go, the comments in PutBatch);*)
(* AssumeNewContract states it about the constant Requests.                *)
(***************************************************************************)
EXTENDS DbRow

\* The rows a request may write at k.
WritesAt(r, k) ==
    IF r.op = "put" THEN {r.items[i].row : i \in {j \in DOMAIN r.items : r.items[j].key = k}}
    ELSE IF r.op = "update" /\ r.key = k
         THEN {r.fn[o].row : o \in {x \in DOMAIN r.fn : r.fn[x].commit}} \ {None}
         ELSE {}

TimesAt(r, k) == {w.ts : w \in WritesAt(r, k)} \ {NoTime}

\* Keys some caller writes with AssumeNew.
NewKeys == {k \in Keys : \E r \in Requests : r.op = "put" /\
                \E i \in DOMAIN r.items : r.items[i].key = k /\ r.items[i].new}

\* The contract of AssumeNew: whoever writes a key that is ever written with
\* AssumeNew gives it the same indexed value (the key is a hash of the log
\* line, and the line determines the timestamp).  The second conjunct is not
\* written down in the code: a batch that names a key twice gives it the same
\* indexed value both times.
AssumeNewContract ==
    /\ \A k \in NewKeys : \A r1, r2 \in Requests :
          \A t1 \in TimesAt(r1, k), t2 \in TimesAt(r2, k) : t1 = t2
    /\ \A r \in Requests : r.op = "put" =>
          \A k \in Keys : \A t1, t2 \in TimesAt(r, k) : t1 = t2

\* More of the contract (crud.go: no other writer beside an AssumeNew batch):
\* nobody updates a key that is written with AssumeNew, since the lock that
\* Update holds from reading the row to writing it does not keep such a batch out.
NewKeysNotUpdated == \A r \in Requests : r.op = "update" => r.key \notin NewKeys

BatchType == [d : [Keys -> Times \cup {None, Keep}],
              i : [Keys -> [Times -> Payloads \cup {None, Keep}]]]

StoreType == [d : [Keys -> Times \cup {None}],
              i : [Keys -> [Times -> Payloads \cup {None}]]]

Labels == {"idle", "lock", "stage", "commit", "delread", "updptr", "updrow",
           "updfn", "getptr", "getrow", "return"}

FullRows == [ts : Times, val : Payloads]

\* The type invariant: every variable stays in its domain.
TypeOK ==
    /\ [d |-> data, i |-> index] \in StoreType
    /\ durable \in StoreType
    /\ lock \in [Stripes -> Procs \cup {None}]
    /\ req \in [Procs -> Requests \cup {None}]
    /\ ret \in [Procs -> FullRows \cup {None, Ok, Err, Pending}]
    /\ pc \in [Procs -> Labels]
    /\ pos \in [Procs -> Nat]
    /\ ptr \in [Procs -> Times \cup {None}]
    /\ old \in [Procs -> FullRows \cup {None}]
    /\ batch \in [Procs -> BatchType]

\* What a goroutine's place in its handler says about its locals.
LocalsOK ==
    \A p \in Procs :
        /\ pc[p] # "idle" => req[p] \in Requests
        /\ pc[p] = "lock" => req[p].op \in {"put", "delete", "update"}
        /\ pc[p] = "stage" => req[p].op = "put" /\ pos[p] < Len(req[p].items)
        /\ pc[p] = "delread" => req[p].op = "delete"
        /\ pc[p] \in {"updptr", "updrow", "updfn"} => req[p].op = "update"
        /\ pc[p] \in {"getptr", "getrow"} => req[p].op = "get"
        /\ pc[p] \in {"updrow", "getrow"} => ptr[p] \in Times
        /\ pc[p] = "updfn" => (old[p] = None) = (ptr[p] = None)
        /\ pc[p] \in {"idle", "lock", "stage", "delread", "updptr", "getptr"} =>
              ptr[p] = None /\ old[p] = None
        /\ pc[p] = "updrow" => old[p] = None
        /\ pc[p] \in {"idle", "lock"} => pos[p] = 0

\* A state of the two keyspaces in which they agree: the pointer of every row
\* resolves, and every index entry is the one a pointer names.
Agree(d, ix) == \A k \in Keys, t \in Times : ix[k][t] # None <=> d[k] = t

\* The D/ and I/ keyspaces agree in every state, in spite of concurrent
\* writers that moved the row to another indexed value, of batches that failed
\* half-staged and of crashes: an indexed scan shows each row exactly once and
\* under its current value, and no pointer dangles (PutBatch, Update, Delete).
IndexMatchesData == Agree(data, index)

\* What a crash falls back to agrees as well: no memtable flush separates the
\* pointer from its entry, because each call writes both in one Pebble batch.
DurableMatches == Agree(durable.d, durable.i)

\* No forward pointer dangles, whatever the callers do: every batch that sets
\* D/ also writes the entry it points at, and one that deletes an entry also
\* rewrites or deletes the pointer.  A dangling pointer would make Get and
\* Update treat a stored row as absent.
PointersResolve ==
    /\ \A k \in Keys : data[k] # None => index[k][data[k]] # None
    /\ \A k \in Keys : durable.d[k] # None => durable.i[k][durable.d[k]] # None

\* The indexed values the callers ever give k.
EverAt(k) == UNION {TimesAt(r, k) : r \in Requests}

\* A goroutine past its locks holds the stripe of every key it works on.
HoldsItsLocks(p) ==
    pc[p] \in {"stage", "commit", "delread", "updptr", "updrow", "updfn"} /\ ~AllNew(req[p]) =>
        \A k \in KeysOf(req[p]) : lock[StripeOf[k]] = p

\* What Update has read is still what is stored, or at least a value k may have.
PointerIsFresh(p) ==
    pc[p] \in {"updrow", "updfn"} =>
        LET k == req[p].key
        IN  IF k \in NewKeys THEN ptr[p] \in EverAt(k) \cup {None} ELSE ptr[p] = data[k]

\* A batch names only keys of its request, and writes the entry of every
\* pointer it sets.
BatchWellFormed(p) ==
    \A k \in Keys :
        /\ batch[p].d[k] = Keep => \A t \in Times : batch[p].i[k][t] = Keep
        /\ batch[p].d[k] # Keep => pc[p] # "idle" /\ k \in KeysOf(req[p])
        /\ batch[p].d[k] \in Times => batch[p].i[k][batch[p].d[k]] \in Payloads

\* Committed on the store as it is now, batch b of request r would leave one
\* entry for each row it sets, the one its pointer names, and none for a row it
\* deletes.
Replaces(b, r) ==
    \A k \in Keys, t \in Times :
        /\ b.d[k] = t => t \in TimesAt(r, k)
        /\ b.i[k][t] \in Payloads => b.d[k] = t
        /\ (k \in NewKeys /\ b.d[k] = None /\ t \in EverAt(k)) => b.i[k][t] = None
        /\ (k \notin NewKeys /\ b.d[k] # Keep /\ index[k][t] # None /\ b.i[k][t] = Keep) =>
              b.d[k] = t

BatchReplacesEntries(p) ==
    pc[p] \in {"stage", "commit"} => Replaces(batch[p], req[p])

\* No batch is staged before the call's critical section.
BatchStartsEmpty(p) ==
    pc[p] \in {"idle", "lock", "delread", "updptr", "updrow", "updfn"} => batch[p] = EmptyBatch

NewKeysFixed(ix) ==
    \A k \in NewKeys, t \in Times : ix[k][t] # None => t \in EverAt(k)

\* Why the keyspaces agree: a locked writer's batch was computed from the
\* pointer that is still stored when it commits, and an AssumeNew writer's from
\* the only indexed value its key can have.  Holds for callers that keep
\* AssumeNewContract.
RowInv ==
    /\ Agree(data, index) /\ Agree(durable.d, durable.i)
    /\ NewKeysFixed(index) /\ NewKeysFixed(durable.i)
    /\ \A p \in Procs :
          /\ HoldsItsLocks(p) /\ PointerIsFresh(p)
          /\ BatchWellFormed(p) /\ BatchReplacesEntries(p) /\ BatchStartsEmpty(p)

\* The stored table, as the callers see it.
Table == [k \in Keys |-> RowAt(data, index, k)]

\* Where each running Get has found its row filed: the pointer it has read and
\* not yet followed.
Filed == [p \in Procs |-> IF pc[p] = "getrow" THEN ptr[p] ELSE None]

Abstract == INSTANCE DbTable WITH
               table <- Table,
               filed <- Filed,
               durable <- [k \in Keys |-> RowAt(durable.d, durable.i, k)]

\* Every call is atomic: the store implements the abstract table, on which a
\* batch, an update of the row just read, and a delete each take effect at one
\* instant, or fail and change nothing, and a Get answers with the row stored
\* when it follows the pointer: it misses a stored row only if the row was moved
\* to another indexed value after the Get had read the pointer.  Holds for callers that keep
\* AssumeNewContract and NewKeysNotUpdated.
AtomicCalls == Abstract!Spec

\* Every call returns: sorted, deduplicated stripe acquisition cannot leave
\* two batches waiting for each other.
CallsReturn == \A p \in Procs : pc[p] # "idle" ~> pc[p] = "idle"
=============================================================================
