------------------------------- MODULE DbTable -------------------------------
(***************************************************************************)
(* What one set of the embedded store (src/pkg/agi/db) promises its        *)
(* callers: a table from primary keys to rows on which every call takes    *)
(* effect at one instant between its invocation and its return.            *)
(* crud.go, the comments on PutBatch ("atomically stores multiple rows")   *)
(* and Update ("atomically replaces the row") state the contract; doc.go   *)
(* states the durability part, that a crash discards unsynced data.        *)
(*                                                                         *)
(* The detailed store, DbRow, keeps the table in two keyspaces and works   *)
(* on them in several steps; it is shown to implement this module.         *)
(***************************************************************************)
EXTENDS Naturals, Sequences

CONSTANTS
    Procs,      \* goroutines that call the store
    Keys,       \* primary keys
    Requests,   \* the calls a goroutine may make
    None,       \* the absent row (nil), and an idle goroutine's request
    Ok, Err,    \* the two outcomes of a mutating call
    Pending     \* no outcome yet

VARIABLES
    table,      \* table[k]: the row stored at k, or None
    durable,    \* the table a crash falls back to
    req,        \* req[p]: the call p is making, or None
    ret,        \* ret[p]: its outcome once it has taken effect
    filed       \* filed[p]: where p's Get has found its row filed (the indexed
                \* value the row had then), or None

vars == <<table, durable, req, ret, filed>>

Init ==
    /\ table = [k \in Keys |-> None]
    /\ durable = table
    /\ req = [p \in Procs |-> None]
    /\ ret = [p \in Procs |-> Pending]
    /\ filed = [p \in Procs |-> None]

Call(p) ==
    /\ req[p] = None
    /\ \E r \in Requests : req' = [req EXCEPT ![p] = r]
    /\ UNCHANGED <<table, durable, ret, filed>>

\* The last item of a batch that names k wins.
LastItem(items, k) ==
    CHOOSE i \in DOMAIN items :
        /\ items[i].key = k
        /\ \A j \in DOMAIN items : items[j].key = k => j <= i

AfterPut(items) ==
    [k \in Keys |-> IF \E i \in DOMAIN items : items[i].key = k
                    THEN items[LastItem(items, k)].row
                    ELSE table[k]]

\* The table an Update leaves: fn decides from the row it is given.
AfterUpdate(r) ==
    LET next == r.fn[table[r.key]]
    IN  IF next.commit THEN [table EXCEPT ![r.key] = next.row] ELSE table

Pend(p) == req[p] # None /\ ret[p] = Pending

ApplyPut(p) ==
    /\ Pend(p) /\ req[p].op = "put"
    /\ table' = AfterPut(req[p].items)
    /\ ret' = [ret EXCEPT ![p] = Ok]
    /\ UNCHANGED <<durable, req, filed>>

ApplyUpdate(p) ==
    /\ Pend(p) /\ req[p].op = "update"
    /\ table' = AfterUpdate(req[p])
    /\ ret' = [ret EXCEPT ![p] = Ok]
    /\ UNCHANGED <<durable, req, filed>>

ApplyDelete(p) ==
    /\ Pend(p) /\ req[p].op = "delete"
    /\ table' = [table EXCEPT ![req[p].key] = None]
    /\ ret' = [ret EXCEPT ![p] = Ok]
    /\ UNCHANGED <<durable, req, filed>>

\* A Get may first find where its row is filed (getFromSet reads the pointer).
Locate(p) ==
    /\ Pend(p) /\ req[p].op = "get" /\ filed[p] = None
    /\ table[req[p].key] # None
    /\ filed' = [filed EXCEPT ![p] = table[req[p].key].ts]
    /\ UNCHANGED <<table, durable, req, ret>>

\* The row has left the place where p's Get has found it.
Moved(p) == filed[p] # None /\ table[req[p].key] # None /\ table[req[p].key].ts # filed[p]

\* A Get answers with the row that is stored, and misses it only when the row
\* was moved to another indexed value since the Get located it.
ApplyGet(p) ==
    /\ Pend(p) /\ req[p].op = "get"
    /\ ret' = [ret EXCEPT ![p] = IF Moved(p) THEN None ELSE table[req[p].key]]
    /\ filed' = [filed EXCEPT ![p] = None]
    /\ UNCHANGED <<table, durable, req>>

\* A mutating call that fails leaves the table alone.
Fail(p) ==
    /\ Pend(p) /\ req[p].op # "get"
    /\ ret' = [ret EXCEPT ![p] = Err]
    /\ UNCHANGED <<table, durable, req, filed>>

Return(p) ==
    /\ ret[p] # Pending
    /\ req' = [req EXCEPT ![p] = None]
    /\ ret' = [ret EXCEPT ![p] = Pending]
    /\ UNCHANGED <<table, durable, filed>>

Flush == durable' = table /\ UNCHANGED <<table, req, ret, filed>>

Crash ==
    /\ table' = durable
    /\ req' = [p \in Procs |-> None]
    /\ ret' = [p \in Procs |-> Pending]
    /\ filed' = [p \in Procs |-> None]
    /\ UNCHANGED durable

Apply(p) == ApplyPut(p) \/ ApplyUpdate(p) \/ ApplyDelete(p) \/ ApplyGet(p)

Next ==
    \/ \E p \in Procs : Call(p) \/ Locate(p) \/ Apply(p) \/ Fail(p) \/ Return(p)
    \/ Flush
    \/ Crash

Spec == Init /\ [][Next]_vars
=============================================================================
