-------------------------------- MODULE DbRow --------------------------------
(***************************************************************************)
(* The row path of src/pkg/agi/db on one indexed set (storage layout v2):  *)
(*                                                                         *)
(*   D/<set>/<pk>                 -> forward pointer, the indexed value    *)
(*   I/<set>/<col>/<value>/<pk>   -> the row's payload (covering index)    *)
(*                                                                         *)
(* A writer takes the stripe locks of its keys, reads the old pointers,    *)
(* stages the edit of both keyspaces in a Pebble batch and commits it.  A  *)
(* batch whose items are all AssumeNew takes no lock and reads nothing.    *)
(* Get reads the pointer and the payload in two separate reads and takes   *)
(* no lock.  With the WAL off a crash loses what was not flushed.          *)
(***************************************************************************)
EXTENDS Naturals, Sequences, FiniteSets

CONSTANTS
    Procs,       \* goroutines calling the store
    Keys,        \* primary keys
    Times,       \* values of the indexed column
    Payloads,    \* the rest of a row
    Requests,    \* the calls goroutines may make
    StripeOf,    \* StripeOf[k]: the row-lock stripe of k (stripeIndex)
    NoTime,      \* a row without the indexed column
    None,        \* absent: row, pointer, index entry, request, lock owner
    Keep,        \* batch slot that leaves the stored value alone
    Ok, Err, Pending,
    CanCrash     \* whether the process may crash

Rows == [ts : Times \cup {NoTime}, val : Payloads]

Items == [key : Keys, row : Rows, new : BOOLEAN]

\* What Update's fn may answer: no commit, delete (row nil) or a row.
Answers == [commit : BOOLEAN, row : Rows \cup {None}]
Fns == [[ts : Times, val : Payloads] \cup {None} -> Answers]

PutRequests    == [op : {"put"}, items : Seq(Items) \ {<<>>}]
GetRequests    == [op : {"get"}, key : Keys]
DeleteRequests == [op : {"delete"}, key : Keys]
UpdateRequests == [op : {"update"}, key : Keys, fn : Fns]

ASSUME ConstantsAssumption ==
    /\ StripeOf \in [Keys -> Nat]
    /\ NoTime \notin Times
    /\ None \notin Times /\ None \notin Payloads /\ None \notin Procs
    /\ None \notin Requests /\ None \notin [ts : Times, val : Payloads]
    /\ Keep \notin Times /\ Keep \notin Payloads /\ Keep # None
    /\ CanCrash \in BOOLEAN

\* A call under way is told from one that has its outcome.
ASSUME OutcomesAssumption ==
    Pending \notin {None, Ok, Err} /\ Pending \notin [ts : Times, val : Payloads]

\* Stated without Fns and Seq(Items) as enumerated sets, so that TLC can
\* evaluate it: every request is one of the four calls.
ASSUME RequestsAssumption ==
    \A r \in Requests :
        \/ /\ r.op = "put" /\ r = [op |-> "put", items |-> r.items]
           /\ r.items \in Seq(Items) /\ r.items # <<>>
        \/ r \in GetRequests
        \/ r \in DeleteRequests
        \/ /\ r.op = "update" /\ r = [op |-> "update", key |-> r.key, fn |-> r.fn]
           /\ r.key \in Keys /\ r.fn \in Fns

VARIABLES
    data,     \* data[k]: the pointer under D/, or None
    index,    \* index[k][t]: the payload under I/<t>/k, or None
    durable,  \* the two keyspaces as of the last memtable flush
    lock,     \* lock[s]: the goroutine holding stripe s, or None
    req,      \* req[p]: the call p is making, or None
    ret,      \* ret[p]: its outcome, Pending until it has one
    pc,       \* pc[p]: where p is in the handler
    pos,      \* pos[p]: items of the batch already staged
    ptr,      \* ptr[p]: the pointer p read from D/
    old,      \* old[p]: the row p read (Update)
    batch     \* batch[p]: the Pebble batch p stages

store == <<data, index, durable>>
local == <<pos, ptr, old, batch>>
vars  == <<data, index, durable, lock, req, ret, pc, pos, ptr, old, batch>>

Stripes == {StripeOf[k] : k \in Keys}

EmptyBatch == [d |-> [k \in Keys |-> Keep],
               i |-> [k \in Keys |-> [t \in Times |-> Keep]]]

\* The keys a locked call works on.
KeysOf(r) == IF r.op = "put" THEN {r.items[i].key : i \in DOMAIN r.items}
                             ELSE {r.key}

StripesOf(r) == {StripeOf[k] : k \in KeysOf(r)}

AllNew(r) == r.op = "put" /\ \A i \in DOMAIN r.items : r.items[i].new

Held(p) == {s \in Stripes : lock[s] = p}
-----------------------------------------------------------------------------
\* Faulty variants of the staging, for the runs that must notice them: the old
\* entry survives; the old entry's delete comes last.
StagePutKeepsOld(b, k, r, o) ==
    [d |-> [b.d EXCEPT ![k] = r.ts],
     i |-> [b.i EXCEPT ![k][r.ts] = r.val]]

StagePutDeleteLast(b, k, r, o) ==
    [d |-> [b.d EXCEPT ![k] = r.ts],
     i |-> [b.i EXCEPT ![k] = [t \in Times |->
                IF t = o THEN None ELSE IF t = r.ts THEN r.val ELSE b.i[k][t]]]]

\* stageIndexWrite plus the D/ write: row r at k, the entry at time o (if any)
\* deleted first.
StagePut(b, k, r, o) ==
    [d |-> [b.d EXCEPT ![k] = r.ts],
     i |-> [b.i EXCEPT ![k] = [t \in Times |->
                IF t = r.ts THEN r.val ELSE IF t = o THEN None ELSE b.i[k][t]]]]

StageDelete(b, k, o) ==
    [d |-> [b.d EXCEPT ![k] = None],
     i |-> [b.i EXCEPT ![k] = [t \in Times |-> IF t = o THEN None ELSE b.i[k][t]]]]

\* A merge that takes Keep for a value.
MergeKeep(x, y) == y

Merge(x, y) == IF y = Keep THEN x ELSE y

\* The row a key holds: follow the pointer.
RowAt(d, ix, k) ==
    IF d[k] = None \/ ix[k][d[k]] = None THEN None
    ELSE [ts |-> d[k], val |-> ix[k][d[k]]]
-----------------------------------------------------------------------------
Init ==
    /\ data = [k \in Keys |-> None]
    /\ index = [k \in Keys |-> [t \in Times |-> None]]
    /\ durable = [d |-> data, i |-> index]
    /\ lock = [s \in Stripes |-> None]
    /\ req = [p \in Procs |-> None]
    /\ ret = [p \in Procs |-> Pending]
    /\ pc = [p \in Procs |-> "idle"]
    /\ pos = [p \in Procs |-> 0]
    /\ ptr = [p \in Procs |-> None]
    /\ old = [p \in Procs |-> None]
    /\ batch = [p \in Procs |-> EmptyBatch]

Go(p, l) == pc' = [pc EXCEPT ![p] = l]

\* The first step of a call's critical section.
FirstStep(r) == IF r.op = "put" THEN "stage"
                ELSE IF r.op = "delete" THEN "delread"
                ELSE IF r.op = "update" THEN "updptr" ELSE "getptr"

\* A call that takes no stripe.
CallUnlocked(p, r) ==
    /\ pc[p] = "idle"
    /\ req' = [req EXCEPT ![p] = r]
    /\ Go(p, FirstStep(r))
    /\ UNCHANGED <<data, index, durable, lock, ret, local>>

Call(p, r) ==
    /\ pc[p] = "idle"
    /\ req' = [req EXCEPT ![p] = r]
    /\ Go(p, IF r.op = "get" \/ AllNew(r) THEN FirstStep(r) ELSE "lock")
    /\ UNCHANGED <<data, index, durable, lock, ret, local>>

\* Stripes taken in the order of the batch instead.
LockStripeUnsorted(p) ==
    /\ pc[p] = "lock"
    /\ \E s \in StripesOf(req[p]) \ Held(p) :
          /\ lock[s] = None
          /\ lock' = [lock EXCEPT ![s] = p]
          /\ Go(p, IF StripesOf(req[p]) = Held(p) \cup {s}
                   THEN FirstStep(req[p]) ELSE "lock")
    /\ UNCHANGED <<data, index, durable, req, ret, local>>

\* Stripes are taken one by one in ascending order, each once.
LockStripe(p) ==
    /\ pc[p] = "lock"
    /\ \E s \in StripesOf(req[p]) \ Held(p) :
          /\ \A s2 \in StripesOf(req[p]) \ Held(p) : s <= s2
          /\ lock[s] = None
          /\ lock' = [lock EXCEPT ![s] = p]
          /\ Go(p, IF StripesOf(req[p]) = Held(p) \cup {s}
                   THEN FirstStep(req[p]) ELSE "lock")
    /\ UNCHANGED <<data, index, durable, req, ret, local>>

\* The call has its outcome; the deferred unlocks are next.
Finish(p, out) ==
    /\ ret' = [ret EXCEPT ![p] = out]
    /\ Go(p, "return")

\* One item of PutBatch: read the committed pointer unless AssumeNew, stage.
StageItem(p) ==
    /\ pc[p] = "stage"
    /\ LET item == req[p].items[pos[p] + 1]
           o    == IF item.new THEN None ELSE data[item.key]
       IN  IF item.row.ts = NoTime
           THEN /\ Finish(p, Err)
                /\ UNCHANGED <<pos, batch>>
           ELSE /\ batch' = [batch EXCEPT ![p] = StagePut(@, item.key, item.row, o)]
                /\ pos' = [pos EXCEPT ![p] = @ + 1]
                /\ Go(p, IF pos[p] + 1 = Len(req[p].items) THEN "commit" ELSE "stage")
                /\ UNCHANGED ret
    /\ UNCHANGED <<store, lock, req, ptr, old>>

\* batch.Commit applies the whole batch or fails and applies nothing.
Commit(p) ==
    /\ pc[p] = "commit"
    /\ data' = [k \in Keys |-> Merge(data[k], batch[p].d[k])]
    /\ index' = [k \in Keys |-> [t \in Times |-> Merge(index[k][t], batch[p].i[k][t])]]
    /\ Finish(p, Ok)
    /\ UNCHANGED <<durable, lock, req, local>>

CommitFails(p) ==
    /\ pc[p] = "commit"
    /\ Finish(p, Err)
    /\ UNCHANGED <<store, lock, req, local>>

\* Delete reads the pointer under the lock and stages both deletes.
DeleteRead(p) ==
    /\ pc[p] = "delread"
    /\ LET k == req[p].key
       IN  IF data[k] = None
           THEN Finish(p, Ok) /\ UNCHANGED batch
           ELSE /\ batch' = [batch EXCEPT ![p] = StageDelete(@, k, data[k])]
                /\ Go(p, "commit")
                /\ UNCHANGED ret
    /\ UNCHANGED <<store, lock, req, pos, ptr, old>>

\* Update, getLockedWithIndex: the pointer, then the payload it points at.
UpdateReadPointer(p) ==
    /\ pc[p] = "updptr"
    /\ ptr' = [ptr EXCEPT ![p] = data[req[p].key]]
    /\ Go(p, IF data[req[p].key] = None THEN "updfn" ELSE "updrow")
    /\ UNCHANGED <<store, lock, req, ret, pos, old, batch>>

\* A pointer without a payload counts as no row, and as no old index entry.
UpdateReadRow(p) ==
    /\ pc[p] = "updrow"
    /\ LET v == index[req[p].key][ptr[p]]
       IN  /\ old' = [old EXCEPT ![p] = IF v = None THEN None
                                        ELSE [ts |-> ptr[p], val |-> v]]
           /\ ptr' = [ptr EXCEPT ![p] = IF v = None THEN None ELSE @]
    /\ Go(p, "updfn")
    /\ UNCHANGED <<store, lock, req, ret, pos, batch>>

\* fn runs on the row read; its answer is skipped, rejected or staged.
UpdateApply(p) ==
    /\ pc[p] = "updfn"
    /\ LET k    == req[p].key
           next == req[p].fn[old[p]]
           skip == ~next.commit \/ (next.row = None /\ old[p] = None)
       IN  \/ /\ skip
              /\ Finish(p, Ok) /\ UNCHANGED batch
           \/ /\ ~skip /\ next.row = None
              /\ batch' = [batch EXCEPT ![p] = StageDelete(@, k, ptr[p])]
              /\ Go(p, "commit") /\ UNCHANGED ret
           \/ /\ ~skip /\ next.row # None /\ next.row.ts = NoTime
              /\ Finish(p, Err) /\ UNCHANGED batch
           \/ /\ ~skip /\ next.row # None /\ next.row.ts # NoTime
              /\ batch' = [batch EXCEPT ![p] = StagePut(@, k, next.row, ptr[p])]
              /\ Go(p, "commit") /\ UNCHANGED ret
    /\ UNCHANGED <<store, lock, req, pos, ptr, old>>

\* A Get that takes a row some writer holds for an absent one.
GetPointerTry(p) ==
    /\ pc[p] = "getptr"
    /\ ptr' = [ptr EXCEPT ![p] = data[req[p].key]]
    /\ IF data[req[p].key] = None \/ lock[StripeOf[req[p].key]] # None
       THEN Finish(p, None)
       ELSE Go(p, "getrow") /\ UNCHANGED ret
    /\ UNCHANGED <<store, lock, req, pos, old, batch>>

\* Get, lock-free: the pointer first.
GetPointer(p) ==
    /\ pc[p] = "getptr"
    /\ ptr' = [ptr EXCEPT ![p] = data[req[p].key]]
    /\ IF data[req[p].key] = None
       THEN Finish(p, None)
       ELSE Go(p, "getrow") /\ UNCHANGED ret
    /\ UNCHANGED <<store, lock, req, pos, old, batch>>

\* Then the payload under that pointer; a missing payload is answered as nil.
GetRow(p) ==
    /\ pc[p] = "getrow"
    /\ LET v == index[req[p].key][ptr[p]]
       IN  Finish(p, IF v = None THEN None ELSE [ts |-> ptr[p], val |-> v])
    /\ UNCHANGED <<store, lock, req, local>>

\* The deferred unlocks, and the return to the caller.
Return(p) ==
    /\ pc[p] = "return"
    /\ lock' = [s \in Stripes |-> IF lock[s] = p THEN None ELSE lock[s]]
    /\ req' = [req EXCEPT ![p] = None]
    /\ ret' = [ret EXCEPT ![p] = Pending]
    /\ pos' = [pos EXCEPT ![p] = 0]
    /\ ptr' = [ptr EXCEPT ![p] = None]
    /\ old' = [old EXCEPT ![p] = None]
    /\ batch' = [batch EXCEPT ![p] = EmptyBatch]
    /\ Go(p, "idle")
    /\ UNCHANGED store

\* A flush that persists D/ ahead of I/.
FlushPointers ==
    /\ durable' = [durable EXCEPT !.d = data]
    /\ UNCHANGED <<data, index, lock, req, ret, pc, local>>

\* Flush, Compact, or a background memtable flush.
Flush ==
    /\ durable' = [d |-> data, i |-> index]
    /\ UNCHANGED <<data, index, lock, req, ret, pc, local>>

\* The process dies and the store is opened again, without a WAL.
Crash ==
    /\ CanCrash
    /\ data' = durable.d
    /\ index' = durable.i
    /\ lock' = [s \in Stripes |-> None]
    /\ req' = [p \in Procs |-> None]
    /\ ret' = [p \in Procs |-> Pending]
    /\ pc' = [p \in Procs |-> "idle"]
    /\ pos' = [p \in Procs |-> 0]
    /\ ptr' = [p \in Procs |-> None]
    /\ old' = [p \in Procs |-> None]
    /\ batch' = [p \in Procs |-> EmptyBatch]
    /\ UNCHANGED durable

Step(p) ==
    \/ StageItem(p) \/ Commit(p) \/ CommitFails(p)
    \/ DeleteRead(p)
    \/ UpdateReadPointer(p) \/ UpdateReadRow(p) \/ UpdateApply(p)
    \/ GetPointer(p) \/ GetRow(p)
    \/ Return(p)

Next ==
    \/ \E p \in Procs : (\E r \in Requests : Call(p, r)) \/ LockStripe(p) \/ Step(p)
    \/ Flush
    \/ Crash

Spec == Init /\ [][Next]_vars

\* A goroutine that can run is run, and a waiter on a mutex that keeps being
\* released is eventually granted it (sync.Mutex's starvation mode).
Fairness == \A p \in Procs : WF_vars(Step(p)) /\ SF_vars(LockStripe(p))

FairSpec == Spec /\ Fairness
=============================================================================
