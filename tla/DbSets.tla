------------------------------- MODULE DbSets -------------------------------
(***************************************************************************)
(* The life of the sets of src/pkg/agi/db: ensureSet creates a set on      *)
(* first use, writers hold on to its *setSchema while DropSet retires it,  *)
(* iterators pin the store, Close drains it and Open reads the schema      *)
(* records back.  A set is known by its setID: the schema object, its      *)
(* on-disk record M/schema/<id> and the keyspace of its rows.              *)
(*                                                                         *)
(* Locks, in the order they are taken: lifeMu (held shared by every        *)
(* operation, exclusively by Close), the row stripes (one per key here),   *)
(* s.mu of one set.  setsMu guards the maps; nothing blocks under it, so   *)
(* its critical sections are single steps.                                 *)
(***************************************************************************)
EXTENDS Naturals, FiniteSets, FiniteSetsExt

CONSTANTS
    Procs,     \* goroutines
    Names,     \* set names
    Keys,      \* row keys, numbers; key k hashes to stripe k
    MaxId,     \* bound: set IDs are 1..MaxId
    None,      \* no set, no owner, no call
    AssumeNew, \* TRUE: PutBatch takes no row lock
    DropFails, \* TRUE: the batch of a DropSet may fail to commit
    CanCrash

ASSUME SetsAssumption ==
    /\ Keys \subseteq Nat /\ MaxId \in Nat \ {0}
    /\ AssumeNew \in BOOLEAN /\ DropFails \in BOOLEAN /\ CanCrash \in BOOLEAN

Ids == 1..MaxId

Calls == [op : {"put", "update", "delete"}, name : Names, key : Keys]
    \cup [op : {"drop", "scan"}, name : Names]
    \cup [op : {"close"}]

ASSUME NoneAssumption == None \notin Ids \cup Names \cup Procs \cup Calls

VARIABLES
    byName,   \* setsByName
    nextID,   \* nextSetID
    dropped,  \* the sets whose schema object is flagged dropped
    disk,     \* what Pebble holds: schema records, rows, the next ID
    durable,  \* what of it survives a crash
    stripe,   \* stripe[k]: the goroutine holding the row lock of k
    smu,      \* smu[id]: the goroutine holding s.mu exclusively
    closing,  \* the goroutines waiting for lifeMu in Close
    closed,   \* the store is closed
    iters,    \* iters[p]: iterators p has open (iterOpen is their sum)
    call,     \* call[p]: the call p is in
    pc,       \* pc[p]: where p is in it
    sid,      \* sid[p]: the *setSchema p has looked up
    botched   \* history: the names whose DropSet failed or was cut short

maps  == <<byName, nextID, dropped>>
locks == <<stripe, smu>>
life  == <<closing, closed, iters>>
vars  == <<byName, nextID, dropped, disk, durable, stripe, smu,
           closing, closed, iters, call, pc, sid, botched>>

\* rec[id]: the name in the schema record of id; retired: the sets whose drop
\* has committed (history); next: the record M/next_set_id.
EmptyDisk == [rec  |-> [i \in Ids |-> None], rows |-> [i \in Ids |-> {}],
              next |-> 1, retired |-> {}]

\* Goroutines inside an operation hold lifeMu shared.
Inside == {p \in Procs : pc[p] \notin {"idle", "closing"}}
-----------------------------------------------------------------------------
Init ==
    /\ byName = [n \in Names |-> None]
    /\ nextID = 1
    /\ dropped = {}
    /\ disk = EmptyDisk
    /\ durable = EmptyDisk
    /\ stripe = [k \in Keys |-> None]
    /\ smu = [i \in Ids |-> None]
    /\ closing = {}
    /\ closed = FALSE
    /\ iters = [p \in Procs |-> 0]
    /\ call = [p \in Procs |-> None]
    /\ pc = [p \in Procs |-> "idle"]
    /\ sid = [p \in Procs |-> None]
    /\ botched = {}

Go(p, l) == pc' = [pc EXCEPT ![p] = l]

\* The deferred unlocks of p's call, and its return.
Finish(p) ==
    /\ Go(p, "idle")
    /\ call' = [call EXCEPT ![p] = None]
    /\ sid' = [sid EXCEPT ![p] = None]
    /\ stripe' = [k \in Keys |-> IF stripe[k] = p THEN None ELSE stripe[k]]
    /\ smu' = [i \in Ids |-> IF smu[i] = p THEN None ELSE smu[i]]

\* lookupSet under setsMu.
Lookup(n) == IF byName[n] = None \/ byName[n] \in dropped THEN None ELSE byName[n]

FirstLabel(c) == CASE c.op = "put"  -> "ensure"
                   [] c.op = "drop" -> "unmap"
                   [] c.op \in {"update", "delete", "scan"} -> "lookup"

\* PutBatch resolves the columns before it locks, Update under its row lock.
AfterEnsure(c)  == IF c.op = "put" THEN "prepare" ELSE "lock"
AfterPrepare(c) == IF c.op = "update" THEN "write"
                   ELSE IF AssumeNew THEN "check" ELSE "lock"
AfterCheck(c)   == IF c.op = "update" THEN "prepare" ELSE "write"

\* An operation is called and pins the store against Close; a Close that waits
\* for lifeMu keeps new operations out, and after it they return ErrClosed.
Call(p, c) ==
    /\ pc[p] = "idle" /\ c.op # "close"
    /\ closing = {} /\ ~closed
    /\ c.op = "scan" => iters[p] = 0  \* bound: one iterator a goroutine
    /\ call' = [call EXCEPT ![p] = c]
    /\ Go(p, FirstLabel(c))
    /\ UNCHANGED <<maps, disk, durable, locks, life, sid>>

\* ensureSet's fast path, or on to the slow path.
EnsureFast(p) ==
    /\ pc[p] = "ensure"
    /\ LET id == Lookup(call[p].name)
       IN  IF id = None
           THEN Go(p, "create") /\ UNCHANGED sid
           ELSE Go(p, AfterEnsure(call[p])) /\ sid' = [sid EXCEPT ![p] = id]
    /\ UNCHANGED <<maps, disk, durable, locks, life, call>>

\* A slow path that does not look again under the lock.
CreateAgain(p) ==
    /\ pc[p] = "create" /\ nextID \in Ids
    /\ disk' = [disk EXCEPT !.rec[nextID] = call[p].name, !.next = nextID + 1]
    /\ byName' = [byName EXCEPT ![call[p].name] = nextID]
    /\ nextID' = nextID + 1
    /\ sid' = [sid EXCEPT ![p] = nextID]
    /\ Go(p, AfterEnsure(call[p]))
    /\ UNCHANGED <<dropped, durable, locks, life, call>>

\* ensureSet's slow path, under setsMu: the name may have been created
\* meanwhile; else the ID and the schema record are written in one batch, and
\* the maps change only if it commits.
Create(p) ==
    /\ pc[p] = "create"
    /\ LET n == call[p].name
           id == nextID
       IN  \/ /\ Lookup(n) # None
              /\ sid' = [sid EXCEPT ![p] = Lookup(n)]
              /\ Go(p, AfterEnsure(call[p]))
              /\ UNCHANGED <<maps, disk>>
           \/ /\ Lookup(n) = None /\ id \in Ids
              /\ disk' = [disk EXCEPT !.rec[id] = n, !.next = id + 1]
              /\ byName' = [byName EXCEPT ![n] = id]
              /\ nextID' = id + 1
              /\ sid' = [sid EXCEPT ![p] = id]
              /\ Go(p, AfterEnsure(call[p]))
              /\ UNCHANGED dropped
    /\ UNCHANGED <<durable, locks, life, call>>

\* The batch of ensureSet fails to commit (or the bound on IDs is reached).
CreateFails(p) ==
    /\ pc[p] = "create" /\ Lookup(call[p].name) = None
    /\ Finish(p)
    /\ byName' = [byName EXCEPT ![call[p].name] = None]
    /\ UNCHANGED <<nextID, dropped, disk, durable, life>>

\* prepareEntriesForSet: every column known, or the slow path under s.mu.
PrepareFast(p) ==
    /\ pc[p] = "prepare"
    /\ smu[sid[p]] = None
    /\ Go(p, AfterPrepare(call[p]))
    /\ UNCHANGED <<maps, disk, durable, locks, life, call, sid>>

PrepareLock(p) ==
    /\ pc[p] = "prepare"
    /\ smu[sid[p]] = None
    /\ IF sid[p] \in dropped
       THEN Finish(p)
       ELSE /\ smu' = [smu EXCEPT ![sid[p]] = p]
            /\ Go(p, "persist")
            /\ UNCHANGED <<stripe, call, sid>>
    /\ UNCHANGED <<maps, disk, durable, life>>

\* persistSchema with the new column, s.mu released.
Persist(p) ==
    /\ pc[p] = "persist"
    /\ disk' = [disk EXCEPT !.rec[sid[p]] = call[p].name]
    /\ smu' = [smu EXCEPT ![sid[p]] = None]
    /\ Go(p, AfterPrepare(call[p]))
    /\ UNCHANGED <<maps, durable, stripe, life, call, sid>>

\* Update, Delete and Scan look the set up; a missing set is a miss, unless
\* Update's fn answers a missing row with one to store.
LookupSet(p) ==
    /\ pc[p] = "lookup"
    /\ LET id == Lookup(call[p].name)
       IN  \/ id = None /\ Finish(p)
           \/ /\ id = None /\ call[p].op = "update"
              /\ Go(p, "ensure")
              /\ UNCHANGED <<locks, call, sid>>
           \/ /\ id # None
              /\ sid' = [sid EXCEPT ![p] = id]
              /\ Go(p, IF call[p].op = "scan" THEN "open" ELSE "lock")
              /\ UNCHANGED <<locks, call>>
    /\ UNCHANGED <<maps, disk, durable, life>>

LockRow(p) ==
    /\ pc[p] = "lock"
    /\ stripe[call[p].key] = None
    /\ stripe' = [stripe EXCEPT ![call[p].key] = p]
    /\ Go(p, "check")
    /\ UNCHANGED <<maps, disk, durable, smu, life, call, sid>>

\* ErrSetDropped, or on.
CheckDropped(p) ==
    /\ pc[p] = "check"
    /\ IF sid[p] \in dropped
       THEN Finish(p)
       ELSE Go(p, AfterCheck(call[p])) /\ UNCHANGED <<locks, call, sid>>
    /\ UNCHANGED <<maps, disk, durable, life>>

\* The index snapshot reads s.mu; the batch commits, or fails and changes
\* nothing.
Write(p) ==
    /\ pc[p] = "write"
    /\ smu[sid[p]] = None
    /\ \/ disk' = [disk EXCEPT !.rows[sid[p]] =
                      IF call[p].op = "put" THEN @ \cup {call[p].key}
                                            ELSE @ \ {call[p].key}]
       \/ disk' = disk
    /\ Finish(p)
    /\ UNCHANGED <<maps, durable, life>>

\* Scan: the plan is read under s.mu, a snapshot is pinned, iterOpen goes up.
OpenIter(p) ==
    /\ pc[p] = "open"
    /\ smu[sid[p]] = None
    /\ iters' = [iters EXCEPT ![p] = 1]
    /\ Finish(p)
    /\ UNCHANGED <<maps, disk, durable, closing, closed>>

\* Iter.Close, outside lifeMu.
CloseIter(p) ==
    /\ pc[p] = "idle" /\ iters[p] = 1
    /\ iters' = [iters EXCEPT ![p] = 0]
    /\ UNCHANGED <<maps, disk, durable, locks, closing, closed, call, pc, sid>>
-----------------------------------------------------------------------------
\* DropSet, under setsMu: the name is unmapped.
Unmap(p) ==
    /\ pc[p] = "unmap"
    /\ LET n == call[p].name
       IN  IF byName[n] = None
           THEN Finish(p) /\ UNCHANGED byName
           ELSE /\ byName' = [byName EXCEPT ![n] = None]
                /\ sid' = [sid EXCEPT ![p] = byName[n]]
                /\ Go(p, "flag")
                /\ UNCHANGED <<stripe, smu, call>>
    /\ UNCHANGED <<nextID, dropped, disk, durable, life>>

\* A drop that takes s.mu ahead of the row locks.
FlagSeal(p) ==
    /\ pc[p] = "flag" /\ smu[sid[p]] = None
    /\ smu' = [smu EXCEPT ![sid[p]] = p]
    /\ dropped' = dropped \cup {sid[p]}
    /\ Go(p, "drain")
    /\ UNCHANGED <<byName, nextID, disk, durable, stripe, life, call, sid>>

\* The dropped flag goes up before the row locks are taken.
Flag(p) ==
    /\ pc[p] = "flag"
    /\ dropped' = dropped \cup {sid[p]}
    /\ Go(p, "drain")
    /\ UNCHANGED <<byName, nextID, disk, durable, locks, life, call, sid>>

\* A drop that goes ahead while writers are under way.
DrainNobody(p) ==
    /\ pc[p] = "drain"
    /\ Go(p, "seal")
    /\ UNCHANGED <<maps, disk, durable, locks, life, call, sid>>

\* lockAll: every stripe in ascending order, so every writer is drained.
Drain(p) ==
    /\ pc[p] = "drain"
    /\ \E k \in Keys :
          /\ stripe[k] = None
          /\ \A j \in Keys : j < k => stripe[j] = p
          /\ stripe' = [stripe EXCEPT ![k] = p]
          /\ Go(p, IF \A j \in Keys : j <= k THEN "seal" ELSE "drain")
    /\ UNCHANGED <<maps, disk, durable, smu, life, call, sid>>

\* s.mu, so that nobody is persisting the schema.
Seal(p) ==
    /\ pc[p] = "seal"
    /\ smu[sid[p]] = None
    /\ smu' = [smu EXCEPT ![sid[p]] = p]
    /\ Go(p, "drop")
    /\ UNCHANGED <<maps, disk, durable, stripe, life, call, sid>>

\* One batch deletes the rows, the index entries and the schema record.
Drop(p) ==
    /\ pc[p] = "drop"
    /\ disk' = [disk EXCEPT !.rows[sid[p]] = {}, !.rec[sid[p]] = None,
                            !.retired = @ \cup {sid[p]}]
    /\ Finish(p)
    /\ UNCHANGED <<maps, durable, life>>

\* It fails to commit: the flag comes down and the name is mapped again.
DropFailed(p) ==
    /\ DropFails
    /\ pc[p] = "drop"
    /\ dropped' = dropped \ {sid[p]}
    /\ byName' = [byName EXCEPT ![call[p].name] = sid[p]]
    /\ botched' = botched \cup {call[p].name}
    /\ Finish(p)
    /\ UNCHANGED <<nextID, disk, durable, life>>
-----------------------------------------------------------------------------
\* Close asks for lifeMu.
CloseCall(p) ==
    /\ pc[p] = "idle"
    /\ call' = [call EXCEPT ![p] = [op |-> "close"]]
    /\ closing' = closing \cup {p}
    /\ Go(p, "closing")
    /\ UNCHANGED <<maps, disk, durable, locks, closed, iters, sid>>

\* A Close that does not look for open iterators.
CloseHeedless(p) ==
    /\ pc[p] = "closing" /\ Inside = {}
    /\ closed' = TRUE
    /\ durable' = disk
    /\ closing' = closing \ {p}
    /\ Finish(p)
    /\ UNCHANGED <<maps, disk, iters>>

\* It has lifeMu: ErrClosed, ErrIteratorsOpen, or flush and close.
Close(p) ==
    /\ pc[p] = "closing" /\ Inside = {}
    /\ IF closed \/ \E q \in Procs : iters[q] > 0
       THEN UNCHANGED <<closed, durable>>
       ELSE closed' = TRUE /\ durable' = disk
    /\ closing' = closing \ {p}
    /\ Finish(p)
    /\ UNCHANGED <<maps, disk, iters>>

\* Flush, Compact or a background memtable flush; only a crash can tell.
Flush ==
    /\ CanCrash /\ ~closed
    /\ durable' = disk
    /\ UNCHANGED <<maps, disk, locks, life, call, pc, sid>>

\* loadSchemas walks the records in ascending ID; the last one of a name wins.
Loaded(d) == [n \in Names |->
                LET ids == {i \in Ids : d.rec[i] = n}
                IN  IF ids = {} THEN None ELSE Max(ids)]

\* A load that ignores the recorded next ID, and one that takes the last ID.
NextFromRecords(d) == Max({0} \cup {i \in Ids : d.rec[i] # None}) + 1

NextFrom(d) == Max({d.next} \cup {i + 1 : i \in {j \in Ids : d.rec[j] # None}})

\* The process is gone, by a crash or after Close, and opens the store again.
Reopen(d) ==
    /\ disk' = d
    /\ byName' = Loaded(d)
    /\ nextID' = NextFrom(d)
    /\ dropped' = {}
    /\ stripe' = [k \in Keys |-> None]
    /\ smu' = [i \in Ids |-> None]
    /\ closing' = {}
    /\ closed' = FALSE
    /\ iters' = [p \in Procs |-> 0]
    /\ call' = [p \in Procs |-> None]
    /\ pc' = [p \in Procs |-> "idle"]
    /\ sid' = [p \in Procs |-> None]
    /\ UNCHANGED durable

\* A crash may cut short, or undo, the drop of a set whose name is in use again.
Crash ==
    /\ CanCrash /\ Reopen(durable)
    /\ botched' = botched \cup {n \in Names :
                      \E i, j \in Ids : i < j /\ durable.rec[i] = n /\ durable.rec[j] = n}

Restart ==
    /\ closed /\ \A p \in Procs : pc[p] = "idle"
    /\ Reopen(disk)

Step(p) ==
    \/ EnsureFast(p) \/ Create(p) \/ CreateFails(p)
    \/ PrepareFast(p) \/ PrepareLock(p) \/ Persist(p)
    \/ LookupSet(p) \/ LockRow(p) \/ CheckDropped(p) \/ Write(p)
    \/ OpenIter(p) \/ CloseIter(p)
    \/ Unmap(p) \/ Flag(p) \/ Drain(p) \/ Seal(p) \/ Drop(p)
    \/ CloseCall(p) \/ Close(p)

Next ==
    \/ \E p \in Procs : DropFailed(p)
    \/ Crash
    \/ /\ \/ \E p \in Procs : (\E c \in Calls : Call(p, c)) \/ Step(p)
          \/ Flush
          \/ Restart
       /\ UNCHANGED botched

Spec == Init /\ [][Next]_vars
=============================================================================
