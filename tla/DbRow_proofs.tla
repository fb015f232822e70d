---------------------------- MODULE DbRow_proofs ----------------------------
(***************************************************************************)
(* Proofs about the row path, for every set of goroutines, keys, indexed   *)
(* values, payloads and requests.                                          *)
(***************************************************************************)
EXTENDS DbRowInv, TLAPS

\* The fields of a request, by kind of call.
LEMMA RequestFields ==
    ASSUME NEW r \in Requests
    PROVE  /\ r.op \in {"put", "get", "delete", "update"}
           /\ r.op = "put" => r.items \in Seq(Items) /\ r.items # <<>>
           /\ r.op # "put" => r.key \in Keys
           /\ r.op = "update" => r.fn \in Fns
BY RequestsAssumption DEF GetRequests, DeleteRequests

\* A staged put and a staged delete keep the type of a batch.
LEMMA StageTypes ==
    ASSUME NEW b \in BatchType, NEW k \in Keys
    PROVE  /\ \A r \in FullRows, o \in Times \cup {None} : StagePut(b, k, r, o) \in BatchType
           /\ \A o \in Times \cup {None} : StageDelete(b, k, o) \in BatchType
BY DEF BatchType, FullRows, StagePut, StageDelete

LEMMA EmptyBatchType == EmptyBatch \in BatchType
BY DEF EmptyBatch, BatchType

LEMMA InitTypes == Init => TypeOK /\ LocalsOK
BY ConstantsAssumption, EmptyBatchType
DEF Init, TypeOK, LocalsOK, StoreType, Labels, Stripes

LEMMA CallTypes ==
    ASSUME TypeOK, LocalsOK, NEW p \in Procs, NEW r \in Requests, Call(p, r)
    PROVE  TypeOK' /\ LocalsOK'
<1>1. r.op \in {"put", "get", "delete", "update"}
  BY RequestFields
<1>2. TypeOK'
  BY <1>1 DEF Call, Go, FirstStep, TypeOK, Labels, local, AllNew
<1>3. r.op = "put" => 0 < Len(r.items)
  BY RequestFields
<1>4. LocalsOK'
  BY <1>1, <1>3 DEF Call, Go, FirstStep, TypeOK, LocalsOK, Labels, local, AllNew
<1>5. QED
  BY <1>2, <1>4

LEMMA LockStripeTypes ==
    ASSUME TypeOK, LocalsOK, NEW p \in Procs, LockStripe(p)
    PROVE  TypeOK' /\ LocalsOK'
<1>1. req[p] \in Requests /\ req[p].op \in {"put", "delete", "update"}
  BY DEF LockStripe, LocalsOK
<1>2. req[p].op = "put" => 0 < Len(req[p].items)
  BY <1>1, RequestFields
<1>3. TypeOK'
  <2>1. PICK s \in StripesOf(req[p]) \ Held(p) :
           /\ lock' = [lock EXCEPT ![s] = p]
           /\ Go(p, IF StripesOf(req[p]) = Held(p) \cup {s}
                    THEN FirstStep(req[p]) ELSE "lock")
    BY DEF LockStripe
  <2>2. lock' \in [Stripes -> Procs \cup {None}]
    BY <2>1 DEF TypeOK
  <2>3. pc' \in [Procs -> Labels]
    BY <1>1, <2>1 DEF Go, FirstStep, TypeOK, Labels
  <2>4. UNCHANGED <<data, index, durable, req, ret, local>>
    BY DEF LockStripe
  <2>5. QED
    BY <2>2, <2>3, <2>4 DEF TypeOK, local
<1>4. LocalsOK'
  BY <1>1, <1>2 DEF LockStripe, Go, FirstStep, TypeOK, LocalsOK, Labels, local
<1>5. QED
  BY <1>3, <1>4

\* The item a batch stages next, and the pointer it reads for it.
LEMMA NextItem ==
    ASSUME TypeOK, LocalsOK, NEW p \in Procs, pc[p] = "stage"
    PROVE  /\ req[p] \in Requests /\ req[p].op = "put"
           /\ req[p].items \in Seq(Items)
           /\ pos[p] \in Nat /\ pos[p] + 1 \in 1..Len(req[p].items)
           /\ req[p].items[pos[p] + 1] \in Items
<1>1. req[p] \in Requests /\ req[p].op = "put" /\ pos[p] < Len(req[p].items)
  BY DEF LocalsOK
<1>2. req[p].items \in Seq(Items)
  BY <1>1, RequestFields
<1>3. pos[p] \in Nat
  BY DEF TypeOK
<1>4. QED
  BY <1>1, <1>2, <1>3

LEMMA StageItemTypes ==
    ASSUME TypeOK, LocalsOK, NEW p \in Procs, StageItem(p)
    PROVE  TypeOK' /\ LocalsOK'
<1> DEFINE item == req[p].items[pos[p] + 1]
           o    == IF item.new THEN None ELSE data[item.key]
<1>1. /\ pc[p] = "stage" /\ req[p] \in Requests /\ req[p].op = "put"
      /\ req[p].items \in Seq(Items) /\ pos[p] \in Nat
      /\ pos[p] + 1 \in 1..Len(req[p].items) /\ item \in Items
  BY NextItem DEF StageItem
<1>2. item.key \in Keys /\ item.row \in Rows /\ item.new \in BOOLEAN
  BY <1>1 DEF Items
<1>3. o \in Times \cup {None}
  BY <1>2 DEF TypeOK, StoreType
<1>4. CASE item.row.ts = NoTime
  <2>1. /\ ret' = [ret EXCEPT ![p] = Err] /\ pc' = [pc EXCEPT ![p] = "return"]
        /\ UNCHANGED <<data, index, durable, lock, req, pos, ptr, old, batch>>
    BY <1>4 DEF StageItem, Finish, Go, store
  <2>2. TypeOK'
    BY <2>1 DEF TypeOK, Labels
  <2>3. LocalsOK'
    BY <1>1, <2>1 DEF TypeOK, LocalsOK
  <2>4. QED
    BY <2>2, <2>3
<1>5. CASE item.row.ts # NoTime
  <2>1. /\ batch' = [batch EXCEPT ![p] = StagePut(batch[p], item.key, item.row, o)]
        /\ pos' = [pos EXCEPT ![p] = pos[p] + 1]
        /\ pc' = [pc EXCEPT ![p] = IF pos[p] + 1 = Len(req[p].items)
                                   THEN "commit" ELSE "stage"]
        /\ UNCHANGED <<data, index, durable, lock, req, ptr, old, ret>>
    BY <1>5 DEF StageItem, Go, store, TypeOK
  <2>2. item.row \in FullRows
    BY <1>2, <1>5 DEF Rows, FullRows
  <2>3. StagePut(batch[p], item.key, item.row, o) \in BatchType
    BY <1>2, <1>3, <2>2, StageTypes DEF TypeOK
  <2>4. TypeOK'
    BY <1>1, <2>1, <2>3 DEF TypeOK, Labels
  <2>5. LocalsOK'
    BY <1>1, <2>1 DEF TypeOK, LocalsOK
  <2>6. QED
    BY <2>4, <2>5
<1>6. QED
  BY <1>4, <1>5

LEMMA CommitTypes ==
    ASSUME TypeOK, LocalsOK, NEW p \in Procs, Commit(p) \/ CommitFails(p)
    PROVE  TypeOK' /\ LocalsOK'
<1>1. CASE Commit(p)
  <2>1. data' \in [Keys -> Times \cup {None}]
    BY <1>1 DEF Commit, Merge, TypeOK, BatchType, StoreType
  <2>2. index' \in [Keys -> [Times -> Payloads \cup {None}]]
    BY <1>1 DEF Commit, Merge, TypeOK, BatchType, StoreType
  <2>3. /\ pc[p] = "commit"
        /\ ret' = [ret EXCEPT ![p] = Ok] /\ pc' = [pc EXCEPT ![p] = "return"]
        /\ UNCHANGED <<durable, lock, req, pos, ptr, old, batch>>
    BY <1>1 DEF Commit, Finish, Go, local
  <2>4. TypeOK'
    BY <2>1, <2>2, <2>3 DEF TypeOK, StoreType, Labels
  <2>5. LocalsOK'
    BY <2>3 DEF TypeOK, LocalsOK
  <2>6. QED
    BY <2>4, <2>5
<1>2. CASE CommitFails(p)
  <2>1. /\ pc[p] = "commit"
        /\ ret' = [ret EXCEPT ![p] = Err] /\ pc' = [pc EXCEPT ![p] = "return"]
        /\ UNCHANGED <<data, index, durable, lock, req, pos, ptr, old, batch>>
    BY <1>2 DEF CommitFails, Finish, Go, local, store
  <2>2. TypeOK'
    BY <2>1 DEF TypeOK, Labels
  <2>3. LocalsOK'
    BY <2>1 DEF TypeOK, LocalsOK
  <2>4. QED
    BY <2>2, <2>3
<1>3. QED
  BY <1>1, <1>2

LEMMA DeleteReadTypes ==
    ASSUME TypeOK, LocalsOK, NEW p \in Procs, DeleteRead(p)
    PROVE  TypeOK' /\ LocalsOK'
<1> DEFINE k == req[p].key
<1>1. pc[p] = "delread" /\ k \in Keys /\ data[k] \in Times \cup {None}
  BY RequestFields DEF DeleteRead, LocalsOK, TypeOK, StoreType
<1>2. StageDelete(batch[p], k, data[k]) \in BatchType
  BY <1>1, StageTypes DEF TypeOK
<1>3. /\ ret' \in [Procs -> FullRows \cup {None, Ok, Err, Pending}]
      /\ batch' \in [Procs -> BatchType]
      /\ \E l \in {"return", "commit"} : pc' = [pc EXCEPT ![p] = l]
      /\ UNCHANGED <<data, index, durable, lock, req, pos, ptr, old>>
  BY <1>2 DEF DeleteRead, Finish, Go, store, TypeOK
<1>4. TypeOK'
  BY <1>3 DEF TypeOK, Labels
<1>5. LocalsOK'
  BY <1>1, <1>3 DEF TypeOK, LocalsOK
<1>6. QED
  BY <1>4, <1>5

LEMMA UpdateReadPointerTypes ==
    ASSUME TypeOK, LocalsOK, NEW p \in Procs, UpdateReadPointer(p)
    PROVE  TypeOK' /\ LocalsOK'
<1> DEFINE k == req[p].key
<1>1. pc[p] = "updptr" /\ req[p].op = "update" /\ k \in Keys
      /\ data[k] \in Times \cup {None}
  BY RequestFields DEF UpdateReadPointer, LocalsOK, TypeOK, StoreType
<1>2. /\ ptr' = [ptr EXCEPT ![p] = data[k]]
      /\ pc' = [pc EXCEPT ![p] = IF data[k] = None THEN "updfn" ELSE "updrow"]
      /\ UNCHANGED <<data, index, durable, lock, req, ret, pos, old, batch>>
  BY DEF UpdateReadPointer, Go, store
<1>3. TypeOK'
  BY <1>1, <1>2 DEF TypeOK, Labels
<1>4. LocalsOK'
  BY <1>1, <1>2 DEF TypeOK, LocalsOK
<1>5. QED
  BY <1>3, <1>4

LEMMA UpdateReadRowTypes ==
    ASSUME TypeOK, LocalsOK, NEW p \in Procs, UpdateReadRow(p)
    PROVE  TypeOK' /\ LocalsOK'
<1> DEFINE v == index[req[p].key][ptr[p]]
<1>1. /\ pc[p] = "updrow" /\ req[p].op = "update" /\ req[p].key \in Keys
      /\ ptr[p] \in Times
  BY RequestFields DEF UpdateReadRow, LocalsOK
<1>2. v \in Payloads \cup {None}
  BY <1>1 DEF TypeOK, StoreType
<1>3. /\ old' = [old EXCEPT ![p] = IF v = None THEN None
                                   ELSE [ts |-> ptr[p], val |-> v]]
      /\ ptr' = [ptr EXCEPT ![p] = IF v = None THEN None ELSE ptr[p]]
      /\ pc' = [pc EXCEPT ![p] = "updfn"]
      /\ UNCHANGED <<data, index, durable, lock, req, ret, pos, batch>>
  BY DEF UpdateReadRow, Go, store, TypeOK
<1>4. v # None => [ts |-> ptr[p], val |-> v] \in FullRows
  BY <1>1, <1>2 DEF FullRows
<1>5. TypeOK'
  BY <1>1, <1>3, <1>4 DEF TypeOK, Labels
<1>6. LocalsOK'
  BY <1>1, <1>3, <1>4, ConstantsAssumption DEF TypeOK, LocalsOK, FullRows
<1>7. QED
  BY <1>5, <1>6

\* What Update stages: nothing, a delete of the row it read, or a full row.
LEMMA UpdateStages ==
    ASSUME TypeOK, LocalsOK, NEW p \in Procs, UpdateApply(p)
    PROVE  LET k == req[p].key
               next == req[p].fn[old[p]]
           IN  /\ pc[p] = "updfn" /\ req[p].op = "update" /\ k \in Keys
               /\ req[p] \in Requests
               /\ next \in Answers /\ old[p] \in FullRows \cup {None}
               /\ \/ \E out \in {Ok, Err} : Finish(p, out) /\ batch' = batch
                  \/ /\ next.commit /\ next.row = None /\ old[p] # None
                     /\ batch' = [batch EXCEPT ![p] = StageDelete(batch[p], k, ptr[p])]
                     /\ Go(p, "commit") /\ ret' = ret
                  \/ /\ next.commit /\ next.row \in FullRows
                     /\ batch' = [batch EXCEPT ![p] = StagePut(batch[p], k, next.row, ptr[p])]
                     /\ Go(p, "commit") /\ ret' = ret
<1> DEFINE k == req[p].key
           next == req[p].fn[old[p]]
<1>1. pc[p] = "updfn" /\ req[p].op = "update" /\ req[p] \in Requests
  BY DEF UpdateApply, LocalsOK
<1>2. k \in Keys /\ req[p].fn \in Fns
  BY <1>1, RequestFields
<1>3. old[p] \in FullRows \cup {None}
  BY DEF TypeOK
<1>4. next \in Answers
  BY <1>2, <1>3 DEF Fns, FullRows
<1>5. next.row # None /\ next.row.ts # NoTime => next.row \in FullRows
  BY <1>4 DEF Answers, Rows, FullRows
<1>6. next.commit \in BOOLEAN
  BY <1>4 DEF Answers
<1>7. batch \in [Procs -> BatchType]
  BY DEF TypeOK
<1>8. QED
  BY <1>1, <1>2, <1>3, <1>4, <1>5, <1>6, <1>7 DEF UpdateApply

LEMMA UpdateApplyTypes ==
    ASSUME TypeOK, LocalsOK, NEW p \in Procs, UpdateApply(p)
    PROVE  TypeOK' /\ LocalsOK'
<1>1. pc[p] = "updfn" /\ ptr[p] \in Times \cup {None} /\ batch[p] \in BatchType
      /\ req[p].key \in Keys
  BY UpdateStages DEF TypeOK
<1>2. /\ StageDelete(batch[p], req[p].key, ptr[p]) \in BatchType
      /\ \A r \in FullRows : StagePut(batch[p], req[p].key, r, ptr[p]) \in BatchType
  BY <1>1, StageTypes
<1>3. /\ ret' \in [Procs -> FullRows \cup {None, Ok, Err, Pending}]
      /\ batch' \in [Procs -> BatchType]
      /\ \E l \in {"return", "commit"} : pc' = [pc EXCEPT ![p] = l]
  BY <1>2, UpdateStages DEF Finish, Go, TypeOK
<1>4. UNCHANGED <<data, index, durable, lock, req, pos, ptr, old>>
  BY DEF UpdateApply, store
<1>5. TypeOK'
  BY <1>3, <1>4 DEF TypeOK, Labels
<1>6. LocalsOK'
  BY <1>1, <1>3, <1>4 DEF TypeOK, LocalsOK
<1>7. QED
  BY <1>5, <1>6

LEMMA GetTypes ==
    ASSUME TypeOK, LocalsOK, NEW p \in Procs, GetPointer(p) \/ GetRow(p)
    PROVE  TypeOK' /\ LocalsOK'
<1>1. CASE GetPointer(p)
  <2> DEFINE k == req[p].key
  <2>1. pc[p] = "getptr" /\ req[p].op = "get" /\ k \in Keys
        /\ data[k] \in Times \cup {None}
    BY <1>1, RequestFields DEF GetPointer, LocalsOK, TypeOK, StoreType
  <2>2. /\ ptr' = [ptr EXCEPT ![p] = data[k]]
        /\ ret' = IF data[k] = None THEN [ret EXCEPT ![p] = None] ELSE ret
        /\ pc' = [pc EXCEPT ![p] = IF data[k] = None THEN "return" ELSE "getrow"]
        /\ UNCHANGED <<data, index, durable, lock, req, pos, old, batch>>
    BY <1>1 DEF GetPointer, Finish, Go, store
  <2>3. TypeOK'
    BY <2>1, <2>2 DEF TypeOK, Labels
  <2>4. LocalsOK'
    BY <2>1, <2>2 DEF TypeOK, LocalsOK
  <2>5. QED
    BY <2>3, <2>4
<1>2. CASE GetRow(p)
  <2> DEFINE v == index[req[p].key][ptr[p]]
  <2>1. /\ pc[p] = "getrow" /\ req[p].key \in Keys /\ ptr[p] \in Times
    BY <1>2, RequestFields DEF GetRow, LocalsOK
  <2>2. v \in Payloads \cup {None}
    BY <2>1 DEF TypeOK, StoreType
  <2>3. /\ ret' = [ret EXCEPT ![p] = IF v = None THEN None
                                     ELSE [ts |-> ptr[p], val |-> v]]
        /\ pc' = [pc EXCEPT ![p] = "return"]
        /\ UNCHANGED <<data, index, durable, lock, req, pos, ptr, old, batch>>
    BY <1>2 DEF GetRow, Finish, Go, store, local
  <2>4. v # None => [ts |-> ptr[p], val |-> v] \in FullRows
    BY <2>1, <2>2 DEF FullRows
  <2>5. TypeOK'
    BY <2>3, <2>4 DEF TypeOK, Labels
  <2>6. LocalsOK'
    BY <2>1, <2>3 DEF TypeOK, LocalsOK
  <2>7. QED
    BY <2>5, <2>6
<1>3. QED
  BY <1>1, <1>2

LEMMA ReturnTypes ==
    ASSUME TypeOK, LocalsOK, NEW p \in Procs, Return(p)
    PROVE  TypeOK' /\ LocalsOK'
<1>1. TypeOK'
  BY EmptyBatchType DEF Return, Go, store, TypeOK, Labels
<1>2. LocalsOK'
  BY DEF Return, Go, store, TypeOK, LocalsOK
<1>3. QED
  BY <1>1, <1>2

LEMMA FlushCrashTypes ==
    ASSUME TypeOK, LocalsOK, Flush \/ Crash
    PROVE  TypeOK' /\ LocalsOK'
<1>1. CASE Flush
  <2>1. TypeOK'
    BY <1>1 DEF Flush, local, TypeOK, StoreType
  <2>2. LocalsOK'
    BY <1>1 DEF Flush, local, LocalsOK
  <2>3. QED
    BY <2>1, <2>2
<1>2. CASE Crash
  <2>1. TypeOK'
    BY <1>2, EmptyBatchType DEF Crash, TypeOK, StoreType, Labels
  <2>2. LocalsOK'
    BY <1>2 DEF Crash, LocalsOK
  <2>3. QED
    BY <2>1, <2>2
<1>3. QED
  BY <1>1, <1>2

LEMMA StutterTypes ==
    ASSUME TypeOK, LocalsOK, UNCHANGED vars
    PROVE  TypeOK' /\ LocalsOK'
<1>1. TypeOK'
  BY DEF vars, TypeOK
<1>2. LocalsOK'
  BY DEF vars, LocalsOK
<1>3. QED
  BY <1>1, <1>2

\* Every variable stays in its domain, and every goroutine's locals fit its
\* place in the handler, for any callers.
THEOREM TypesHold == Spec => [](TypeOK /\ LocalsOK)
<1>1. TypeOK /\ LocalsOK /\ [Next]_vars => TypeOK' /\ LocalsOK'
  <2> SUFFICES ASSUME TypeOK, LocalsOK, [Next]_vars
               PROVE  TypeOK' /\ LocalsOK'
    OBVIOUS
  <2>1. ASSUME NEW p \in Procs, NEW r \in Requests, Call(p, r)
        PROVE  TypeOK' /\ LocalsOK'
    BY <2>1, CallTypes
  <2>2. ASSUME NEW p \in Procs, LockStripe(p)
        PROVE  TypeOK' /\ LocalsOK'
    BY <2>2, LockStripeTypes
  <2>3. ASSUME NEW p \in Procs, Step(p)
        PROVE  TypeOK' /\ LocalsOK'
    BY <2>3, StageItemTypes, CommitTypes, DeleteReadTypes, UpdateReadPointerTypes,
       UpdateReadRowTypes, UpdateApplyTypes, GetTypes, ReturnTypes DEF Step
  <2>4. QED
    BY <2>1, <2>2, <2>3, FlushCrashTypes, StutterTypes DEF Next
<1>2. QED
  BY InitTypes, <1>1, PTL DEF Spec
-----------------------------------------------------------------------------
(***************************************************************************)
(* No forward pointer dangles, for any callers: every batch that sets a    *)
(* pointer also writes the entry it names.                                 *)
(***************************************************************************)

LEMMA StagePutFields ==
    ASSUME NEW b \in BatchType, NEW k \in Keys, NEW r \in FullRows, NEW o
    PROVE  LET c == StagePut(b, k, r, o)
           IN  /\ c.d[k] = r.ts
               /\ \A t \in Times : c.i[k][t] = IF t = r.ts THEN r.val
                                               ELSE IF t = o THEN None ELSE b.i[k][t]
               /\ \A j \in Keys \ {k} : c.d[j] = b.d[j] /\ c.i[j] = b.i[j]
BY DEF StagePut, BatchType

LEMMA StageDeleteFields ==
    ASSUME NEW b \in BatchType, NEW k \in Keys, NEW o
    PROVE  LET c == StageDelete(b, k, o)
           IN  /\ c.d[k] = None
               /\ \A t \in Times : c.i[k][t] = IF t = o THEN None ELSE b.i[k][t]
               /\ \A j \in Keys \ {k} : c.d[j] = b.d[j] /\ c.i[j] = b.i[j]
BY DEF StageDelete, BatchType

\* A step of p leaves every other goroutine's locals and locks alone.
LEMMA OthersUntouched ==
    ASSUME TypeOK, LocalsOK, NEW p \in Procs, NEW q \in Procs \ {p},
           (\E r \in Requests : Call(p, r)) \/ LockStripe(p) \/ Step(p)
    PROVE  /\ pc'[q] = pc[q] /\ req'[q] = req[q] /\ ptr'[q] = ptr[q]
           /\ batch'[q] = batch[q]
           /\ \A s \in Stripes : lock[s] = q => lock'[s] = q
<1>1. CASE \E r \in Requests : Call(p, r)
  BY <1>1 DEF Call, Go, local, TypeOK
<1>2. CASE LockStripe(p)
  BY <1>2, ConstantsAssumption DEF LockStripe, Go, local, TypeOK
<1>3. CASE StageItem(p)
  BY <1>3 DEF StageItem, Finish, Go, store, TypeOK
<1>4. CASE Commit(p) \/ CommitFails(p)
  BY <1>4 DEF Commit, CommitFails, Finish, Go, store, local, TypeOK
<1>5. CASE DeleteRead(p)
  BY <1>5 DEF DeleteRead, Finish, Go, store, TypeOK
<1>6. CASE UpdateReadPointer(p) \/ UpdateReadRow(p)
  BY <1>6 DEF UpdateReadPointer, UpdateReadRow, Go, store, TypeOK
<1>7. CASE UpdateApply(p)
  <2>1. UNCHANGED <<lock, req, ptr>>
    BY <1>7 DEF UpdateApply
  <2>2. pc'[q] = pc[q] /\ batch'[q] = batch[q]
    BY <1>7, UpdateStages DEF Finish, Go, TypeOK
  <2>3. QED
    BY <2>1, <2>2
<1>8. CASE GetPointer(p) \/ GetRow(p)
  BY <1>8 DEF GetPointer, GetRow, Finish, Go, store, local, TypeOK
<1>9. CASE Return(p)
  BY <1>9 DEF Return, Go, store, TypeOK
<1>10. QED
  BY <1>1, <1>2, <1>3, <1>4, <1>5, <1>6, <1>7, <1>8, <1>9 DEF Step

LEMMA EmptyBatchWellFormed ==
    ASSUME NEW p \in Procs, batch[p] = EmptyBatch
    PROVE  BatchWellFormed(p)
BY ConstantsAssumption DEF EmptyBatch, BatchWellFormed

LEMMA StageKeepsWellFormed ==
    ASSUME TypeOK, NEW p \in Procs, BatchWellFormed(p), pc[p] # "idle",
           NEW k \in KeysOf(req[p]), k \in Keys, NEW o,
           \/ \E r \in FullRows : batch' = [batch EXCEPT ![p] = StagePut(batch[p], k, r, o)]
           \/ batch' = [batch EXCEPT ![p] = StageDelete(batch[p], k, o)],
           req' = req, pc'[p] # "idle"
    PROVE  BatchWellFormed(p)'
<1>1. batch[p] \in BatchType /\ batch \in [Procs -> BatchType]
  BY DEF TypeOK
<1>2. CASE \E r \in FullRows : batch' = [batch EXCEPT ![p] = StagePut(batch[p], k, r, o)]
  <2>1. PICK r \in FullRows : batch' = [batch EXCEPT ![p] = StagePut(batch[p], k, r, o)]
    BY <1>2
  <2>2. batch'[p] = StagePut(batch[p], k, r, o)
    BY <1>1, <2>1
  <2>3. r.ts \in Times /\ r.val \in Payloads
    BY DEF FullRows
  <2>4. QED
    BY <1>1, <2>2, <2>3, StagePutFields, ConstantsAssumption DEF BatchWellFormed
<1>3. CASE batch' = [batch EXCEPT ![p] = StageDelete(batch[p], k, o)]
  <2>1. batch'[p] = StageDelete(batch[p], k, o)
    BY <1>1, <1>3
  <2>2. QED
    BY <1>1, <2>1, StageDeleteFields, ConstantsAssumption DEF BatchWellFormed
<1>4. QED
  BY <1>2, <1>3

LEMMA StepKeepsWellFormed ==
    ASSUME TypeOK, LocalsOK, NEW p \in Procs, BatchWellFormed(p),
           (\E r \in Requests : Call(p, r)) \/ LockStripe(p) \/ Step(p)
    PROVE  BatchWellFormed(p)'
<1>1. CASE \E r \in Requests : Call(p, r)
  BY <1>1, ConstantsAssumption DEF Call, Go, local, TypeOK, BatchWellFormed
<1>2. CASE LockStripe(p)
  <2>1. batch' = batch /\ req' = req
    BY <1>2 DEF LockStripe, local
  <2>2. pc'[p] # "idle"
    BY <1>2 DEF LockStripe, Go, FirstStep, TypeOK
  <2>3. QED
    BY <2>1, <2>2 DEF BatchWellFormed
<1>3. CASE StageItem(p)
  <2> DEFINE item == req[p].items[pos[p] + 1]
             o    == IF item.new THEN None ELSE data[item.key]
  <2>1. /\ pc[p] = "stage" /\ req[p].op = "put" /\ req[p].items \in Seq(Items)
        /\ pos[p] + 1 \in 1..Len(req[p].items) /\ item \in Items
    BY <1>3, NextItem DEF StageItem
  <2>2. item.key \in KeysOf(req[p]) /\ item.key \in Keys /\ item.row \in Rows
    BY <2>1 DEF KeysOf, Items
  <2>3. req' = req /\ pc'[p] # "idle"
    BY <1>3 DEF StageItem, Finish, Go, TypeOK
  <2>4. CASE item.row.ts = NoTime
    BY <1>3, <2>1, <2>3, <2>4 DEF StageItem, BatchWellFormed
  <2>5. CASE item.row.ts # NoTime
    <3>1. item.row \in FullRows
      BY <2>2, <2>5 DEF Rows, FullRows
    <3>2. batch' = [batch EXCEPT ![p] = StagePut(batch[p], item.key, item.row, o)]
      BY <1>3, <2>5 DEF StageItem, TypeOK
    <3>3. QED
      BY <2>1, <2>2, <2>3, <3>1, <3>2, StageKeepsWellFormed
  <2>6. QED
    BY <2>4, <2>5
<1>4. CASE Commit(p) \/ CommitFails(p)
  BY <1>4 DEF Commit, CommitFails, Finish, Go, local, TypeOK, BatchWellFormed
<1>5. CASE DeleteRead(p)
  <2>1. pc[p] = "delread" /\ req[p].op = "delete" /\ req[p].key \in Keys
    BY <1>5, RequestFields DEF DeleteRead, LocalsOK
  <2>2. req[p].key \in KeysOf(req[p])
    BY <2>1 DEF KeysOf
  <2>3. req' = req /\ pc'[p] # "idle"
    BY <1>5 DEF DeleteRead, Finish, Go, TypeOK
  <2>4. \/ batch' = batch
        \/ batch' = [batch EXCEPT ![p] = StageDelete(batch[p], req[p].key, data[req[p].key])]
    BY <1>5 DEF DeleteRead, TypeOK
  <2>5. CASE batch' = batch
    BY <2>1, <2>3, <2>5 DEF BatchWellFormed
  <2>6. CASE batch' = [batch EXCEPT ![p] = StageDelete(batch[p], req[p].key, data[req[p].key])]
    BY <2>1, <2>2, <2>3, <2>6, StageKeepsWellFormed
  <2>7. QED
    BY <2>4, <2>5, <2>6
<1>6. CASE UpdateReadPointer(p) \/ UpdateReadRow(p)
  BY <1>6 DEF UpdateReadPointer, UpdateReadRow, Go, TypeOK, BatchWellFormed
<1>7. CASE UpdateApply(p)
  <2>1. pc[p] = "updfn" /\ req[p].op = "update" /\ req[p].key \in Keys
    BY <1>7, UpdateStages
  <2>2. req[p].key \in KeysOf(req[p])
    BY <2>1 DEF KeysOf
  <2>3. req' = req
    BY <1>7 DEF UpdateApply
  <2>4. pc'[p] # "idle"
    BY <1>7, UpdateStages DEF Finish, Go, TypeOK
  <2>5. \/ batch' = batch
        \/ batch' = [batch EXCEPT ![p] = StageDelete(batch[p], req[p].key, ptr[p])]
        \/ \E r \in FullRows :
              batch' = [batch EXCEPT ![p] = StagePut(batch[p], req[p].key, r, ptr[p])]
    BY <1>7, UpdateStages
  <2>6. CASE batch' = batch
    BY <2>1, <2>3, <2>4, <2>6 DEF BatchWellFormed
  <2>7. CASE batch' # batch
    BY <2>1, <2>2, <2>3, <2>4, <2>5, <2>7, StageKeepsWellFormed
  <2>8. QED
    BY <2>6, <2>7
<1>8. CASE GetPointer(p) \/ GetRow(p)
  BY <1>8 DEF GetPointer, GetRow, Finish, Go, local, TypeOK, BatchWellFormed
<1>9. CASE Return(p)
  <2>1. batch'[p] = EmptyBatch
    BY <1>9 DEF Return, TypeOK
  <2>2. QED
    BY <2>1, ConstantsAssumption DEF EmptyBatch, BatchWellFormed
<1>10. QED
  BY <1>1, <1>2, <1>3, <1>4, <1>5, <1>6, <1>7, <1>8, <1>9 DEF Step

WellFormed == \A p \in Procs : BatchWellFormed(p)

LEMMA WellFormedStep ==
    ASSUME TypeOK, LocalsOK, WellFormed, [Next]_vars
    PROVE  WellFormed'
<1> SUFFICES ASSUME NEW q \in Procs PROVE BatchWellFormed(q)'
  BY DEF WellFormed
<1>1. BatchWellFormed(q)
  BY DEF WellFormed
<1>2. ASSUME NEW p \in Procs,
             (\E r \in Requests : Call(p, r)) \/ LockStripe(p) \/ Step(p)
      PROVE  BatchWellFormed(q)'
  <2>1. CASE p = q
    BY <1>1, <1>2, <2>1, StepKeepsWellFormed
  <2>2. CASE p # q
    BY <1>1, <1>2, <2>2, OthersUntouched DEF BatchWellFormed
  <2>3. QED
    BY <2>1, <2>2
<1>3. CASE Flush
  BY <1>1, <1>3 DEF Flush, local, BatchWellFormed
<1>4. CASE Crash
  <2>1. batch'[q] = EmptyBatch
    BY <1>4 DEF Crash
  <2>2. QED
    BY <2>1, ConstantsAssumption DEF EmptyBatch, BatchWellFormed
<1>5. CASE UNCHANGED vars
  BY <1>1, <1>5 DEF vars, BatchWellFormed
<1>6. QED
  BY <1>2, <1>3, <1>4, <1>5 DEF Next

LEMMA CommitResolves ==
    ASSUME TypeOK, NEW p \in Procs, BatchWellFormed(p), PointersResolve, Commit(p)
    PROVE  PointersResolve'
<1>1. batch[p] \in BatchType
  BY DEF TypeOK
<1>2. ASSUME NEW k \in Keys, data'[k] # None
      PROVE  index'[k][data'[k]] # None
  <2>1. data'[k] = Merge(data[k], batch[p].d[k])
    BY DEF Commit
  <2>2. \A t \in Times : index'[k][t] = Merge(index[k][t], batch[p].i[k][t])
    BY DEF Commit
  <2>3. CASE batch[p].d[k] = Keep
    <3>1. data'[k] = data[k] /\ data[k] \in Times
      BY <1>2, <2>1, <2>3 DEF Merge, TypeOK, StoreType
    <3>2. index'[k][data[k]] = index[k][data[k]]
      BY <2>2, <2>3, <3>1 DEF Merge, BatchWellFormed
    <3>3. QED
      BY <1>2, <3>1, <3>2 DEF PointersResolve
  <2>4. CASE batch[p].d[k] # Keep
    <3>1. data'[k] = batch[p].d[k] /\ batch[p].d[k] \in Times
      BY <1>1, <1>2, <2>1, <2>4 DEF Merge, BatchType
    <3>2. batch[p].i[k][batch[p].d[k]] \in Payloads
      BY <3>1 DEF BatchWellFormed
    <3>3. QED
      BY <2>2, <3>1, <3>2, ConstantsAssumption DEF Merge
  <2>5. QED
    BY <2>3, <2>4
<1>3. durable' = durable
  BY DEF Commit
<1>4. QED
  BY <1>2, <1>3 DEF PointersResolve

\* No forward pointer dangles, now or after a crash, whatever the callers do:
\* a stored row is never taken for an absent one by Get or Update.
THEOREM PointersAlwaysResolve == Spec => []PointersResolve
<1>1. Init => WellFormed /\ PointersResolve
  <2> SUFFICES ASSUME Init PROVE WellFormed /\ PointersResolve
    OBVIOUS
  <2>1. PointersResolve
    BY DEF Init, PointersResolve
  <2>2. WellFormed
    BY ConstantsAssumption DEF Init, EmptyBatch, WellFormed, BatchWellFormed
  <2>3. QED
    BY <2>1, <2>2
<1>2. TypeOK /\ LocalsOK /\ WellFormed /\ PointersResolve /\ [Next]_vars => PointersResolve'
  <2> SUFFICES ASSUME TypeOK, LocalsOK, WellFormed, PointersResolve, [Next]_vars
               PROVE  PointersResolve'
    OBVIOUS
  <2>1. ASSUME NEW p \in Procs, Commit(p)
        PROVE  PointersResolve'
    BY <2>1, CommitResolves DEF WellFormed
  <2>2. CASE Flush
    BY <2>2 DEF Flush, PointersResolve
  <2>3. CASE Crash
    BY <2>3 DEF Crash, PointersResolve
  <2>4. CASE UNCHANGED <<data, index, durable>>
    BY <2>4 DEF PointersResolve
  <2>5. ASSUME NEW p \in Procs, ~Commit(p),
               (\E r \in Requests : Call(p, r)) \/ LockStripe(p) \/ Step(p)
        PROVE  UNCHANGED <<data, index, durable>>
    <3>1. CASE \E r \in Requests : Call(p, r)
      BY <3>1 DEF Call
    <3>2. CASE LockStripe(p)
      BY <3>2 DEF LockStripe
    <3>3. CASE Step(p)
      BY <2>5, <3>3 DEF Step, StageItem, CommitFails, DeleteRead, UpdateReadPointer,
         UpdateReadRow, UpdateApply, GetPointer, GetRow, Return, store
    <3>4. QED
      BY <2>5, <3>1, <3>2, <3>3
  <2>6. QED
    BY <2>1, <2>2, <2>3, <2>4, <2>5 DEF Next, vars
<1>3. QED
  BY <1>1, <1>2, WellFormedStep, TypesHold, PTL DEF Spec
-----------------------------------------------------------------------------
(***************************************************************************)
(* The keyspaces agree, for callers that keep the contract of AssumeNew.   *)
(***************************************************************************)

\* A key that is ever written with AssumeNew has one indexed value.
LEMMA OneTimeForNewKeys ==
    ASSUME AssumeNewContract, NEW k \in NewKeys,
           NEW t1 \in EverAt(k), NEW t2 \in EverAt(k)
    PROVE  t1 = t2
BY DEF AssumeNewContract, EverAt

\* The row of an item is among the rows its request writes.
LEMMA ItemWrites ==
    ASSUME NEW r \in Requests, r.op = "put", NEW i \in DOMAIN r.items,
           r.items[i] \in Items, r.items[i].row.ts # NoTime
    PROVE  /\ r.items[i].row.ts \in TimesAt(r, r.items[i].key)
           /\ r.items[i].key \in KeysOf(r)
           /\ r.items[i].new => r.items[i].key \in NewKeys
BY DEF TimesAt, WritesAt, KeysOf, NewKeys, Items

LEMMA AnswerWrites ==
    ASSUME NEW r \in Requests, r.op = "update", NEW o \in FullRows \cup {None},
           r.fn[o].commit, r.fn[o].row \in FullRows
    PROVE  r.fn[o].row.ts \in TimesAt(r, r.key)
<1>1. r.fn \in Fns
  BY RequestFields
<1>2. o \in DOMAIN r.fn
  BY <1>1 DEF Fns, FullRows
<1>3. r.fn[o].row # None /\ r.fn[o].row.ts # NoTime
  BY ConstantsAssumption DEF FullRows
<1>4. r.fn[o].row \in WritesAt(r, r.key)
  BY <1>2, <1>3 DEF WritesAt
<1>5. QED
  BY <1>3, <1>4 DEF TimesAt

LEMMA KeysOfRequest ==
    ASSUME NEW r \in Requests
    PROVE  KeysOf(r) \subseteq Keys
<1>1. CASE r.op = "put"
  <2>1. r.items \in Seq(Items)
    BY <1>1, RequestFields
  <2>2. \A i \in DOMAIN r.items : r.items[i] \in Items
    BY <2>1
  <2>3. QED
    BY <1>1, <2>2 DEF KeysOf, Items
<1>2. CASE r.op # "put"
  BY <1>2, RequestFields DEF KeysOf
<1>3. QED
  BY <1>1, <1>2

\* A locked writer keeps its stripes through its steps.
LEMMA LocksKept ==
    ASSUME TypeOK, LocalsOK, NEW p \in Procs, HoldsItsLocks(p),
           (\E r \in Requests : Call(p, r)) \/ LockStripe(p) \/ Step(p)
    PROVE  HoldsItsLocks(p)'
<1> USE DEF HoldsItsLocks
<1>1. CASE \E r \in Requests : Call(p, r)
  <2>1. PICK r \in Requests : Call(p, r)
    BY <1>1
  <2>2. req'[p] = r
    BY <2>1 DEF Call, TypeOK
  <2>3. AllNew(r) \/ pc'[p] \in {"lock", "getptr"}
    <3>1. r.op = "get" => FirstStep(r) = "getptr"
      BY DEF FirstStep
    <3>2. QED
      BY <2>1, <3>1 DEF Call, Go, TypeOK
  <2>4. QED
    BY <2>2, <2>3
<1>2. CASE LockStripe(p)
  <2>1. PICK s \in StripesOf(req[p]) \ Held(p) :
           /\ lock' = [lock EXCEPT ![s] = p]
           /\ Go(p, IF StripesOf(req[p]) = Held(p) \cup {s}
                    THEN FirstStep(req[p]) ELSE "lock")
    BY <1>2 DEF LockStripe
  <2>2. req' = req /\ req[p] \in Requests /\ req[p].op \in {"put", "delete", "update"}
    BY <1>2 DEF LockStripe, LocalsOK
  <2>3. \A k \in KeysOf(req[p]) : k \in Keys
    BY <2>2, KeysOfRequest
  <2>4. CASE StripesOf(req[p]) = Held(p) \cup {s}
    <3>1. ASSUME NEW k \in KeysOf(req[p])
          PROVE  lock'[StripeOf[k]] = p
      <4>1. StripeOf[k] \in Held(p) \cup {s} /\ StripeOf[k] \in Stripes
        BY <2>3, <2>4 DEF StripesOf, Stripes
      <4>2. QED
        BY <2>1, <4>1 DEF Held, TypeOK
    <3>2. QED
      BY <2>2, <3>1
  <2>5. CASE StripesOf(req[p]) # Held(p) \cup {s}
    <3>1. pc'[p] = "lock"
      BY <2>1, <2>5 DEF Go, TypeOK
    <3>2. QED
      BY <3>1
  <2>6. QED
    BY <2>4, <2>5
<1>3. CASE Return(p)
  BY <1>3 DEF Return, Go, TypeOK
<1>4. CASE GetPointer(p) \/ GetRow(p)
  BY <1>4 DEF GetPointer, GetRow, Finish, Go, TypeOK
<1>5. CASE StageItem(p)
  BY <1>5 DEF StageItem, Finish, Go, TypeOK
<1>6. CASE Commit(p) \/ CommitFails(p)
  BY <1>6 DEF Commit, CommitFails, Finish, Go, TypeOK
<1>7. CASE DeleteRead(p)
  BY <1>7 DEF DeleteRead, Finish, Go, TypeOK
<1>8. CASE UpdateReadPointer(p) \/ UpdateReadRow(p)
  BY <1>8 DEF UpdateReadPointer, UpdateReadRow, Go, TypeOK
<1>9. CASE UpdateApply(p)
  <2>1. lock' = lock /\ req' = req /\ pc[p] = "updfn"
    BY <1>9 DEF UpdateApply
  <2>2. QED
    BY <2>1
<1>10. QED
  BY <1>1, <1>2, <1>3, <1>4, <1>5, <1>6, <1>7, <1>8, <1>9 DEF Step

\* Two goroutines past their locks do not both work on an ordinary key.
LEMMA OrdinaryKeysExclusive ==
    ASSUME LocalsOK, NEW p \in Procs, NEW q \in Procs \ {p},
           HoldsItsLocks(p), HoldsItsLocks(q),
           pc[p] = "commit",
           pc[q] \in {"stage", "commit", "delread", "updptr", "updrow", "updfn"},
           NEW k \in KeysOf(req[p]), k \in KeysOf(req[q]), k \in Keys \ NewKeys
    PROVE  FALSE
<1>1. ASSUME NEW x \in Procs, k \in KeysOf(req[x]), req[x] \in Requests
      PROVE  ~AllNew(req[x])
  BY <1>1 DEF AllNew, KeysOf, NewKeys
<1>2. req[p] \in Requests /\ req[q] \in Requests
  BY DEF LocalsOK
<1>3. ~AllNew(req[p]) /\ ~AllNew(req[q])
  BY <1>1, <1>2
<1>4. lock[StripeOf[k]] = p /\ lock[StripeOf[k]] = q
  BY <1>3 DEF HoldsItsLocks
<1>5. QED
  BY <1>4

LEMMA EmptyReplaces ==
    ASSUME NEW r
    PROVE  Replaces(EmptyBatch, r)
BY ConstantsAssumption DEF Replaces, EmptyBatch

\* Staging a row over the stored one.
LEMMA PutReplaces ==
    ASSUME AssumeNewContract, Agree(data, index), NEW r \in Requests,
           NEW b \in BatchType, Replaces(b, r), r.op = "put" \/ b = EmptyBatch,
           NEW k \in Keys, NEW w \in FullRows, w.ts \in TimesAt(r, k),
           NEW o, k \in NewKeys \/ o = data[k]
    PROVE  Replaces(StagePut(b, k, w, o), r)
<1> DEFINE c == StagePut(b, k, w, o)
<1> SUFFICES ASSUME NEW j \in Keys, NEW t \in Times
             PROVE  /\ c.d[j] = t => t \in TimesAt(r, j)
                    /\ c.i[j][t] \in Payloads => c.d[j] = t
                    /\ (j \in NewKeys /\ c.d[j] = None /\ t \in EverAt(j)) => c.i[j][t] = None
                    /\ (j \notin NewKeys /\ c.d[j] # Keep /\ index[j][t] # None
                          /\ c.i[j][t] = Keep) => c.d[j] = t
  BY DEF Replaces
<1>1. w.ts \in Times /\ w.val \in Payloads
  BY DEF FullRows
<1>2. CASE j # k
  <2>1. c.d[j] = b.d[j] /\ c.i[j] = b.i[j]
    BY <1>2, StagePutFields
  <2>2. QED
    BY <2>1 DEF Replaces
<1>3. CASE j = k
  <2>1. c.d[j] = w.ts
    BY <1>3, StagePutFields
  <2>2. c.i[j][t] = IF t = w.ts THEN w.val ELSE IF t = o THEN None ELSE b.i[j][t]
    BY <1>3, StagePutFields
  <2>3. c.i[j][t] \in Payloads => c.d[j] = t
    <3>1. SUFFICES ASSUME t # w.ts, b.i[j][t] \in Payloads
                   PROVE  FALSE
      BY <2>1, <2>2, ConstantsAssumption
    <3>2. b # EmptyBatch
      BY <3>1, ConstantsAssumption DEF EmptyBatch
    <3>3. t \in TimesAt(r, j)
      BY <3>1 DEF Replaces
    <3>4. QED
      BY <1>3, <3>1, <3>2, <3>3 DEF AssumeNewContract
  <2>4. (j \notin NewKeys /\ index[j][t] # None) => c.i[j][t] # Keep
    BY <1>1, <1>3, <2>2, ConstantsAssumption DEF Agree
  <2>5. QED
    BY <1>1, <1>3, <2>1, <2>3, <2>4, ConstantsAssumption
<1>4. QED
  BY <1>2, <1>3

\* Staging the delete of the stored row.
LEMMA DeleteReplaces ==
    ASSUME AssumeNewContract, Agree(data, index), NEW r \in Requests, NEW k \in Keys,
           NEW o, IF k \in NewKeys THEN o \in EverAt(k) ELSE o = data[k]
    PROVE  Replaces(StageDelete(EmptyBatch, k, o), r)
<1> DEFINE c == StageDelete(EmptyBatch, k, o)
<1> SUFFICES ASSUME NEW j \in Keys, NEW t \in Times
             PROVE  /\ c.d[j] = t => t \in TimesAt(r, j)
                    /\ c.i[j][t] \in Payloads => c.d[j] = t
                    /\ (j \in NewKeys /\ c.d[j] = None /\ t \in EverAt(j)) => c.i[j][t] = None
                    /\ (j \notin NewKeys /\ c.d[j] # Keep /\ index[j][t] # None
                          /\ c.i[j][t] = Keep) => c.d[j] = t
  BY DEF Replaces
<1>1. EmptyBatch.d[j] = Keep /\ EmptyBatch.i[j][t] = Keep
  BY DEF EmptyBatch
<1>2. CASE j # k
  <2>1. c.d[j] = Keep /\ c.i[j][t] = Keep
    BY <1>1, <1>2, StageDeleteFields, EmptyBatchType
  <2>2. QED
    BY <2>1, ConstantsAssumption
<1>3. CASE j = k
  <2>1. c.d[j] = None /\ c.i[j][t] = IF t = o THEN None ELSE Keep
    BY <1>1, <1>3, StageDeleteFields, EmptyBatchType
  <2>2. j \in NewKeys /\ t \in EverAt(j) => t = o
    BY <1>3, OneTimeForNewKeys
  <2>3. j \notin NewKeys /\ index[j][t] # None => t = o
    BY <1>3 DEF Agree
  <2>4. QED
    BY <2>1, <2>2, <2>3, ConstantsAssumption
<1>4. QED
  BY <1>2, <1>3

\* A stored pointer of a key written with AssumeNew is its one indexed value.
LEMMA NewKeyPointer ==
    ASSUME TypeOK, Agree(data, index), NewKeysFixed(index), NEW k \in NewKeys,
           k \in Keys, data[k] # None
    PROVE  data[k] \in EverAt(k)
BY DEF TypeOK, StoreType, Agree, NewKeysFixed

LEMMA FreshKept ==
    ASSUME TypeOK, LocalsOK, Agree(data, index), NewKeysFixed(index),
           NEW p \in Procs, PointerIsFresh(p),
           (\E r \in Requests : Call(p, r)) \/ LockStripe(p) \/ Step(p)
    PROVE  PointerIsFresh(p)'
<1> USE DEF PointerIsFresh
<1>1. CASE UpdateReadPointer(p)
  <2> DEFINE k == req[p].key
  <2>1. k \in Keys /\ ptr'[p] = data[k] /\ req' = req /\ data' = data
    BY <1>1, RequestFields DEF UpdateReadPointer, LocalsOK, store, TypeOK
  <2>2. k \in NewKeys => data[k] \in EverAt(k) \cup {None}
    BY <2>1, NewKeyPointer
  <2>3. QED
    BY <2>1, <2>2
<1>2. CASE UpdateReadRow(p)
  <2> DEFINE k == req[p].key
  <2>1. k \in Keys /\ req' = req /\ data' = data /\ pc[p] = "updrow" /\ ptr[p] \in Times
    BY <1>2, RequestFields DEF UpdateReadRow, LocalsOK, store
  <2>2. ptr'[p] = IF index[k][ptr[p]] = None THEN None ELSE ptr[p]
    BY <1>2 DEF UpdateReadRow, TypeOK
  <2>3. k \notin NewKeys => ptr[p] = data[k] /\ index[k][ptr[p]] # None
    BY <2>1 DEF Agree
  <2>4. QED
    BY <2>1, <2>2, <2>3
<1>3. CASE ~UpdateReadPointer(p) /\ ~UpdateReadRow(p)
  <2>1. pc'[p] \notin {"updrow", "updfn"}
    <3>1. CASE \E r \in Requests : Call(p, r)
      BY <3>1 DEF Call, Go, FirstStep, TypeOK
    <3>2. CASE LockStripe(p)
      BY <3>2 DEF LockStripe, Go, FirstStep, TypeOK
    <3>3. CASE UpdateApply(p)
      BY <3>3, UpdateStages DEF Finish, Go, TypeOK
    <3>4. CASE StageItem(p)
      BY <3>4 DEF StageItem, Finish, Go, TypeOK
    <3>5. CASE Commit(p) \/ CommitFails(p) \/ DeleteRead(p)
      BY <3>5 DEF Commit, CommitFails, DeleteRead, Finish, Go, TypeOK
    <3>6. CASE GetPointer(p) \/ GetRow(p) \/ Return(p)
      BY <3>6 DEF GetPointer, GetRow, Return, Finish, Go, TypeOK
    <3>7. QED
      BY <1>3, <3>1, <3>2, <3>3, <3>4, <3>5, <3>6 DEF Step
  <2>2. QED
    BY <2>1
<1>4. QED
  BY <1>1, <1>2, <1>3

LEMMA StartsEmptyKept ==
    ASSUME TypeOK, LocalsOK, NEW p \in Procs, BatchStartsEmpty(p),
           (\E r \in Requests : Call(p, r)) \/ LockStripe(p) \/ Step(p)
    PROVE  BatchStartsEmpty(p)'
<1> USE DEF BatchStartsEmpty
<1>1. CASE \E r \in Requests : Call(p, r)
  BY <1>1 DEF Call, local, EmptyBatch
<1>2. CASE LockStripe(p)
  BY <1>2 DEF LockStripe, local, EmptyBatch
<1>3. CASE StageItem(p)
  BY <1>3 DEF StageItem, Finish, Go, TypeOK
<1>4. CASE UpdateApply(p)
  <2>1. pc'[p] \in {"return", "commit"}
    BY <1>4, UpdateStages DEF Finish, Go, TypeOK
  <2>2. QED
    BY <2>1
<1>5. CASE Commit(p) \/ CommitFails(p) \/ DeleteRead(p)
  BY <1>5 DEF Commit, CommitFails, DeleteRead, Finish, Go, TypeOK
<1>6. CASE UpdateReadPointer(p) \/ UpdateReadRow(p)
  BY <1>6 DEF UpdateReadPointer, UpdateReadRow, EmptyBatch
<1>7. CASE GetPointer(p) \/ GetRow(p)
  BY <1>7 DEF GetPointer, GetRow, Finish, Go, TypeOK
<1>8. CASE Return(p)
  BY <1>8 DEF Return, TypeOK, EmptyBatch
<1>9. QED
  BY <1>1, <1>2, <1>3, <1>4, <1>5, <1>6, <1>7, <1>8 DEF Step

\* What a batch replaces lasts while the index does.
LEMMA ReplacesStays ==
    ASSUME NEW p \in Procs, index' = index, req' = req, NEW b, batch'[p] = b, Replaces(b, req[p])
    PROVE  BatchReplacesEntries(p)'
  BY DEF BatchReplacesEntries, Replaces

\* p's own step, other than its commit, keeps its batch a replacement.
LEMMA ReplacesKept ==
    ASSUME AssumeNewContract, TypeOK, LocalsOK, Agree(data, index), NewKeysFixed(index),
           NEW p \in Procs, PointerIsFresh(p), BatchReplacesEntries(p), BatchStartsEmpty(p),
           (\E r \in Requests : Call(p, r)) \/ LockStripe(p) \/ Step(p)
    PROVE  BatchReplacesEntries(p)'
<1>1. CASE ~(pc'[p] \in {"stage", "commit"})
  BY <1>1 DEF BatchReplacesEntries
<1>2. CASE pc'[p] \in {"stage", "commit"} /\ batch'[p] = EmptyBatch /\ index' = index
  <2>1. Replaces(EmptyBatch, req'[p])
    BY EmptyReplaces
  <2>2. QED
    BY <1>2, <2>1 DEF BatchReplacesEntries, Replaces
<1>3. CASE \E r \in Requests : Call(p, r)
  <2>1. batch'[p] = EmptyBatch /\ index' = index
    BY <1>3 DEF Call, local, BatchStartsEmpty
  <2>2. QED
    BY <1>1, <1>2, <2>1
<1>4. CASE LockStripe(p)
  <2>1. batch'[p] = EmptyBatch /\ index' = index
    BY <1>4 DEF LockStripe, local, BatchStartsEmpty
  <2>2. QED
    BY <1>1, <1>2, <2>1
<1>5. CASE StageItem(p) /\ pc'[p] \in {"stage", "commit"}
  <2> DEFINE i    == pos[p] + 1
             item == req[p].items[i]
             o    == IF item.new THEN None ELSE data[item.key]
  <2>1. /\ pc[p] = "stage" /\ req[p] \in Requests /\ req[p].op = "put"
        /\ req[p].items \in Seq(Items) /\ i \in DOMAIN req[p].items /\ item \in Items
    BY <1>5, NextItem DEF StageItem
  <2>2. item.row.ts # NoTime
    BY <1>5 DEF StageItem, Finish, Go, TypeOK
  <2>3. item.row \in FullRows /\ item.key \in Keys
    BY <2>1, <2>2 DEF Items, Rows, FullRows
  <2>4. /\ batch'[p] = StagePut(batch[p], item.key, item.row, o)
        /\ req' = req /\ index' = index
    BY <1>5, <2>2 DEF StageItem, store, TypeOK
  <2>5. item.row.ts \in TimesAt(req[p], item.key) /\ (item.new => item.key \in NewKeys)
    BY <2>1, <2>2, ItemWrites
  <2>6. Replaces(batch[p], req[p]) /\ batch[p] \in BatchType
    BY <2>1 DEF BatchReplacesEntries, TypeOK
  <2>7. Replaces(StagePut(batch[p], item.key, item.row, o), req[p])
    <3>1. item.key \in NewKeys \/ o = data[item.key]
      BY <2>5
    <3>2. QED
      BY <2>1, <2>3, <2>5, <2>6, <3>1, PutReplaces
  <2>8. QED
    <3> HIDE DEF item, o, i
    <3>1. QED
      BY <2>4, <2>7, ReplacesStays
<1>6. CASE DeleteRead(p) /\ pc'[p] \in {"stage", "commit"}
  <2> DEFINE k == req[p].key
  <2>1. pc[p] = "delread" /\ req[p] \in Requests /\ k \in Keys /\ batch[p] = EmptyBatch
    BY <1>6, RequestFields DEF DeleteRead, LocalsOK, BatchStartsEmpty
  <2>2. data[k] # None /\ batch'[p] = StageDelete(EmptyBatch, k, data[k])
        /\ req' = req /\ index' = index
    BY <1>6, <2>1 DEF DeleteRead, Finish, Go, store, TypeOK
  <2>3. IF k \in NewKeys THEN data[k] \in EverAt(k) ELSE data[k] = data[k]
    BY <2>1, <2>2, NewKeyPointer
  <2>4. Replaces(StageDelete(EmptyBatch, k, data[k]), req[p])
    BY <2>1, <2>3, DeleteReplaces
  <2>5. QED
    <3> HIDE DEF k
    <3>1. QED
      BY <2>2, <2>4, ReplacesStays
<1>7. CASE UpdateApply(p) /\ pc'[p] \in {"stage", "commit"}
  <2> DEFINE k == req[p].key
             next == req[p].fn[old[p]]
  <2>1. /\ pc[p] = "updfn" /\ req[p].op = "update" /\ req[p] \in Requests /\ k \in Keys
        /\ batch[p] = EmptyBatch /\ old[p] \in FullRows \cup {None}
        /\ (old[p] = None) = (ptr[p] = None)
    BY <1>7, UpdateStages DEF BatchStartsEmpty, LocalsOK
  <2>2. IF k \in NewKeys THEN ptr[p] \in EverAt(k) \cup {None} ELSE ptr[p] = data[k]
    BY <2>1 DEF PointerIsFresh
  <2>3. req' = req /\ index' = index /\ batch \in [Procs -> BatchType]
    BY <1>7 DEF UpdateApply, store, TypeOK
  <2>4. CASE next.row = None /\ old[p] # None
             /\ batch' = [batch EXCEPT ![p] = StageDelete(batch[p], k, ptr[p])]
    <3>1. batch'[p] = StageDelete(EmptyBatch, k, ptr[p])
      BY <2>1, <2>3, <2>4
    <3>2. IF k \in NewKeys THEN ptr[p] \in EverAt(k) ELSE ptr[p] = data[k]
      BY <2>1, <2>2, <2>4
    <3>3. Replaces(StageDelete(EmptyBatch, k, ptr[p]), req[p])
      BY <2>1, <3>2, DeleteReplaces
    <3>4. QED
      BY <2>3, <3>1, <3>3, ReplacesStays
  <2>5. CASE next.commit /\ next.row \in FullRows
             /\ batch' = [batch EXCEPT ![p] = StagePut(batch[p], k, next.row, ptr[p])]
    <3>1. batch'[p] = StagePut(EmptyBatch, k, next.row, ptr[p])
      BY <2>1, <2>3, <2>5
    <3>2. next.row.ts \in TimesAt(req[p], k)
      BY <2>1, <2>5, AnswerWrites
    <3>3. Replaces(StagePut(EmptyBatch, k, next.row, ptr[p]), req[p])
      BY <2>1, <2>2, <2>5, <3>2, EmptyReplaces, EmptyBatchType, PutReplaces
    <3>4. QED
      BY <2>3, <3>1, <3>3, ReplacesStays
  <2>6. \A out : ~Finish(p, out)
    BY <1>7 DEF Finish, Go, TypeOK
  <2>7. QED
    BY <1>7, <2>4, <2>5, <2>6, UpdateStages
<1>8. CASE UpdateReadPointer(p) \/ UpdateReadRow(p)
  BY <1>1, <1>8 DEF UpdateReadPointer, UpdateReadRow, Go, TypeOK
<1>9. CASE Commit(p) \/ CommitFails(p) \/ GetPointer(p) \/ GetRow(p) \/ Return(p)
  BY <1>1, <1>9 DEF Commit, CommitFails, GetPointer, GetRow, Return, Finish, Go, TypeOK
<1>10. QED
  BY <1>1, <1>3, <1>4, <1>5, <1>6, <1>7, <1>8, <1>9 DEF Step

\* A commit leaves the keyspaces in agreement.
LEMMA CommitAgrees ==
    ASSUME AssumeNewContract, TypeOK, LocalsOK, Agree(data, index), NewKeysFixed(index),
           NEW p \in Procs, Commit(p), BatchWellFormed(p), BatchReplacesEntries(p)
    PROVE  Agree(data', index') /\ NewKeysFixed(index)'
<1> DEFINE b == batch[p]
<1>1. b \in BatchType /\ Replaces(b, req[p]) /\ req[p] \in Requests
  BY DEF TypeOK, Commit, BatchReplacesEntries, LocalsOK
<1>2. \A k \in Keys : data'[k] = Merge(data[k], b.d[k])
  BY DEF Commit
<1>3. \A k \in Keys, t \in Times : index'[k][t] = Merge(index[k][t], b.i[k][t])
  BY DEF Commit
<1>4. \A k \in Keys : \A t \in TimesAt(req[p], k) : t \in EverAt(k)
  BY <1>1 DEF EverAt
<1>5. ASSUME NEW k \in Keys, NEW t \in Times
      PROVE  /\ index'[k][t] # None <=> data'[k] = t
             /\ k \in NewKeys /\ index'[k][t] # None => t \in EverAt(k)
  <2>1. b.d[k] \in Times \cup {None, Keep} /\ b.i[k][t] \in Payloads \cup {None, Keep}
    BY <1>1 DEF BatchType
  <2>2. CASE b.d[k] = Keep
    BY <1>2, <1>3, <2>2 DEF Merge, BatchWellFormed, Agree, NewKeysFixed
  <2>3. CASE b.d[k] # Keep
    <3>1. data'[k] = b.d[k]
      BY <1>2, <2>3 DEF Merge
    <3>2. b.d[k] = t => b.i[k][t] \in Payloads
      BY DEF BatchWellFormed
    <3>3. b.d[k] \in Times /\ k \in NewKeys => b.d[k] \in EverAt(k)
      BY <1>1, <1>4 DEF Replaces
    <3>4. k \in NewKeys /\ index[k][t] # None => t \in EverAt(k)
      BY DEF NewKeysFixed
    <3>5. index[k][t] # None /\ b.i[k][t] = Keep => b.d[k] = t
      <4>1. CASE k \notin NewKeys
        BY <1>1, <2>3, <4>1 DEF Replaces
      <4>2. CASE k \in NewKeys
        <5>1. SUFFICES ASSUME index[k][t] # None, b.i[k][t] = Keep PROVE b.d[k] = t
          OBVIOUS
        <5>2. b.d[k] # None
          BY <1>1, <3>4, <4>2, <5>1, ConstantsAssumption DEF Replaces
        <5>3. QED
          BY <2>1, <2>3, <3>3, <3>4, <4>2, <5>1, <5>2, OneTimeForNewKeys
      <4>3. QED
        BY <4>1, <4>2
    <3>6. b.i[k][t] \in Payloads => b.d[k] = t
      BY <1>1 DEF Replaces
    <3>7. index'[k][t] # None <=> b.d[k] = t
      BY <1>3, <2>1, <3>2, <3>5, <3>6, ConstantsAssumption DEF Merge
    <3>8. QED
      BY <3>1, <3>3, <3>7
  <2>4. QED
    BY <2>2, <2>3
<1>6. NewKeys \subseteq Keys
  BY DEF NewKeys
<1>7. QED
  BY <1>5, <1>6 DEF Agree, NewKeysFixed

\* p's commit does not disturb what another goroutine has read or staged.
LEMMA CommitDisturbsNobody ==
    ASSUME TypeOK, LocalsOK, NEW p \in Procs, NEW q \in Procs \ {p}, Commit(p),
           BatchWellFormed(p), BatchWellFormed(q), HoldsItsLocks(p), HoldsItsLocks(q),
           PointerIsFresh(q), BatchReplacesEntries(q)
    PROVE  PointerIsFresh(q)' /\ BatchReplacesEntries(q)'
<1>1. /\ pc'[q] = pc[q] /\ req'[q] = req[q] /\ ptr'[q] = ptr[q]
      /\ batch'[q] = batch[q]
  <2>1. Step(p)
    BY DEF Step
  <2>2. QED
    BY <2>1, OthersUntouched
<1>2. pc[p] = "commit"
  BY DEF Commit
<1>3. ASSUME NEW k \in Keys \ NewKeys, k \in KeysOf(req[q]),
             pc[q] \in {"stage", "commit", "delread", "updptr", "updrow", "updfn"}
      PROVE  data'[k] = data[k] /\ \A t \in Times : index'[k][t] = index[k][t]
  <2>1. k \notin KeysOf(req[p])
    BY <1>2, <1>3, OrdinaryKeysExclusive
  <2>2. batch[p].d[k] = Keep /\ \A t \in Times : batch[p].i[k][t] = Keep
    BY <2>1 DEF BatchWellFormed
  <2>3. QED
    BY <2>2 DEF Commit, Merge
<1>4. PointerIsFresh(q)'
  <2>1. SUFFICES ASSUME pc[q] \in {"updrow", "updfn"}, req[q].key \notin NewKeys
                 PROVE  data'[req[q].key] = data[req[q].key]
    BY <1>1 DEF PointerIsFresh
  <2>2. req[q].op = "update" /\ req[q].key \in Keys
    BY <2>1, RequestFields DEF LocalsOK
  <2>3. req[q].key \in KeysOf(req[q])
    BY <2>2 DEF KeysOf
  <2>4. QED
    BY <1>3, <2>1, <2>2, <2>3
<1>5. BatchReplacesEntries(q)'
  <2>1. SUFFICES ASSUME pc[q] \in {"stage", "commit"}
                 PROVE  Replaces(batch[q], req[q])'
    BY <1>1 DEF BatchReplacesEntries
  <2>2. Replaces(batch[q], req[q])
    BY <2>1 DEF BatchReplacesEntries
  <2>3. ASSUME NEW k \in Keys \ NewKeys, batch[q].d[k] # Keep, NEW t \in Times
        PROVE  index'[k][t] = index[k][t]
    BY <1>3, <2>1, <2>3 DEF BatchWellFormed
  <2>4. QED
    BY <1>1, <2>2, <2>3 DEF Replaces
<1>6. QED
  BY <1>4, <1>5

LEMMA InitRowInv == Init => RowInv
<1> SUFFICES ASSUME Init PROVE RowInv
  OBVIOUS
<1>1. Agree(data, index) /\ Agree(durable.d, durable.i)
  BY ConstantsAssumption DEF Init, Agree
<1>2. NewKeys \subseteq Keys
  BY DEF NewKeys
<1>3. NewKeysFixed(index) /\ NewKeysFixed(durable.i)
  BY <1>2 DEF Init, NewKeysFixed
<1>4. ASSUME NEW p \in Procs
      PROVE  /\ HoldsItsLocks(p) /\ PointerIsFresh(p)
             /\ BatchWellFormed(p) /\ BatchReplacesEntries(p) /\ BatchStartsEmpty(p)
  <2>1. pc[p] = "idle" /\ batch[p] = EmptyBatch
    BY DEF Init
  <2>2. BatchWellFormed(p)
    BY <2>1, EmptyBatchWellFormed
  <2>3. QED
    BY <2>1, <2>2 DEF HoldsItsLocks, PointerIsFresh, BatchReplacesEntries, BatchStartsEmpty
<1>5. QED
  BY <1>1, <1>3, <1>4 DEF RowInv

\* A step of one goroutine, other than a commit, leaves the store alone.
LEMMA OnlyCommitWrites ==
    ASSUME NEW p \in Procs, ~Commit(p),
           (\E r \in Requests : Call(p, r)) \/ LockStripe(p) \/ Step(p)
    PROVE  UNCHANGED <<data, index, durable>>
<1>1. CASE \E r \in Requests : Call(p, r)
  BY <1>1 DEF Call
<1>2. CASE LockStripe(p)
  BY <1>2 DEF LockStripe
<1>3. CASE Step(p)
  BY <1>3 DEF Step, StageItem, CommitFails, DeleteRead, UpdateReadPointer,
     UpdateReadRow, UpdateApply, GetPointer, GetRow, Return, store
<1>4. QED
  BY <1>1, <1>2, <1>3

LEMMA ProcessKeepsRowInv ==
    ASSUME AssumeNewContract, TypeOK, LocalsOK, RowInv, NEW p \in Procs,
           (\E r \in Requests : Call(p, r)) \/ LockStripe(p) \/ Step(p)
    PROVE  RowInv'
<1>1. Agree(data, index) /\ NewKeysFixed(index)
  BY DEF RowInv
<1>2. \A q \in Procs : /\ HoldsItsLocks(q) /\ PointerIsFresh(q) /\ BatchWellFormed(q)
                       /\ BatchReplacesEntries(q) /\ BatchStartsEmpty(q)
  BY DEF RowInv
<1>3. /\ HoldsItsLocks(p)' /\ PointerIsFresh(p)' /\ BatchWellFormed(p)'
      /\ BatchReplacesEntries(p)' /\ BatchStartsEmpty(p)'
  BY <1>1, <1>2, LocksKept, FreshKept, StepKeepsWellFormed, ReplacesKept, StartsEmptyKept
<1>4. ASSUME NEW q \in Procs \ {p}
      PROVE  /\ HoldsItsLocks(q)' /\ PointerIsFresh(q)' /\ BatchWellFormed(q)'
             /\ BatchReplacesEntries(q)' /\ BatchStartsEmpty(q)'
  <2>1. /\ pc'[q] = pc[q] /\ req'[q] = req[q] /\ ptr'[q] = ptr[q]
        /\ batch'[q] = batch[q]
        /\ \A s \in Stripes : lock[s] = q => lock'[s] = q
    BY OthersUntouched
  <2>2. HoldsItsLocks(q)'
    <3>1. pc[q] # "idle" => \A k \in KeysOf(req[q]) : StripeOf[k] \in Stripes
      BY KeysOfRequest DEF LocalsOK, Stripes
    <3>2. QED
      BY <1>2, <2>1, <3>1 DEF HoldsItsLocks, AllNew, KeysOf
  <2>3. BatchWellFormed(q)' /\ BatchStartsEmpty(q)'
    BY <1>2, <2>1 DEF BatchWellFormed, BatchStartsEmpty, EmptyBatch
  <2>4. PointerIsFresh(q)' /\ BatchReplacesEntries(q)'
    <3>1. CASE Commit(p)
      BY <1>2, <3>1, CommitDisturbsNobody
    <3>2. CASE ~Commit(p)
      <4>1. UNCHANGED <<data, index>>
        BY <3>2, OnlyCommitWrites
      <4>2. PointerIsFresh(q)'
        BY <1>2, <2>1, <4>1 DEF PointerIsFresh
      <4>3. BatchReplacesEntries(q)'
        BY <1>2, <2>1, <4>1 DEF BatchReplacesEntries, Replaces
      <4>4. QED
        BY <4>2, <4>3
    <3>3. QED
      BY <3>1, <3>2
  <2>5. QED
    BY <2>2, <2>3, <2>4
<1>5. Agree(data', index') /\ NewKeysFixed(index')
  <2>1. CASE Commit(p)
    BY <1>1, <1>2, <2>1, CommitAgrees DEF NewKeysFixed
  <2>2. CASE ~Commit(p)
    BY <1>1, <2>2, OnlyCommitWrites
  <2>3. QED
    BY <2>1, <2>2
<1>6. Agree(durable'.d, durable'.i) /\ NewKeysFixed(durable'.i)
  <2>1. durable' = durable
    BY OnlyCommitWrites DEF Commit
  <2>2. QED
    BY <2>1 DEF RowInv
<1>7. QED
  BY <1>3, <1>4, <1>5, <1>6 DEF RowInv, NewKeysFixed

LEMMA SystemKeepsRowInv ==
    ASSUME TypeOK, RowInv, Flush \/ Crash \/ UNCHANGED vars
    PROVE  RowInv'
<1>1. CASE Flush
  <2>1. durable'.d = data /\ durable'.i = index /\ data' = data /\ index' = index
        /\ UNCHANGED <<lock, req, pc, ptr, batch>>
    BY <1>1 DEF Flush, local
  <2>2. QED
    BY <2>1 DEF RowInv, NewKeysFixed, HoldsItsLocks, PointerIsFresh, BatchWellFormed,
       BatchReplacesEntries, Replaces, BatchStartsEmpty
<1>2. CASE Crash
  <2>1. data' = durable.d /\ index' = durable.i /\ durable' = durable
        /\ \A p \in Procs : pc'[p] = "idle" /\ batch'[p] = EmptyBatch
    BY <1>2 DEF Crash
  <2>2. Agree(data', index') /\ Agree(durable'.d, durable'.i)
    BY <2>1 DEF RowInv
  <2>3. NewKeysFixed(index)' /\ NewKeysFixed(durable.i)'
    BY <2>1 DEF RowInv, NewKeysFixed
  <2>4. ASSUME NEW p \in Procs
        PROVE  /\ HoldsItsLocks(p)' /\ PointerIsFresh(p)' /\ BatchWellFormed(p)'
               /\ BatchReplacesEntries(p)' /\ BatchStartsEmpty(p)'
    BY <2>1, ConstantsAssumption DEF HoldsItsLocks, PointerIsFresh, BatchWellFormed,
       BatchReplacesEntries, BatchStartsEmpty, EmptyBatch
  <2>5. QED
    BY <2>2, <2>3, <2>4 DEF RowInv
<1>3. CASE UNCHANGED vars
  BY <1>3 DEF vars, RowInv, NewKeysFixed, HoldsItsLocks, PointerIsFresh, BatchWellFormed,
     BatchReplacesEntries, Replaces, BatchStartsEmpty
<1>4. QED
  BY <1>1, <1>2, <1>3

\* For callers that keep the contract of AssumeNew, the D/ and I/ keyspaces
\* agree in every state, live and after a crash: RowInv is inductive.
THEOREM RowInvHolds ==
    ASSUME AssumeNewContract
    PROVE  Spec => []RowInv
<1>1. TypeOK /\ LocalsOK /\ RowInv /\ [Next]_vars => RowInv'
  BY ProcessKeepsRowInv, SystemKeepsRowInv DEF Next
<1>2. QED
  BY InitRowInv, TypesHold, <1>1, PTL DEF Spec

\* An indexed scan shows each stored row once, under its current indexed value,
\* and the same of what a crash falls back to.
THEOREM KeyspacesAgree ==
    ASSUME AssumeNewContract
    PROVE  Spec => [](IndexMatchesData /\ DurableMatches)
<1>1. RowInv => IndexMatchesData /\ DurableMatches
  BY DEF RowInv, IndexMatchesData, DurableMatches
<1>2. Spec => []RowInv
  BY RowInvHolds
<1>3. QED
  BY <1>1, <1>2, PTL
-----------------------------------------------------------------------------
(***************************************************************************)
(* The store implements the abstract table: a call takes effect when its   *)
(* batch is committed, or when it has read what it answers.                *)
(***************************************************************************)

\* Batch b stores row r at k.
Stores(b, k, r) == r \in FullRows /\ b.d[k] = r.ts /\ b.i[k][r.ts] = r.val

\* Item i is the last of the first n that names k.
IsLast(items, n, k, i) ==
    i \in 1..n /\ items[i].key = k /\ \A j \in 1..n : items[j].key = k => j <= i

\* Batch b is what the first n items make together.
HoldsLast(b, items, n) ==
    \A k \in Keys :
        \/ b.d[k] = Keep /\ \A i \in 1..n : items[i].key # k
        \/ \E i \in 1..n : IsLast(items, n, k, i) /\ Stores(b, k, items[i].row)

\* The batch of an Update is fn's answer to the row that was read.
HoldsAnswer(b, r, o) ==
    /\ r.fn[o].commit
    /\ \/ r.fn[o].row = None /\ b.d[r.key] = None
       \/ Stores(b, r.key, r.fn[o].row)

\* What a call has staged is what it is to write.
CallInv(p) ==
    /\ pc[p] = "idle" => req[p] = None
    /\ pc[p] = "return" <=> ret[p] # Pending
    /\ pc[p] \in {"stage", "commit"} /\ req[p].op = "put" =>
          HoldsLast(batch[p], req[p].items, pos[p])
    /\ pc[p] = "commit" =>
          /\ req[p].op \in {"put", "delete", "update"}
          /\ req[p].op = "put" => pos[p] = Len(req[p].items)
          /\ req[p].op = "delete" => batch[p].d[req[p].key] = None
          /\ req[p].op = "update" => HoldsAnswer(batch[p], req[p], old[p])

\* The row that fn decides on is the one that is stored, until it is replaced.
RowIsFresh(p) ==
    pc[p] = "updfn" \/ (pc[p] = "commit" /\ req[p].op = "update") =>
        old[p] = RowAt(data, index, req[p].key)

AtomicInv == \A p \in Procs : CallInv(p) /\ RowIsFresh(p)

\* The rest of what a step of p leaves alone of another goroutine.
LEMMA LocalsUntouched ==
    ASSUME TypeOK, LocalsOK, NEW p \in Procs, NEW q \in Procs \ {p},
           (\E r \in Requests : Call(p, r)) \/ LockStripe(p) \/ Step(p)
    PROVE  pos'[q] = pos[q] /\ old'[q] = old[q] /\ ret'[q] = ret[q]
<1>1. CASE (\E r \in Requests : Call(p, r)) \/ LockStripe(p)
  BY <1>1 DEF Call, LockStripe, local
<1>2. CASE StageItem(p)
  BY <1>2 DEF StageItem, Finish, TypeOK
<1>3. CASE Commit(p) \/ CommitFails(p)
  BY <1>3 DEF Commit, CommitFails, Finish, local, TypeOK
<1>4. CASE DeleteRead(p)
  BY <1>4 DEF DeleteRead, Finish, TypeOK
<1>5. CASE UpdateReadPointer(p) \/ UpdateReadRow(p)
  BY <1>5 DEF UpdateReadPointer, UpdateReadRow, TypeOK
<1>6. CASE UpdateApply(p)
  <2>1. UNCHANGED <<pos, old>>
    BY <1>6 DEF UpdateApply
  <2>2. QED
    BY <1>6, <2>1, UpdateStages DEF Finish, TypeOK
<1>7. CASE GetPointer(p) \/ GetRow(p)
  BY <1>7 DEF GetPointer, GetRow, Finish, local, TypeOK
<1>8. CASE Return(p)
  BY <1>8 DEF Return, TypeOK
<1>9. QED
  BY <1>1, <1>2, <1>3, <1>4, <1>5, <1>6, <1>7, <1>8 DEF Step

\* An empty batch is what no items make.
LEMMA NothingStaged ==
    ASSUME NEW items
    PROVE  HoldsLast(EmptyBatch, items, 0)
BY DEF HoldsLast, EmptyBatch

\* One more item staged: it is the last one that names its key, and for other
\* keys nothing changes.
LEMMA StagedOneMore ==
    ASSUME NEW b \in BatchType, NEW items \in Seq(Items), NEW n \in Nat,
           n + 1 \in 1..Len(items), HoldsLast(b, items, n),
           items[n + 1].row \in FullRows, NEW o
    PROVE  HoldsLast(StagePut(b, items[n + 1].key, items[n + 1].row, o), items, n + 1)
<1> DEFINE item == items[n + 1]
           c == StagePut(b, item.key, item.row, o)
<1>1. item \in Items /\ item.key \in Keys /\ item.row.ts \in Times
  <2>1. item \in Items
    OBVIOUS
  <2>2. QED
    BY <2>1 DEF Items, FullRows
<1>2. /\ c.d[item.key] = item.row.ts /\ c.i[item.key][item.row.ts] = item.row.val
      /\ \A j \in Keys \ {item.key} : c.d[j] = b.d[j] /\ c.i[j] = b.i[j]
  BY <1>1, StagePutFields
<1>3. 1..n + 1 = 1..n \cup {n + 1}
  OBVIOUS
<1>4. ASSUME NEW k \in Keys
      PROVE  \/ c.d[k] = Keep /\ \A i \in 1..n + 1 : items[i].key # k
             \/ \E i \in 1..n + 1 : IsLast(items, n + 1, k, i) /\ Stores(c, k, items[i].row)
  <2>1. CASE k = item.key
    <3>1. IsLast(items, n + 1, k, n + 1)
      BY <2>1 DEF IsLast
    <3>2. Stores(c, k, items[n + 1].row)
      BY <1>2, <2>1 DEF Stores
    <3>3. QED
      BY <3>1, <3>2, <1>3
  <2>2. CASE k # item.key /\ b.d[k] = Keep /\ \A i \in 1..n : items[i].key # k
    BY <1>2, <1>3, <2>2
  <2>3. ASSUME k # item.key, NEW i \in 1..n, IsLast(items, n, k, i), Stores(b, k, items[i].row)
        PROVE  IsLast(items, n + 1, k, i) /\ Stores(c, k, items[i].row)
    BY <1>2, <1>3, <2>3 DEF IsLast, Stores
  <2>4. QED
    BY <1>3, <2>1, <2>2, <2>3 DEF HoldsLast
<1>5. QED
  BY <1>4 DEF HoldsLast

\* p's own step keeps CallInv(p).
LEMMA CallInvKept ==
    ASSUME TypeOK, LocalsOK, NEW p \in Procs, CallInv(p), BatchStartsEmpty(p),
           (\E r \in Requests : Call(p, r)) \/ LockStripe(p) \/ Step(p)
    PROVE  CallInv(p)'
<1>1. CASE \E r \in Requests : Call(p, r)
  <2>1. PICK r \in Requests : Call(p, r)
    BY <1>1
  <2>2. /\ pc[p] = "idle" /\ batch[p] = EmptyBatch /\ pos[p] = 0 /\ ret[p] = Pending
        /\ req'[p] = r /\ batch' = batch /\ pos' = pos /\ ret' = ret
        /\ pc'[p] \in {"lock", "stage", "delread", "updptr", "getptr"}
    BY <2>1 DEF Call, Go, FirstStep, local, TypeOK, LocalsOK, CallInv, BatchStartsEmpty
  <2>3. HoldsLast(batch'[p], req'[p].items, pos'[p])
    BY <2>2, NothingStaged
  <2>4. QED
    BY <2>2, <2>3 DEF CallInv
<1>2. CASE LockStripe(p)
  <2>1. /\ pc[p] = "lock" /\ batch[p] = EmptyBatch /\ pos[p] = 0 /\ ret[p] = Pending
        /\ req' = req /\ batch' = batch /\ pos' = pos /\ ret' = ret
        /\ pc'[p] \in {"lock", "stage", "delread", "updptr", "getptr"}
    BY <1>2 DEF LockStripe, Go, FirstStep, local, TypeOK, LocalsOK, CallInv, BatchStartsEmpty
  <2>2. HoldsLast(batch'[p], req'[p].items, pos'[p])
    BY <2>1, NothingStaged
  <2>3. QED
    BY <2>1, <2>2 DEF CallInv
<1>3. CASE StageItem(p)
  <2> DEFINE item == req[p].items[pos[p] + 1]
             o    == IF item.new THEN None ELSE data[item.key]
  <2>1. /\ pc[p] = "stage" /\ req[p].op = "put" /\ req[p].items \in Seq(Items)
        /\ pos[p] \in Nat /\ pos[p] + 1 \in 1..Len(req[p].items) /\ item \in Items
        /\ req' = req /\ batch[p] \in BatchType
    BY <1>3, NextItem DEF StageItem, TypeOK
  <2>2. CASE item.row.ts = NoTime
    BY <1>3, <2>1, <2>2, OutcomesAssumption DEF StageItem, Finish, Go, TypeOK, CallInv
  <2>3. CASE item.row.ts # NoTime
    <3>1. item.row \in FullRows
      BY <2>1, <2>3 DEF Items, Rows, FullRows
    <3>2. /\ batch'[p] = StagePut(batch[p], item.key, item.row, o) /\ pos'[p] = pos[p] + 1
          /\ ret' = ret
          /\ pc'[p] = IF pos[p] + 1 = Len(req[p].items) THEN "commit" ELSE "stage"
      BY <1>3, <2>3 DEF StageItem, Go, TypeOK
    <3>3. HoldsLast(batch'[p], req[p].items, pos[p] + 1)
      BY <2>1, <3>1, <3>2, StagedOneMore DEF CallInv
    <3>4. req'[p] = req[p] /\ ret'[p] = Pending /\ pc'[p] \in {"stage", "commit"}
      BY <2>1, <3>2 DEF CallInv
    <3>5. pc'[p] = "commit" => pos'[p] = Len(req[p].items)
      BY <3>2
    <3>6. HoldsLast(batch[p], req[p].items, pos[p])'
      BY <3>2, <3>3, <3>4
    <3>7. QED
      BY <2>1, <3>4, <3>5, <3>6 DEF CallInv
  <2>4. QED
    BY <2>2, <2>3
<1>4. CASE Commit(p) \/ CommitFails(p)
  BY <1>4, OutcomesAssumption DEF Commit, CommitFails, Finish, Go, TypeOK, CallInv
<1>5. CASE DeleteRead(p)
  <2>1. /\ pc[p] = "delread" /\ req[p].op = "delete" /\ req[p].key \in Keys /\ req' = req
        /\ batch[p] \in BatchType
    BY <1>5, RequestFields DEF DeleteRead, LocalsOK, TypeOK
  <2>2. CASE data[req[p].key] = None
    BY <1>5, <2>1, <2>2, OutcomesAssumption DEF DeleteRead, Finish, Go, TypeOK, CallInv
  <2>3. CASE data[req[p].key] # None
    <3>1. /\ batch'[p] = StageDelete(batch[p], req[p].key, data[req[p].key])
          /\ pc'[p] = "commit" /\ ret' = ret
      BY <1>5, <2>3 DEF DeleteRead, Go, TypeOK
    <3>2. batch'[p].d[req[p].key] = None
      BY <2>1, <3>1, StageDeleteFields
    <3>3. QED
      BY <2>1, <3>1, <3>2 DEF CallInv
  <2>4. QED
    BY <2>2, <2>3
<1>6. CASE UpdateReadPointer(p) \/ UpdateReadRow(p)
  BY <1>6 DEF UpdateReadPointer, UpdateReadRow, Go, TypeOK, CallInv
<1>7. CASE UpdateApply(p)
  <2> DEFINE k == req[p].key
             next == req[p].fn[old[p]]
  <2>1. /\ pc[p] = "updfn" /\ req[p].op = "update" /\ k \in Keys
        /\ req' = req /\ old' = old /\ batch[p] \in BatchType
    <3>1. req' = req /\ old' = old /\ batch[p] \in BatchType
      BY <1>7 DEF UpdateApply, TypeOK
    <3>2. QED
      BY <1>7, <3>1, UpdateStages
  <2>2. CASE \E out \in {Ok, Err} : Finish(p, out) /\ batch' = batch
    BY <2>1, <2>2, OutcomesAssumption DEF Finish, Go, TypeOK, CallInv
  <2>3. CASE /\ next.commit /\ next.row = None /\ old[p] # None
             /\ batch' = [batch EXCEPT ![p] = StageDelete(batch[p], k, ptr[p])]
             /\ Go(p, "commit") /\ ret' = ret
    <3>1. batch'[p].d[k] = None /\ pc'[p] = "commit"
      BY <2>1, <2>3, StageDeleteFields DEF Go, TypeOK
    <3>2. HoldsAnswer(batch'[p], req'[p], old'[p])
      BY <2>1, <2>3, <3>1 DEF HoldsAnswer
    <3>3. QED
      BY <2>1, <2>3, <3>1, <3>2 DEF CallInv
  <2>4. CASE /\ next.commit /\ next.row \in FullRows
             /\ batch' = [batch EXCEPT ![p] = StagePut(batch[p], k, next.row, ptr[p])]
             /\ Go(p, "commit") /\ ret' = ret
    <3>1. PICK w \in FullRows : w = next.row
      BY <2>4
    <3>2. batch'[p] = StagePut(batch[p], k, w, ptr[p]) /\ pc'[p] = "commit"
      BY <2>4, <3>1 DEF Go, TypeOK
    <3> HIDE DEF k
    <3>3. Stores(batch'[p], k, next.row)
      <4>1. w.ts \in Times
        BY DEF FullRows
      <4>2. batch'[p].d[k] = w.ts /\ batch'[p].i[k][w.ts] = w.val
        BY <2>1, <3>2, <4>1, StagePutFields
      <4>3. QED
        BY <3>1, <4>2 DEF Stores
    <3> USE DEF k
    <3>4. HoldsAnswer(batch'[p], req'[p], old'[p])
      BY <2>1, <2>4, <3>3 DEF HoldsAnswer
    <3>5. QED
      BY <2>1, <2>4, <3>2, <3>4 DEF CallInv
  <2>5. QED
    BY <1>7, <2>2, <2>3, <2>4, UpdateStages
<1>8. CASE GetPointer(p) \/ GetRow(p)
  <2>1. CASE GetPointer(p)
    BY <2>1, OutcomesAssumption DEF GetPointer, Finish, Go, TypeOK, CallInv
  <2>2. CASE GetRow(p)
    <3>1. req[p].key \in Keys /\ ptr[p] \in Times
      BY <2>2, RequestFields DEF GetRow, LocalsOK
    <3>2. PICK out \in FullRows \cup {None} : Finish(p, out)
      BY <2>2, <3>1 DEF GetRow, TypeOK, StoreType, FullRows
    <3>3. QED
      BY <2>2, <3>2, OutcomesAssumption DEF GetRow, Finish, Go, FullRows, TypeOK, CallInv
  <2>3. QED
    BY <1>8, <2>1, <2>2
<1>9. CASE Return(p)
  BY <1>9 DEF Return, Go, TypeOK, CallInv
<1>10. QED
  BY <1>1, <1>2, <1>3, <1>4, <1>5, <1>6, <1>7, <1>8, <1>9 DEF Step

\* What a commit leaves at a key: what was there, nothing, or the staged row.
LEMMA CommitWrites ==
    ASSUME TypeOK, NEW p \in Procs, Commit(p), BatchWellFormed(p), NEW k \in Keys
    PROVE  /\ batch[p].d[k] = Keep => RowAt(data', index', k) = RowAt(data, index, k)
           /\ batch[p].d[k] = None => RowAt(data', index', k) = None
           /\ \A r : Stores(batch[p], k, r) => RowAt(data', index', k) = r
<1>1. /\ data'[k] = Merge(data[k], batch[p].d[k])
      /\ \A t \in Times : index'[k][t] = Merge(index[k][t], batch[p].i[k][t])
  BY DEF Commit
<1>2. data[k] \in Times \cup {None}
  BY DEF TypeOK, StoreType
<1>3. CASE batch[p].d[k] = Keep
  <2>1. data'[k] = data[k] /\ \A t \in Times : index'[k][t] = index[k][t]
    BY <1>1, <1>3 DEF Merge, BatchWellFormed
  <2>2. ASSUME NEW r, Stores(batch[p], k, r) PROVE FALSE
    BY <1>3, <2>2, ConstantsAssumption DEF Stores, FullRows
  <2>3. QED
    BY <1>2, <1>3, <2>1, <2>2, ConstantsAssumption DEF RowAt
<1>4. CASE batch[p].d[k] = None
  <2>1. ASSUME NEW r, Stores(batch[p], k, r) PROVE FALSE
    BY <1>4, <2>1, ConstantsAssumption DEF Stores, FullRows
  <2>2. QED
    BY <1>1, <1>4, <2>1, ConstantsAssumption DEF Merge, RowAt
<1>5. ASSUME NEW r, Stores(batch[p], k, r)
      PROVE  RowAt(data', index', k) = r
  <2>1. r \in FullRows /\ r.ts \in Times /\ r.val \in Payloads /\ r = [ts |-> r.ts, val |-> r.val]
    BY <1>5 DEF Stores, FullRows
  <2>2. data'[k] = r.ts /\ index'[k][r.ts] = r.val /\ r.ts # None /\ r.val # None
    BY <1>1, <1>5, <2>1, ConstantsAssumption DEF Stores, Merge
  <2>3. QED
    BY <2>1, <2>2 DEF RowAt
<1>6. CASE batch[p].d[k] \in Times
  BY <1>5, <1>6, ConstantsAssumption
<1>7. batch[p].d[k] \in Times \cup {None, Keep}
  BY DEF TypeOK, BatchType
<1>8. QED
  BY <1>3, <1>4, <1>5, <1>6, <1>7

\* A commit does not change the row another goroutine works on under its lock.
LEMMA CommitSparesRow ==
    ASSUME TypeOK, LocalsOK, NEW p \in Procs, NEW q \in Procs \ {p}, Commit(p),
           BatchWellFormed(p), HoldsItsLocks(p), HoldsItsLocks(q),
           pc[q] \in {"stage", "commit", "delread", "updptr", "updrow", "updfn"},
           NEW k \in Keys \ NewKeys, k \in KeysOf(req[q])
    PROVE  RowAt(data', index', k) = RowAt(data, index, k)
<1>1. k \notin KeysOf(req[p])
  BY OrdinaryKeysExclusive DEF Commit
<1>2. QED
  BY <1>1, CommitWrites DEF BatchWellFormed

\* p's own step keeps RowIsFresh(p): under the lock nothing changes between
\* Update's two reads.
LEMMA RowIsFreshKept ==
    ASSUME NewKeysNotUpdated, TypeOK, LocalsOK, NEW p \in Procs, RowIsFresh(p), PointerIsFresh(p),
           (\E r \in Requests : Call(p, r)) \/ LockStripe(p) \/ Step(p)
    PROVE  RowIsFresh(p)'
<1>1. CASE \E r \in Requests : Call(p, r)
  <2>1. pc'[p] \notin {"updfn", "commit"}
    BY <1>1 DEF Call, Go, FirstStep, TypeOK
  <2>2. QED
    BY <2>1 DEF RowIsFresh
<1>2. CASE LockStripe(p)
  <2>1. pc'[p] \notin {"updfn", "commit"}
    BY <1>2 DEF LockStripe, Go, FirstStep, TypeOK
  <2>2. QED
    BY <2>1 DEF RowIsFresh
<1>3. CASE StageItem(p)
  <2>1. req' = req /\ req[p].op = "put" /\ pc'[p] # "updfn"
    BY <1>3 DEF StageItem, Finish, Go, LocalsOK, TypeOK
  <2>2. QED
    BY <2>1 DEF RowIsFresh
<1>4. CASE Commit(p) \/ CommitFails(p) \/ GetPointer(p) \/ GetRow(p) \/ Return(p)
  <2>1. pc'[p] \notin {"updfn", "commit"}
    BY <1>4 DEF Commit, CommitFails, GetPointer, GetRow, Return, Finish, Go, TypeOK
  <2>2. QED
    BY <2>1 DEF RowIsFresh
<1>5. CASE DeleteRead(p)
  <2>1. req' = req /\ req[p].op = "delete" /\ pc'[p] # "updfn"
    BY <1>5 DEF DeleteRead, Finish, Go, LocalsOK, TypeOK
  <2>2. QED
    BY <2>1 DEF RowIsFresh
<1>6. CASE UpdateReadPointer(p)
  <2>1. /\ pc[p] = "updptr" /\ req' = req /\ old'[p] = None /\ UNCHANGED <<data, index>>
        /\ pc'[p] = IF data[req[p].key] = None THEN "updfn" ELSE "updrow"
    BY <1>6 DEF UpdateReadPointer, Go, store, LocalsOK, TypeOK
  <2>2. QED
    BY <2>1 DEF RowIsFresh, RowAt
<1>7. CASE UpdateReadRow(p)
  <2> DEFINE k == req[p].key
             v == index[k][ptr[p]]
  <2>1. /\ pc[p] = "updrow" /\ req[p].op = "update" /\ req[p] \in Requests /\ ptr[p] \in Times
        /\ req' = req /\ UNCHANGED <<data, index>>
        /\ old'[p] = IF v = None THEN None ELSE [ts |-> ptr[p], val |-> v]
    BY <1>7 DEF UpdateReadRow, store, LocalsOK, TypeOK
  <2>2. data[k] = ptr[p] /\ ptr[p] # None
    BY <2>1, ConstantsAssumption DEF NewKeysNotUpdated, PointerIsFresh
  <2>3. old'[p] = RowAt(data, index, k)
    BY <2>1, <2>2 DEF RowAt
  <2>4. QED
    BY <2>1, <2>3 DEF RowIsFresh
<1>8. CASE UpdateApply(p)
  <2>1. pc[p] = "updfn" /\ req' = req /\ old' = old /\ UNCHANGED <<data, index>>
    BY <1>8 DEF UpdateApply, store
  <2>2. QED
    BY <2>1 DEF RowIsFresh
<1>9. QED
  BY <1>1, <1>2, <1>3, <1>4, <1>5, <1>6, <1>7, <1>8 DEF Step

LEMMA InitAtomicInv == Init => AtomicInv
BY ConstantsAssumption DEF Init, AtomicInv, CallInv, RowIsFresh

LEMMA ProcessKeepsAtomicInv ==
    ASSUME NewKeysNotUpdated, TypeOK, LocalsOK, RowInv, AtomicInv, NEW p \in Procs,
           (\E r \in Requests : Call(p, r)) \/ LockStripe(p) \/ Step(p)
    PROVE  AtomicInv'
<1>1. \A q \in Procs : /\ HoldsItsLocks(q) /\ PointerIsFresh(q) /\ BatchWellFormed(q)
                       /\ BatchStartsEmpty(q) /\ CallInv(q) /\ RowIsFresh(q)
  BY DEF RowInv, AtomicInv
<1>2. CallInv(p)' /\ RowIsFresh(p)'
  BY <1>1, CallInvKept, RowIsFreshKept
<1>3. ASSUME NEW q \in Procs \ {p}
      PROVE  CallInv(q)' /\ RowIsFresh(q)'
  <2>1. /\ pc'[q] = pc[q] /\ req'[q] = req[q] /\ batch'[q] = batch[q]
        /\ pos'[q] = pos[q] /\ old'[q] = old[q] /\ ret'[q] = ret[q]
    BY OthersUntouched, LocalsUntouched
  <2>2. CallInv(q)'
    BY <1>1, <2>1 DEF CallInv
  <2>3. RowIsFresh(q)'
    <3>1. SUFFICES ASSUME pc[q] = "updfn" \/ (pc[q] = "commit" /\ req[q].op = "update")
                   PROVE  RowAt(data', index', req[q].key) = RowAt(data, index, req[q].key)
      BY <1>1, <2>1 DEF RowIsFresh
    <3>2. /\ req[q] \in Requests /\ req[q].op = "update" /\ req[q].key \in KeysOf(req[q])
          /\ req[q].key \in Keys \ NewKeys
      BY <3>1, RequestFields DEF LocalsOK, KeysOf, NewKeysNotUpdated
    <3>3. CASE Commit(p)
      BY <1>1, <3>1, <3>2, <3>3, CommitSparesRow
    <3>4. CASE ~Commit(p)
      BY <3>4, OnlyCommitWrites
    <3>5. QED
      BY <3>3, <3>4
  <2>4. QED
    BY <2>2, <2>3
<1>4. QED
  BY <1>2, <1>3 DEF AtomicInv

LEMMA SystemKeepsAtomicInv ==
    ASSUME AtomicInv, Flush \/ Crash \/ UNCHANGED vars
    PROVE  AtomicInv'
<1>1. CASE Flush \/ UNCHANGED vars
  BY <1>1 DEF Flush, vars, local, AtomicInv, CallInv, RowIsFresh
<1>2. CASE Crash
  BY <1>2 DEF Crash, AtomicInv, CallInv, RowIsFresh
<1>3. QED
  BY <1>1, <1>2

LEMMA AtomicInvHolds ==
    ASSUME AssumeNewContract, NewKeysNotUpdated
    PROVE  Spec => [](TypeOK /\ LocalsOK /\ RowInv /\ AtomicInv)
<1>1. TypeOK /\ LocalsOK /\ RowInv /\ AtomicInv /\ [Next]_vars => AtomicInv'
  BY ProcessKeepsAtomicInv, SystemKeepsAtomicInv DEF Next
<1>2. Spec => []RowInv
  BY RowInvHolds
<1>3. QED
  BY InitAtomicInv, TypesHold, <1>1, <1>2, PTL DEF Spec

\* Only GetPointer and GetRow begin and end a look-up.
LEMMA FiledByOthers ==
    ASSUME TypeOK, LocalsOK, NEW p \in Procs,
           (\E r \in Requests : Call(p, r)) \/ LockStripe(p) \/ Step(p)
    PROVE  \A q \in Procs \ {p} : Filed'[q] = Filed[q]
BY OthersUntouched DEF Filed

LEMMA FiledKept ==
    ASSUME TypeOK, LocalsOK, NEW p \in Procs,
           (\E r \in Requests : Call(p, r)) \/ LockStripe(p) \/ Step(p),
           ~GetPointer(p), ~GetRow(p)
    PROVE  Filed' = Filed
<1>1. SUFFICES pc[p] # "getrow" /\ pc'[p] # "getrow"
  BY FiledByOthers DEF Filed
<1>2. CASE (\E r \in Requests : Call(p, r)) \/ LockStripe(p)
  BY <1>2 DEF Call, LockStripe, Go, FirstStep, TypeOK
<1>3. CASE StageItem(p)
  BY <1>3 DEF StageItem, Finish, Go, TypeOK
<1>4. CASE Commit(p) \/ CommitFails(p)
  BY <1>4 DEF Commit, CommitFails, Finish, Go, TypeOK
<1>5. CASE DeleteRead(p)
  BY <1>5 DEF DeleteRead, Finish, Go, TypeOK
<1>6. CASE UpdateReadPointer(p) \/ UpdateReadRow(p)
  BY <1>6 DEF UpdateReadPointer, UpdateReadRow, Go, TypeOK
<1>7. CASE UpdateApply(p)
  BY <1>7, UpdateStages DEF Finish, Go, TypeOK
<1>8. CASE Return(p)
  BY <1>8 DEF Return, Go, TypeOK
<1>9. QED
  BY <1>2, <1>3, <1>4, <1>5, <1>6, <1>7, <1>8 DEF Step

\* The abstract durable table.
DurableTable == [k \in Keys |-> RowAt(durable.d, durable.i, k)]

LEMMA InitMaps == Init => Abstract!Init
<1> SUFFICES ASSUME Init PROVE Abstract!Init
  OBVIOUS
<1>1. \A k \in Keys : RowAt(data, index, k) = None /\ RowAt(durable.d, durable.i, k) = None
  BY DEF Init, RowAt
<1>2. Table = [k \in Keys |-> None] /\ DurableTable = Table
  BY <1>1 DEF Table, DurableTable
<1>3. Filed = [p \in Procs |-> None]
  BY DEF Init, Filed
<1>4. QED
  BY <1>2, <1>3 DEF Init, Abstract!Init, DurableTable

\* A step that leaves the store, the requests, the outcomes and the look-ups
\* alone is none of the table's.
LEMMA Stutters ==
    ASSUME UNCHANGED <<data, index, durable, req, ret>>, Filed' = Filed
    PROVE  UNCHANGED Abstract!vars
<1>1. Table' = Table /\ DurableTable' = DurableTable
  BY DEF Table, DurableTable, RowAt
<1>2. QED
  BY <1>1 DEF Abstract!vars, DurableTable

\* Which item of a batch the table keeps.
LEMMA LastOfAll ==
    ASSUME NEW items \in Seq(Items), NEW k \in Keys, NEW i, IsLast(items, Len(items), k, i)
    PROVE  Abstract!LastItem(items, k) = i
<1> DEFINE P(j) == /\ items[j].key = k
                   /\ \A h \in DOMAIN items : items[h].key = k => h <= j
<1>1. DOMAIN items = 1..Len(items) /\ i \in DOMAIN items /\ P(i)
  BY DEF IsLast
<1>2. \A j \in DOMAIN items : P(j) => j = i
  BY <1>1
<1>3. Abstract!LastItem(items, k) = CHOOSE j \in DOMAIN items : P(j)
  BY DEF Abstract!LastItem
<1>4. QED
  BY <1>1, <1>2, <1>3

\* The commit of a batch is the call's effect, whole.
LEMMA CommitMaps ==
    ASSUME TypeOK, LocalsOK, RowInv, AtomicInv, NEW p \in Procs, Commit(p)
    PROVE  Abstract!Apply(p)
<1> DEFINE b == batch[p]
           r == req[p]
<1>1. /\ pc[p] = "commit" /\ r \in Requests /\ r # None /\ ret[p] = Pending
      /\ req' = req /\ durable' = durable /\ ret' = [ret EXCEPT ![p] = Ok]
  BY ConstantsAssumption DEF Commit, Finish, LocalsOK, AtomicInv, CallInv
<1>2. DurableTable' = DurableTable /\ Abstract!Pend(p) /\ Filed' = Filed
  <2>1. DurableTable' = DurableTable /\ Abstract!Pend(p)
    BY <1>1 DEF DurableTable, Abstract!Pend
  <2>2. ~GetPointer(p) /\ ~GetRow(p) /\ Step(p)
    BY <1>1 DEF GetPointer, GetRow, Step
  <2>3. QED
    BY <2>1, <2>2, FiledKept
<1>3. BatchWellFormed(p) /\ CallInv(p) /\ RowIsFresh(p)
  BY DEF RowInv, AtomicInv
<1>4. \A k \in Keys : /\ Table[k] = RowAt(data, index, k) /\ Table'[k] = RowAt(data', index', k)
  BY DEF Table
<1>5. ASSUME NEW k \in Keys
      PROVE  /\ b.d[k] = Keep => Table'[k] = Table[k]
             /\ b.d[k] = None => Table'[k] = None
             /\ \A w : Stores(b, k, w) => Table'[k] = w
  BY <1>3, <1>4, CommitWrites
<1>6. \A k \in Keys : k \notin KeysOf(r) => Table'[k] = Table[k]
  BY <1>3, <1>5 DEF BatchWellFormed
<1>7. CASE r.op = "put"
  <2>1. r.items \in Seq(Items) /\ pos[p] = Len(r.items) /\ HoldsLast(b, r.items, Len(r.items))
    BY <1>1, <1>3, <1>7, RequestFields DEF CallInv
  <2>2. ASSUME NEW k \in Keys
        PROVE  Table'[k] = IF \E i \in DOMAIN r.items : r.items[i].key = k
                           THEN r.items[Abstract!LastItem(r.items, k)].row ELSE Table[k]
    <3>1. CASE b.d[k] = Keep /\ \A i \in 1..Len(r.items) : r.items[i].key # k
      BY <1>5, <2>1, <3>1
    <3>2. ASSUME NEW i, IsLast(r.items, Len(r.items), k, i), Stores(b, k, r.items[i].row)
          PROVE  /\ i \in DOMAIN r.items /\ r.items[i].key = k
                 /\ Table'[k] = r.items[Abstract!LastItem(r.items, k)].row
      <4>1. Abstract!LastItem(r.items, k) = i
        BY <2>1, <3>2, LastOfAll
      <4>2. QED
        BY <1>5, <2>1, <3>2, <4>1 DEF IsLast
    <3>3. QED
      BY <2>1, <3>1, <3>2 DEF HoldsLast
  <2>3. Table' = Abstract!AfterPut(r.items)
    BY <2>2 DEF Table, Abstract!AfterPut
  <2>4. QED
    BY <1>1, <1>2, <1>7, <2>3 DEF Abstract!Apply, Abstract!ApplyPut, DurableTable
<1>8. CASE r.op = "delete"
  <2>1. r.key \in Keys /\ KeysOf(r) = {r.key} /\ b.d[r.key] = None
    BY <1>1, <1>3, <1>8, RequestFields DEF KeysOf, CallInv
  <2>2. Table' = [Table EXCEPT ![r.key] = None]
    BY <1>5, <1>6, <2>1 DEF Table
  <2>3. QED
    BY <1>1, <1>2, <1>8, <2>2 DEF Abstract!Apply, Abstract!ApplyDelete, DurableTable
<1>9. CASE r.op = "update"
  <2>1. /\ r.key \in Keys /\ KeysOf(r) = {r.key} /\ old[p] = Table[r.key]
        /\ HoldsAnswer(b, r, old[p])
    BY <1>1, <1>3, <1>4, <1>9, RequestFields DEF KeysOf, CallInv, RowIsFresh
  <2>2. Table'[r.key] = r.fn[old[p]].row /\ r.fn[old[p]].commit
    BY <1>5, <2>1 DEF HoldsAnswer
  <2>3. Table' = [Table EXCEPT ![r.key] = r.fn[old[p]].row]
    BY <1>6, <2>1, <2>2 DEF Table
  <2>4. Table' = Abstract!AfterUpdate(r)
    BY <2>1, <2>2, <2>3 DEF Abstract!AfterUpdate
  <2>5. QED
    BY <1>1, <1>2, <1>9, <2>4 DEF Abstract!Apply, Abstract!ApplyUpdate, DurableTable
<1>10. QED
  BY <1>1, <1>3, <1>7, <1>8, <1>9 DEF CallInv

\* A call that has failed, at a row without the indexed column, an answer that
\* fn may not give or a commit, has changed nothing.
LEMMA ErrorMaps ==
    ASSUME LocalsOK, AtomicInv, NEW p \in Procs, Finish(p, Err),
           UNCHANGED <<data, index, durable, req>>, Filed' = Filed,
           pc[p] \in {"stage", "updfn", "commit"}
    PROVE  Abstract!Fail(p)
<1>1. Table' = Table /\ DurableTable' = DurableTable
  BY DEF Table, DurableTable, RowAt
<1>2. req[p] # None /\ ret[p] = Pending /\ req[p].op # "get"
  BY ConstantsAssumption DEF LocalsOK, AtomicInv, CallInv
<1>3. QED
  BY <1>1, <1>2 DEF Finish, Abstract!Fail, Abstract!Pend, DurableTable

LEMMA StoredPayload ==
    ASSUME TypeOK, NEW k \in Keys, NEW t \in Times, index[k][t] # None
    PROVE  index[k][t] \in Payloads
BY DEF TypeOK, StoreType

\* A Get that finds no pointer answers that the row is absent, and it is; one
\* that finds a pointer has located the row.
LEMMA GetPointerMaps ==
    ASSUME TypeOK, LocalsOK, RowInv, AtomicInv, NEW p \in Procs, GetPointer(p)
    PROVE  Abstract!Locate(p) \/ Abstract!Apply(p)
<1> DEFINE k == req[p].key
<1>1. /\ pc[p] = "getptr" /\ UNCHANGED <<data, index, durable, req>>
      /\ ptr' = [ptr EXCEPT ![p] = data[k]]
  BY DEF GetPointer, store
<1>2. /\ req[p] \in Requests /\ req[p] # None /\ ret[p] = Pending /\ req[p].op = "get"
      /\ k \in Keys /\ Filed[p] = None
  BY <1>1, ConstantsAssumption, RequestFields DEF LocalsOK, AtomicInv, CallInv, Filed
<1>3. Table' = Table /\ DurableTable' = DurableTable
  BY <1>1 DEF Table, DurableTable, RowAt
<1>4. CASE data[k] = None
  <2>1. Finish(p, None)
    BY <1>4 DEF GetPointer
  <2>2. Table[k] = None /\ pc'[p] = "return"
    BY <1>2, <1>4, <2>1 DEF Table, RowAt, Finish, Go, TypeOK
  <2>3. Filed' = [Filed EXCEPT ![p] = None]
    BY <1>2, <2>2, FiledByOthers DEF Filed, Step
  <2>4. QED
    BY <1>1, <1>2, <1>3, <2>1, <2>2, <2>3
    DEF Finish, Abstract!Apply, Abstract!ApplyGet, Abstract!Moved, Abstract!Pend, DurableTable
<1>5. CASE data[k] # None
  <2>1. ret' = ret /\ pc'[p] = "getrow" /\ ptr'[p] = data[k]
    BY <1>1, <1>5 DEF GetPointer, Go, TypeOK
  <2>2. data[k] \in Times /\ index[k][data[k]] # None
    BY <1>2, <1>5 DEF TypeOK, StoreType, RowInv, Agree
  <2>3. Table[k] = [ts |-> data[k], val |-> index[k][data[k]]] /\ Table[k] # None
    <3>1. index[k][data[k]] \in Payloads
      BY <1>2, <2>2, StoredPayload
    <3>2. QED
      BY <1>2, <1>5, <2>2, <3>1, ConstantsAssumption DEF Table, RowAt
  <2>4. Filed' = [Filed EXCEPT ![p] = Table[k].ts]
    <3>1. Table[k].ts = data[k]
      BY <2>3
    <3>2. Filed'[p] = data[k] /\ \A q \in Procs \ {p} : Filed'[q] = Filed[q]
      BY <2>1, FiledByOthers DEF Filed, Step
    <3>3. Filed' = [Filed EXCEPT ![p] = data[k]]
      BY <3>2 DEF Filed
    <3>4. QED
      BY <3>1, <3>3
  <2>5. QED
    BY <1>1, <1>2, <1>3, <2>1, <2>3, <2>4 DEF Abstract!Locate, Abstract!Pend, DurableTable
<1>6. QED
  BY <1>4, <1>5

\* Following the pointer finds the row that is stored, unless the row was moved
\* to another indexed value since the pointer was read.
LEMMA GetRowMaps ==
    ASSUME TypeOK, LocalsOK, RowInv, AtomicInv, NEW p \in Procs, GetRow(p)
    PROVE  Abstract!Apply(p)
<1> DEFINE k == req[p].key
           v == index[k][ptr[p]]
           out == IF v = None THEN None ELSE [ts |-> ptr[p], val |-> v]
<1>1. /\ UNCHANGED <<data, index, durable, req>> /\ pc[p] = "getrow" /\ Finish(p, out)
      /\ k \in Keys /\ ptr[p] \in Times
  BY RequestFields DEF GetRow, store, LocalsOK
<1>2. /\ req[p] # None /\ ret[p] = Pending /\ req[p].op = "get"
      /\ Filed[p] = ptr[p] /\ ptr[p] # None
  BY <1>1, ConstantsAssumption DEF LocalsOK, AtomicInv, CallInv, Filed
<1>3. Table' = Table /\ DurableTable' = DurableTable
  BY <1>1 DEF Table, DurableTable, RowAt
<1>4. Filed' = [Filed EXCEPT ![p] = None]
  <2>1. pc'[p] = "return"
    BY <1>1 DEF Finish, Go, TypeOK
  <2>2. QED
    BY <2>1, FiledByOthers DEF Filed, Step
<1>5. out = IF Abstract!Moved(p) THEN None ELSE Table[k]
  <2>1. Table[k] = RowAt(data, index, k)
    BY <1>1 DEF Table
  <2>2. v # None <=> data[k] = ptr[p]
    BY <1>1 DEF RowInv, Agree
  <2>3. CASE data[k] = ptr[p]
    <3>1. v # None /\ Table[k] = out /\ out.ts = ptr[p]
      BY <1>2, <2>1, <2>2, <2>3 DEF RowAt
    <3>2. QED
      BY <1>2, <3>1 DEF Abstract!Moved
  <2>4. CASE data[k] = None
    <3>1. Table[k] = None /\ out = None
      BY <1>2, <2>1, <2>2, <2>4 DEF RowAt
    <3>2. QED
      BY <3>1 DEF Abstract!Moved
  <2>5. CASE data[k] # None /\ data[k] # ptr[p]
    <3>1. data[k] \in Times /\ index[k][data[k]] # None
      BY <1>1, <2>5 DEF TypeOK, StoreType, RowInv, Agree
    <3>2. index[k][data[k]] \in Payloads
      BY <1>1, <3>1, StoredPayload
    <3>3. Table[k] # None /\ Table[k].ts = data[k] /\ out = None
      BY <2>1, <2>2, <2>5, <3>1, <3>2, ConstantsAssumption DEF RowAt
    <3>4. QED
      BY <1>2, <2>5, <3>3 DEF Abstract!Moved
  <2>6. QED
    BY <2>3, <2>4, <2>5
<1>6. QED
  BY <1>1, <1>2, <1>3, <1>4, <1>5
  DEF Finish, Abstract!Apply, Abstract!ApplyGet, Abstract!Pend, DurableTable

LEMMA UpdateSkips ==
    ASSUME TypeOK, LocalsOK, AtomicInv, NEW p \in Procs, UpdateApply(p)
    PROVE  [Abstract!Apply(p) \/ Abstract!Fail(p)]_(Abstract!vars)
<1> DEFINE k    == req[p].key
           next == req[p].fn[old[p]]
           skip == ~next.commit \/ (next.row = None /\ old[p] = None)
<1>1. /\ pc[p] = "updfn" /\ req[p].op = "update" /\ k \in Keys /\ req[p] \in Requests
      /\ req[p] # None /\ ret[p] = Pending /\ old[p] = RowAt(data, index, k)
  BY UpdateStages, ConstantsAssumption DEF AtomicInv, CallInv, RowIsFresh
<1>2. UNCHANGED <<data, index, durable, req>>
  BY DEF UpdateApply, store
<1>3. Table' = Table /\ DurableTable' = DurableTable /\ Table[k] = old[p] /\ Filed' = Filed
  <2>1. Table' = Table /\ DurableTable' = DurableTable /\ Table[k] = old[p]
    BY <1>1, <1>2 DEF Table, DurableTable, RowAt
  <2>2. ~GetPointer(p) /\ ~GetRow(p) /\ Step(p)
    BY <1>1 DEF GetPointer, GetRow, Step
  <2>3. QED
    BY <2>1, <2>2, FiledKept
<1>4. CASE skip /\ Finish(p, Ok)
  <2>1. Abstract!AfterUpdate(req[p]) = Table
    <3>1. CASE ~next.commit
      BY <1>3, <3>1 DEF Abstract!AfterUpdate
    <3>2. CASE next.commit
      <4>1. Abstract!AfterUpdate(req[p]) = [Table EXCEPT ![k] = Table[k]]
        BY <1>3, <1>4, <3>2 DEF Abstract!AfterUpdate
      <4>2. QED
        BY <4>1 DEF Table
    <3>3. QED
      BY <3>1, <3>2
  <2>2. QED
    BY <1>1, <1>2, <1>3, <1>4, <2>1
    DEF Finish, Abstract!Apply, Abstract!ApplyUpdate, Abstract!Pend, DurableTable
<1>5. CASE Finish(p, Err)
  BY <1>1, <1>2, <1>3, <1>5, ErrorMaps
<1>6. CASE ret' = ret
  BY <1>2, <1>3, <1>6, Stutters
<1>7. (skip /\ Finish(p, Ok)) \/ Finish(p, Err) \/ ret' = ret
  BY DEF UpdateApply
<1>8. QED
  BY <1>4, <1>5, <1>6, <1>7

\* Every step of a goroutine is one step of its abstract call, or none.
LEMMA ProcessMaps ==
    ASSUME TypeOK, LocalsOK, RowInv, AtomicInv, NEW p \in Procs,
           (\E r \in Requests : Call(p, r)) \/ LockStripe(p) \/ Step(p)
    PROVE  [Abstract!Call(p) \/ Abstract!Locate(p) \/ Abstract!Apply(p)
               \/ Abstract!Fail(p) \/ Abstract!Return(p)]_(Abstract!vars)
<1>0. ~GetPointer(p) /\ ~GetRow(p) => Filed' = Filed
  BY FiledKept
<1>1. CASE \E r \in Requests : Call(p, r)
  <2>0. Filed' = Filed
    BY <1>0, <1>1 DEF Call, GetPointer, GetRow
  <2>1. UNCHANGED <<data, index, durable, ret>> /\ req[p] = None
        /\ \E r \in Requests : req' = [req EXCEPT ![p] = r]
    BY <1>1 DEF Call, AtomicInv, CallInv
  <2>2. Table' = Table /\ DurableTable' = DurableTable
    BY <2>1 DEF Table, DurableTable, RowAt
  <2>3. QED
    BY <2>0, <2>1, <2>2 DEF Abstract!Call, DurableTable
<1>2. CASE LockStripe(p)
  <2>1. Filed' = Filed
    BY <1>0, <1>2 DEF LockStripe, GetPointer, GetRow
  <2>2. QED
    BY <1>2, <2>1, Stutters DEF LockStripe
<1>3. CASE StageItem(p)
  <2>1. UNCHANGED <<data, index, durable, req>> /\ pc[p] = "stage"
        /\ (Finish(p, Err) \/ ret' = ret)
    BY <1>3 DEF StageItem, store
  <2>2. Filed' = Filed
    BY <1>0, <2>1 DEF GetPointer, GetRow
  <2>3. QED
    BY <2>1, <2>2, ErrorMaps, Stutters
<1>4. CASE Commit(p)
  BY <1>4, CommitMaps
<1>5. CASE CommitFails(p)
  <2>1. Filed' = Filed
    BY <1>0, <1>5 DEF CommitFails, GetPointer, GetRow
  <2>2. QED
    BY <1>5, <2>1, ErrorMaps DEF CommitFails, store
<1>6. CASE DeleteRead(p)
  <2>0. Filed' = Filed
    BY <1>0, <1>6 DEF DeleteRead, GetPointer, GetRow
  <2>1. /\ UNCHANGED <<data, index, durable, req>> /\ pc[p] = "delread"
        /\ req[p] \in Requests /\ req[p] # None /\ ret[p] = Pending
        /\ req[p].op = "delete" /\ req[p].key \in Keys
    BY <1>6, ConstantsAssumption, RequestFields
    DEF DeleteRead, store, LocalsOK, AtomicInv, CallInv
  <2>2. CASE data[req[p].key] = None
    <3>1. Finish(p, Ok)
      BY <1>6, <2>2 DEF DeleteRead
    <3>2. Table' = Table /\ DurableTable' = DurableTable /\ Table[req[p].key] = None
      BY <2>1, <2>2 DEF Table, DurableTable, RowAt
    <3>3. Table' = [Table EXCEPT ![req[p].key] = None]
      BY <3>2 DEF Table
    <3>4. QED
      BY <2>0, <2>1, <3>1, <3>2, <3>3
      DEF Finish, Abstract!Apply, Abstract!ApplyDelete, Abstract!Pend, DurableTable
  <2>3. CASE data[req[p].key] # None
    BY <1>6, <2>0, <2>1, <2>3, Stutters DEF DeleteRead
  <2>4. QED
    BY <2>2, <2>3
<1>7. CASE UpdateReadPointer(p) \/ UpdateReadRow(p)
  <2>1. Filed' = Filed
    BY <1>0, <1>7 DEF UpdateReadPointer, UpdateReadRow, GetPointer, GetRow
  <2>2. QED
    BY <1>7, <2>1, Stutters DEF UpdateReadPointer, UpdateReadRow, store
<1>8. CASE UpdateApply(p)
  BY <1>8, UpdateSkips
<1>9. CASE GetPointer(p)
  BY <1>9, GetPointerMaps
<1>10. CASE GetRow(p)
  BY <1>10, GetRowMaps
<1>11. CASE Return(p)
  <2>0. Filed' = Filed
    BY <1>0, <1>11 DEF Return, GetPointer, GetRow
  <2>1. UNCHANGED <<data, index, durable>> /\ ret[p] # Pending
        /\ req' = [req EXCEPT ![p] = None] /\ ret' = [ret EXCEPT ![p] = Pending]
    BY <1>11 DEF Return, store, AtomicInv, CallInv
  <2>2. Table' = Table /\ DurableTable' = DurableTable
    BY <2>1 DEF Table, DurableTable, RowAt
  <2>3. QED
    BY <2>0, <2>1, <2>2 DEF Abstract!Return, DurableTable
<1>12. QED
  BY <1>1, <1>2, <1>3, <1>4, <1>5, <1>6, <1>7, <1>8, <1>9, <1>10, <1>11 DEF Step

\* So is a flush, and a crash falls back to the durable table.
LEMMA SystemMaps ==
    ASSUME Flush \/ Crash \/ UNCHANGED vars
    PROVE  [Abstract!Flush \/ Abstract!Crash]_(Abstract!vars)
<1>1. CASE Flush
  <2>1. Table' = Table /\ DurableTable' = Table /\ Filed' = Filed
    BY <1>1 DEF Flush, local, Filed, Table, DurableTable, RowAt
  <2>2. QED
    BY <1>1, <2>1 DEF Flush, Abstract!Flush, DurableTable
<1>2. CASE Crash
  <2>1. /\ Table' = DurableTable /\ DurableTable' = DurableTable
        /\ Filed' = [p \in Procs |-> None]
    BY <1>2 DEF Crash, Filed, Table, DurableTable, RowAt
  <2>2. QED
    BY <1>2, <2>1 DEF Crash, Abstract!Crash, DurableTable
<1>3. CASE UNCHANGED vars
  <2>1. Filed' = Filed
    BY <1>3 DEF vars, local, Filed
  <2>2. QED
    BY <1>3, <2>1, Stutters DEF vars
<1>4. QED
  BY <1>1, <1>2, <1>3

\* Each call takes effect at one instant, or fails and changes nothing, and a Get
\* misses a stored row only if the row was moved after the Get read its pointer:
\* the store, with its two keyspaces, its locks and its crashes, implements the
\* table that its comments promise (PutBatch, Update, Delete, Get), for callers
\* that keep the contract of AssumeNew.
THEOREM CallsAreAtomic ==
    ASSUME AssumeNewContract, NewKeysNotUpdated
    PROVE  Spec => AtomicCalls
<1>1. TypeOK /\ LocalsOK /\ RowInv /\ AtomicInv /\ [Next]_vars => [Abstract!Next]_(Abstract!vars)
  <2> SUFFICES ASSUME TypeOK, LocalsOK, RowInv, AtomicInv, [Next]_vars
               PROVE  [Abstract!Next]_(Abstract!vars)
    OBVIOUS
  <2>1. ASSUME NEW p \in Procs, (\E r \in Requests : Call(p, r)) \/ LockStripe(p) \/ Step(p)
        PROVE  [Abstract!Next]_(Abstract!vars)
    BY <2>1, ProcessMaps DEF Abstract!Next
  <2>2. CASE Flush \/ Crash \/ UNCHANGED vars
    BY <2>2, SystemMaps DEF Abstract!Next
  <2>3. QED
    BY <2>1, <2>2 DEF Next
<1>2. QED
  BY InitMaps, AtomicInvHolds, <1>1, PTL DEF Spec, AtomicCalls, Abstract!Spec
=============================================================================
