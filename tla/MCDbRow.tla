------------------------------- MODULE MCDbRow -------------------------------
(***************************************************************************)
(* Small instances of DbRow.  Key 1 is an ordinary row, key 3 is also      *)
(* ingested with AssumeNew.                                                *)
(***************************************************************************)
EXTENDS DbRowInv

CONSTANTS va, vb  \* two payloads

\* The run's callers keep the contract that IndexMatchesData and AtomicCalls
\* rest on.
ASSUME ContractKept == AssumeNewContract /\ NewKeysNotUpdated

MCStripeOf == [k \in Keys |-> k]

Row(t, v) == [ts |-> t, val |-> v]
Item(k, t, v) == [key |-> k, row |-> Row(t, v), new |-> FALSE]
New(k, t, v) == [key |-> k, row |-> Row(t, v), new |-> TRUE]
PutReq(items) == [op |-> "put", items |-> items]

FnDomain == [ts : Times, val : Payloads] \cup {None}
NoCommit == [commit |-> FALSE, row |-> None]
Answer(r) == [commit |-> TRUE, row |-> r]

\* fn that moves the row to the other indexed value and keeps the payload.
MoveFn == [o \in FnDomain |-> IF o = None THEN Answer(Row(1, va))
                              ELSE Answer(Row(IF o.ts = 1 THEN 2 ELSE 1, o.val))]

\* fn that answers each stored row another way: insert, move, reject, delete,
\* leave alone.
MixedFn == [o \in FnDomain |->
    IF o \in {None, Row(1, va)} THEN MoveFn[o]
    ELSE IF o = Row(1, vb) THEN Answer(Row(NoTime, vb))
    ELSE IF o = Row(2, va) THEN Answer(None)
    ELSE NoCommit]

Update(k, f) == [op |-> "update", key |-> k, fn |-> f]
Delete(k) == [op |-> "delete", key |-> k]
Get(k) == [op |-> "get", key |-> k]

\* Batches over both keys in both orders, one that fails on its second item;
\* AssumeNew ingest of key 3 beside locked writers of it.
MCRequests == {
    PutReq(<<Item(3, 1, va), Item(1, 2, vb)>>),
    PutReq(<<Item(1, 1, vb), Item(3, 1, vb)>>),
    PutReq(<<Item(1, 2, va), Item(3, NoTime, va)>>),
    PutReq(<<New(3, 1, va), New(3, 1, vb)>>),
    Update(1, MixedFn), Delete(3), Get(1) }
=============================================================================
