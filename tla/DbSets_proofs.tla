---------------------------- MODULE DbSets_proofs ----------------------------
(***************************************************************************)
(* Proofs about the life of sets, for every number of goroutines, names,   *)
(* rows and set IDs.                                                       *)
(***************************************************************************)
EXTENDS MCDbSets, TLAPS, FiniteSetTheorems, WellFoundedInduction

-----------------------------------------------------------------------------
(*                         Types and places                                *)

RowOps   == {"put", "update", "delete"}
RowCalls == [op : RowOps, name : Names, key : Keys]
SetCalls == [op : {"drop", "scan"}, name : Names]
AtRow    == {"prepare", "persist", "lock", "check", "write"}

\* The call that p is in fits the place it is at, and where it works on a set
\* it has looked one up.
Fits(p) ==
    /\ pc[p] \in {"ensure", "create"} \cup AtRow => call[p] \in RowCalls
    /\ pc[p] \in {"prepare", "persist"} => call[p].op # "delete"
    /\ pc[p] = "lookup" => call[p] \in RowCalls \cup SetCalls
    /\ pc[p] = "lookup" /\ call[p] \notin RowCalls => call[p].op = "scan"
    /\ pc[p] \in {"unmap"} \cup Dropping => call[p] \in SetCalls
    /\ pc[p] \in AtRow \cup Dropping \cup {"open"} => sid[p] \in Ids
    /\ pc[p] = "idle" => sid[p] = None

TypeInv == TypeOK /\ \A p \in Procs : Fits(p)

\* The fields of a call.
LEMMA CallFields ==
    ASSUME NEW c \in Calls
    PROVE  /\ c.op \in RowOps => c \in RowCalls
           /\ c.op \in {"drop", "scan"} => c \in SetCalls
           /\ c \in RowCalls => c.op \in RowOps /\ c.name \in Names /\ c.key \in Keys
           /\ c \in SetCalls => c.op \in {"drop", "scan"} /\ c.name \in Names
           /\ c # None
<1>1. c \in [op : {"close"}] => c.op = "close"
  OBVIOUS
<1>2. QED
  BY <1>1, NoneAssumption DEF Calls, RowCalls, SetCalls, RowOps

\* A goroutine that returns keeps nothing, and takes nothing from the others.
LEMMA Finishes ==
    ASSUME TypeInv, NEW p \in Procs, Finish(p)
    PROVE  /\ pc' \in [Procs -> Labels] /\ call' \in [Procs -> Calls \cup {None}]
           /\ sid' \in [Procs -> Ids \cup {None}]
           /\ stripe' \in [Keys -> Procs \cup {None}] /\ smu' \in [Ids -> Procs \cup {None}]
           /\ \A q \in Procs : Fits(q)'
<1>1. /\ pc' = [pc EXCEPT ![p] = "idle"] /\ call' = [call EXCEPT ![p] = None] /\ sid' = [sid EXCEPT ![p] = None]
      /\ stripe' = [k \in Keys |-> IF stripe[k] = p THEN None ELSE stripe[k]]
      /\ smu' = [i \in Ids |-> IF smu[i] = p THEN None ELSE smu[i]]
  BY DEF Finish, Go
<1>2. /\ pc' \in [Procs -> Labels] /\ call' \in [Procs -> Calls \cup {None}]
      /\ sid' \in [Procs -> Ids \cup {None}]
      /\ stripe' \in [Keys -> Procs \cup {None}] /\ smu' \in [Ids -> Procs \cup {None}]
  BY <1>1 DEF TypeInv, TypeOK, Labels
<1>3. ASSUME NEW q \in Procs PROVE Fits(q)'
  BY <1>1 DEF TypeInv, TypeOK, Fits, AtRow, Dropping
<1>4. QED
  BY <1>2, <1>3

\* One that goes on, with the set it holds.
LEMMA Goes ==
    ASSUME TypeInv, NEW p \in Procs, NEW l \in Labels, NEW s \in Ids \cup {None},
           pc' = [pc EXCEPT ![p] = l], sid' = [sid EXCEPT ![p] = s], call' = call,
           l \in {"ensure", "create"} \cup AtRow => call[p] \in RowCalls,
           l \in {"prepare", "persist"} => call[p].op # "delete",
           l \in {"unmap"} \cup Dropping => call[p] \in SetCalls,
           l \in AtRow \cup Dropping \cup {"open"} => s \in Ids,
           l \notin {"idle", "lookup"}
    PROVE  /\ pc' \in [Procs -> Labels] /\ sid' \in [Procs -> Ids \cup {None}]
           /\ \A q \in Procs : Fits(q)'
<1>1. pc' \in [Procs -> Labels] /\ sid' \in [Procs -> Ids \cup {None}]
  BY DEF TypeInv, TypeOK
<1>2. ASSUME NEW q \in Procs PROVE Fits(q)'
  <2>1. CASE q = p
    BY <2>1 DEF TypeInv, TypeOK, Fits
  <2>2. CASE q # p
    BY <2>2 DEF TypeInv, TypeOK, Fits
  <2>3. QED
    BY <2>1, <2>2
<1>3. QED
  BY <1>1, <1>2

\* The records that the batches of ensureSet, persistSchema, Write and DropSet leave.
LEMMA DiskSteps ==
    ASSUME disk \in DiskType, NEW i \in Ids, NEW n \in Names, NEW k \in Keys
    PROVE  /\ [disk EXCEPT !.rec[i] = n] \in DiskType
           /\ [disk EXCEPT !.rec[i] = n, !.next = i + 1] \in DiskType
           /\ [disk EXCEPT !.rows[i] = @ \cup {k}] \in DiskType
           /\ [disk EXCEPT !.rows[i] = @ \ {k}] \in DiskType
<1>1. MaxId \in Nat \ {0} /\ i + 1 \in 1 .. MaxId + 1
  BY SetsAssumption DEF Ids
<1>2. QED
  BY <1>1 DEF DiskType

\* And the one that DropSet's batch leaves.
LEMMA DropDisk ==
    ASSUME disk \in DiskType, NEW i \in Ids
    PROVE  [disk EXCEPT !.rows[i] = {}, !.rec[i] = None, !.retired = @ \cup {i}] \in DiskType
  BY DEF DiskType

\* A nonempty set of IDs, or of next IDs, has a greatest.
LEMMA Greatest ==
    ASSUME NEW S \in SUBSET (1..MaxId + 1), S # {}
    PROVE  Max(S) \in S /\ \A i \in S : Max(S) >= i
<1> DEFINE Above(i) == {j \in S : j > i}
           Tops == {Above(i) : i \in S}
<1>1. IsFiniteSet(S)
  <2>1. 1 \in Int /\ MaxId + 1 \in Int
    BY SetsAssumption
  <2>2. IsFiniteSet(1..MaxId + 1)
    BY <2>1, FS_Interval
  <2>3. QED
    BY <2>2, FS_Subset
<1>2. Tops \subseteq FiniteSubsetsOf(S) /\ Tops # {}
  <2>1. \A T \in Tops : T \in SUBSET S
    OBVIOUS
  <2>2. \A T \in SUBSET S : IsFiniteSet(T)
    BY <1>1, FS_Subset
  <2>3. Tops # {}
    <3>1. PICK i \in S : TRUE
      OBVIOUS
    <3>2. Above(i) \in Tops
      OBVIOUS
    <3>3. QED
      BY <3>2
  <2> HIDE DEF Tops
  <2>4. QED
    BY <2>1, <2>2, <2>3 DEF FiniteSubsetsOf
<1>3. IsWellFoundedOn(StrictSubsetOrdering(S), FiniteSubsetsOf(S))
  BY FS_StrictSubsetOrderingWellFounded
<1>4. PICK T \in Tops : \A U \in Tops : <<U, T>> \notin StrictSubsetOrdering(S)
  BY <1>2, <1>3, WFMin
<1> PICK i \in S : T = Above(i)
  OBVIOUS
<1>5. ASSUME NEW j \in S, j > i PROVE FALSE
  <2>1. \A x \in S : x \in Int
    BY SetsAssumption
  <2>2. Above(j) \subseteq Above(i) /\ j \in Above(i) /\ j \notin Above(j)
    <3>1. i \in Int /\ j \in Int
      BY <2>1
    <3>2. \A x \in Int : x > j => x > i
      BY <1>5, <3>1
    <3>3. ~(j > j)
      BY <3>1
    <3>4. QED
      BY <1>5, <2>1, <3>2, <3>3
  <2>3. Above(j) \subseteq S /\ T \subseteq S /\ Above(j) \in Tops
    OBVIOUS
  <2>4. <<Above(j), T>> \in StrictSubsetOrdering(S)
    BY <2>2, <2>3 DEF StrictSubsetOrdering
  <2>5. QED
    BY <1>4, <2>3, <2>4
<1>6. \A j \in S : i >= j
  BY <1>5, SetsAssumption
<1>7. QED
  BY <1>6 DEF Max

\* TypeInv holds at the start, ...
LEMMA TypeInit == Init => TypeInv
<1> SUFFICES ASSUME Init PROVE TypeInv
  OBVIOUS
<1>1. 1 \in 1..MaxId + 1
  BY SetsAssumption
<1>2. EmptyDisk \in DiskType
  <2> DEFINE e == EmptyDisk
  <2>1. /\ e.rec = [i \in Ids |-> None] /\ e.rows = [i \in Ids |-> {}] /\ e.next = 1 /\ e.retired = {}
        /\ e = [rec |-> e.rec, rows |-> e.rows, next |-> e.next, retired |-> e.retired]
    BY DEF EmptyDisk
  <2>2. e.rec \in [Ids -> Names \cup {None}] /\ e.rows \in [Ids -> SUBSET Keys] /\ e.retired \in SUBSET Ids
    BY <2>1
  <2> HIDE DEF e
  <2>3. e \in DiskType
    BY <1>1, <2>1, <2>2 DEF DiskType
  <2>4. QED
    BY <2>3 DEF e
<1>3. TypeOK
  <2>1. /\ byName = [n \in Names |-> None] /\ nextID = 1 /\ dropped = {} /\ disk = EmptyDisk /\ durable = EmptyDisk
        /\ stripe = [k \in Keys |-> None] /\ smu = [i \in Ids |-> None] /\ closing = {} /\ closed = FALSE
        /\ iters = [p \in Procs |-> 0] /\ call = [p \in Procs |-> None] /\ pc = [p \in Procs |-> "idle"]
        /\ sid = [p \in Procs |-> None] /\ botched = {}
    BY DEF Init
  <2>2. /\ closed \in BOOLEAN
        /\ iters \in [Procs -> 0..1]
        /\ pc \in [Procs -> Labels]
    <3>1. closed \in BOOLEAN
      BY <2>1
    <3>2. 0 \in 0..1
      OBVIOUS
    <3>3. iters \in [Procs -> 0..1]
      BY <2>1, <3>2, Zenon
    <3>4. pc \in [Procs -> Labels]
      BY <2>1 DEF Labels
    <3>5. QED
      BY <3>1, <3>3, <3>4
  <2>3. QED
    BY <1>1, <1>2, <2>1, <2>2 DEF TypeOK
<1>4. ASSUME NEW p \in Procs PROVE Fits(p)
  BY DEF Init, Fits, AtRow, Dropping
<1>5. QED
  BY <1>3, <1>4 DEF TypeInv

\* What is left of TypeOK once Finishes or Goes has been cited.
Maps == /\ byName \in [Names -> Ids \cup {None}] /\ nextID \in 1..MaxId + 1 /\ dropped \subseteq Ids
        /\ disk \in DiskType /\ durable \in DiskType
        /\ closing \subseteq Procs /\ closed \in BOOLEAN /\ iters \in [Procs -> 0..1]
        /\ botched \subseteq Names

\* ... after a call began, ...
LEMMA TypeCall ==
    ASSUME TypeInv, NEW p \in Procs, NEW c \in Calls, Call(p, c), UNCHANGED botched
    PROVE  TypeInv'
<1>1. /\ pc' = [pc EXCEPT ![p] = FirstLabel(c)] /\ call' = [call EXCEPT ![p] = c]
      /\ UNCHANGED <<maps, disk, durable, locks, life, sid, botched>>
      /\ c.op \in {"put", "drop", "update", "delete", "scan"}
  <2>1. c.op \in RowOps \cup {"drop", "scan", "close"} /\ c.op # "close"
    BY DEF Calls, RowOps, Call
  <2>2. QED
    BY <2>1 DEF Call, Go, RowOps
<1>2. /\ c.op \in RowOps => c \in RowCalls
      /\ c.op \in {"drop", "scan"} => c \in SetCalls
  BY CallFields
<1>3. /\ c.op = "put" => FirstLabel(c) = "ensure"
      /\ c.op = "drop" => FirstLabel(c) = "unmap"
      /\ c.op \in {"update", "delete", "scan"} => FirstLabel(c) = "lookup"
  BY <1>1 DEF FirstLabel
<1>4. TypeOK'
  BY <1>1, <1>3 DEF TypeInv, TypeOK, Labels, maps, locks, life
<1>5. ASSUME NEW q \in Procs PROVE Fits(q)'
  BY <1>1, <1>2, <1>3 DEF TypeInv, TypeOK, Fits, AtRow, Dropping, RowOps, maps, locks, life
<1>6. QED
  BY <1>4, <1>5 DEF TypeInv

\* The two ways in which a step of a call ends.
LEMMA TypeFinish ==
    ASSUME TypeInv, NEW p \in Procs, Finish(p), Maps'
    PROVE  TypeInv'
  BY Finishes DEF Maps, TypeInv, TypeOK

\* One that goes on with another set, or with the one it had.
LEMMA TypeGo ==
    ASSUME TypeInv, NEW p \in Procs, NEW l \in Labels, NEW s \in Ids \cup {None}, Maps',
           pc' = [pc EXCEPT ![p] = l], sid' = [sid EXCEPT ![p] = s], call' = call,
           l \in {"ensure", "create"} \cup AtRow => call[p] \in RowCalls,
           l \in {"prepare", "persist"} => call[p].op # "delete",
           l \in {"unmap"} \cup Dropping => call[p] \in SetCalls,
           l \in AtRow \cup Dropping \cup {"open"} => s \in Ids,
           l \notin {"idle", "lookup"},
           stripe' \in [Keys -> Procs \cup {None}], smu' \in [Ids -> Procs \cup {None}]
    PROVE  TypeInv'
<1>1. /\ pc' \in [Procs -> Labels] /\ sid' \in [Procs -> Ids \cup {None}]
      /\ \A q \in Procs : Fits(q)'
  BY Goes
<1>2. call' \in [Procs -> Calls \cup {None}]
  BY DEF TypeInv, TypeOK
<1>3. QED
  BY <1>1, <1>2 DEF Maps, TypeInv, TypeOK

\* One that goes on with the set it has.
LEMMA TypeStay ==
    ASSUME TypeInv, NEW p \in Procs, NEW l \in Labels, Maps',
           pc' = [pc EXCEPT ![p] = l], sid' = sid, call' = call,
           l \in {"ensure", "create"} \cup AtRow => call[p] \in RowCalls,
           l \in {"prepare", "persist"} => call[p].op # "delete",
           l \in {"unmap"} \cup Dropping => call[p] \in SetCalls,
           l \in AtRow \cup Dropping \cup {"open"} => sid[p] \in Ids,
           l \notin {"idle", "lookup"},
           stripe' \in [Keys -> Procs \cup {None}], smu' \in [Ids -> Procs \cup {None}]
    PROVE  TypeInv'
<1>1. sid' = [sid EXCEPT ![p] = sid[p]] /\ sid[p] \in Ids \cup {None}
  BY DEF TypeInv, TypeOK
<1>2. QED
  BY <1>1, TypeGo

\* What the rest of the proof reads off Fits.
LEMMA FitsAt ==
    ASSUME TypeInv, NEW p \in Procs
    PROVE  /\ pc[p] \in {"ensure", "create"} \cup AtRow =>
                  call[p] \in RowCalls /\ call[p].op \in RowOps /\ call[p].name \in Names /\ call[p].key \in Keys
           /\ pc[p] \in {"unmap"} \cup Dropping => call[p] \in SetCalls /\ call[p].name \in Names
           /\ pc[p] = "lookup" => call[p].op \in RowOps \cup {"scan"} /\ call[p].name \in Names
           /\ pc[p] = "lookup" /\ call[p].op \in RowOps => call[p] \in RowCalls
           /\ pc[p] \in AtRow \cup Dropping \cup {"open"} => sid[p] \in Ids
           /\ pc[p] \in Labels /\ Maps
<1>1. /\ call[p] \in RowCalls => call[p].op \in RowOps /\ call[p].name \in Names /\ call[p].key \in Keys
      /\ call[p] \in SetCalls => call[p].op \in {"drop", "scan"} /\ call[p].name \in Names
  BY DEF RowCalls, SetCalls
<1>2. call[p] \in RowCalls \cup SetCalls /\ call[p].op \in RowOps => call[p] \in RowCalls
  BY <1>1 DEF RowOps
<1>3. QED
  BY <1>1, <1>2 DEF TypeInv, TypeOK, Fits, Maps

\* Where a call goes on is a place its arguments fit.
LEMMA After ==
    ASSUME NEW c, c \in RowCalls
    PROVE  /\ c.op # "delete" => AfterEnsure(c) \in {"prepare", "lock"}
           /\ c.op = "delete" => AfterEnsure(c) = "lock"
           /\ AfterPrepare(c) \in {"write", "check", "lock"}
           /\ AfterCheck(c) \in {"prepare", "write"}
           /\ c.op # "update" => AfterCheck(c) = "write"
  BY DEF AfterEnsure, AfterPrepare, AfterCheck

\* What lookupSet answers.
LEMMA LookupType ==
    ASSUME TypeInv, NEW n \in Names
    PROVE  Lookup(n) \in Ids \cup {None}
  BY DEF Lookup, TypeInv, TypeOK

\* ... after a step of one, ...
LEMMA TypeStep ==
    ASSUME TypeInv, NEW p \in Procs, Step(p), UNCHANGED botched
    PROVE  TypeInv'
<1> USE FitsAt
<1>1. CASE EnsureFast(p)
  <2> DEFINE id == Lookup(call[p].name)
  <2>1. id \in Ids \cup {None}
    BY <1>1, LookupType DEF EnsureFast
  <2>2. CASE id = None
    BY <1>1, <2>2, TypeGo DEF EnsureFast, Go, Maps, maps, locks, life, Labels, AtRow, Dropping, TypeInv, TypeOK
  <2>3. CASE id # None
    BY <1>1, <2>1, <2>3, TypeGo, After
       DEF EnsureFast, Go, Maps, maps, locks, life, Labels, AtRow, Dropping, TypeInv, TypeOK
  <2>4. QED
    BY <2>2, <2>3
<1>2. CASE Create(p)
  <2>1. /\ call[p] \in RowCalls /\ call[p].name \in Names /\ call[p].key \in Keys
        /\ AfterEnsure(call[p]) \in {"prepare", "lock"} /\ (call[p].op = "delete" => AfterEnsure(call[p]) = "lock")
        /\ UNCHANGED <<durable, stripe, smu, closing, closed, iters, call>>
    BY <1>2, After DEF Create, locks, life
  <2>2. CASE Lookup(call[p].name) # None
    <3>1. /\ Lookup(call[p].name) \in Ids /\ sid' = [sid EXCEPT ![p] = Lookup(call[p].name)]
          /\ pc' = [pc EXCEPT ![p] = AfterEnsure(call[p])] /\ UNCHANGED <<byName, nextID, dropped, disk>>
      BY <1>2, <2>1, <2>2, LookupType DEF Create, maps, Go
    <3>2. Maps'
      BY <2>1, <3>1 DEF Maps
    <3>3. QED
      BY <2>1, <3>1, <3>2, TypeGo DEF Labels, AtRow, Dropping, TypeInv, TypeOK
  <2>3. CASE Lookup(call[p].name) = None
    <3>1. /\ nextID \in Ids /\ disk' = [disk EXCEPT !.rec[nextID] = call[p].name, !.next = nextID + 1]
          /\ byName' = [byName EXCEPT ![call[p].name] = nextID] /\ nextID' = nextID + 1
          /\ sid' = [sid EXCEPT ![p] = nextID] /\ UNCHANGED dropped
          /\ pc' = [pc EXCEPT ![p] = AfterEnsure(call[p])]
      BY <1>2, <2>3 DEF Create, Go
    <3>2. disk' \in DiskType
      BY <2>1, <3>1, DiskSteps DEF Maps
    <3>3. nextID' \in 1..MaxId + 1
      BY <3>1, SetsAssumption DEF Ids
    <3>4. Maps'
      BY <2>1, <3>1, <3>2, <3>3 DEF Maps
    <3>5. QED
      BY <2>1, <3>1, <3>4, TypeGo DEF Labels, AtRow, Dropping, TypeInv, TypeOK
  <2>4. QED
    BY <2>2, <2>3
<1>3. CASE CreateFails(p)
  BY <1>3, TypeFinish DEF CreateFails, Maps, life
<1>4. CASE PrepareFast(p)
  <2>1. /\ pc' = [pc EXCEPT ![p] = AfterPrepare(call[p])] /\ UNCHANGED <<sid, call, stripe, smu>> /\ Maps'
        /\ AfterPrepare(call[p]) \in {"write", "check", "lock"} /\ call[p] \in RowCalls /\ sid[p] \in Ids
    BY <1>4, After DEF PrepareFast, Go, Maps, maps, locks, life, AtRow
  <2>2. QED
    BY <2>1, TypeStay DEF Labels, AtRow, Dropping, TypeInv, TypeOK
<1>5. CASE PrepareLock(p)
  <2>1. Maps'
    BY <1>5 DEF PrepareLock, Maps, maps, life
  <2>2. CASE sid[p] \in dropped
    BY <1>5, <2>1, <2>2, TypeFinish DEF PrepareLock
  <2>3. CASE sid[p] \notin dropped
    <3>1. /\ pc' = [pc EXCEPT ![p] = "persist"] /\ UNCHANGED <<sid, call, stripe>>
          /\ smu' = [smu EXCEPT ![sid[p]] = p]
          /\ call[p] \in RowCalls /\ call[p].op # "delete" /\ sid[p] \in Ids
      BY <1>5, <2>3 DEF PrepareLock, Go, AtRow, TypeInv, Fits
    <3>2. smu' \in [Ids -> Procs \cup {None}] /\ stripe' \in [Keys -> Procs \cup {None}]
      BY <3>1 DEF TypeInv, TypeOK
    <3>3. QED
      BY <2>1, <3>1, <3>2, TypeStay DEF Labels, Dropping
  <2>4. QED
    BY <2>2, <2>3
<1>6. CASE Persist(p)
  <2>1. /\ pc' = [pc EXCEPT ![p] = AfterPrepare(call[p])] /\ UNCHANGED <<sid, call, stripe>>
        /\ smu' = [smu EXCEPT ![sid[p]] = None] /\ disk' = [disk EXCEPT !.rec[sid[p]] = call[p].name]
        /\ AfterPrepare(call[p]) \in {"write", "check", "lock"} /\ call[p] \in RowCalls /\ sid[p] \in Ids
        /\ call[p].name \in Names /\ call[p].key \in Keys
    BY <1>6, After DEF Persist, Go, AtRow
  <2>2. Maps'
    <3>1. [disk EXCEPT !.rec[sid[p]] = call[p].name] \in DiskType
      BY <2>1, DiskSteps DEF Maps
    <3>2. QED
      BY <1>6, <2>1, <3>1 DEF Persist, Maps, maps, life
  <2>3. smu' \in [Ids -> Procs \cup {None}] /\ stripe' \in [Keys -> Procs \cup {None}]
    BY <2>1 DEF TypeInv, TypeOK
  <2>4. QED
    BY <2>1, <2>2, <2>3, TypeStay DEF Labels, AtRow, Dropping
<1>7. CASE LookupSet(p)
  BY <1>7, LookupType, TypeGo, TypeFinish
     DEF LookupSet, Go, Maps, maps, locks, life, Labels, AtRow, Dropping, TypeInv, TypeOK, RowOps
<1>8. CASE LockRow(p)
  <2>1. /\ pc' = [pc EXCEPT ![p] = "check"] /\ UNCHANGED <<sid, call, smu>> /\ Maps'
        /\ stripe' = [stripe EXCEPT ![call[p].key] = p] /\ call[p] \in RowCalls /\ sid[p] \in Ids
    BY <1>8 DEF LockRow, Go, Maps, maps, life, AtRow
  <2>2. smu' \in [Ids -> Procs \cup {None}] /\ stripe' \in [Keys -> Procs \cup {None}]
    BY <2>1 DEF TypeInv, TypeOK
  <2>3. QED
    BY <2>1, <2>2, TypeStay DEF Labels, Dropping
<1>9. CASE CheckDropped(p)
  BY <1>9, TypeGo, TypeFinish, After
     DEF CheckDropped, Go, Maps, maps, locks, life, Labels, AtRow, Dropping, TypeInv, TypeOK
<1>10. CASE Write(p)
  <2>1. sid[p] \in Ids /\ call[p].key \in Keys /\ call[p].name \in Names
    BY <1>10 DEF Write, AtRow
  <2>2. disk' \in DiskType
    <3>1. /\ [disk EXCEPT !.rows[sid[p]] = @ \cup {call[p].key}] \in DiskType
          /\ [disk EXCEPT !.rows[sid[p]] = @ \ {call[p].key}] \in DiskType
      BY <2>1, DiskSteps DEF Maps
    <3>2. CASE call[p].op = "put"
      BY <1>10, <3>1, <3>2 DEF Write, Maps
    <3>3. CASE call[p].op # "put"
      BY <1>10, <3>1, <3>3 DEF Write, Maps
    <3>4. QED
      BY <3>2, <3>3
  <2>3. Maps'
    BY <1>10, <2>2 DEF Write, Maps, maps, life
  <2>4. QED
    BY <1>10, <2>3, TypeFinish DEF Write
<1>11. CASE OpenIter(p)
  BY <1>11, TypeFinish DEF OpenIter, Maps, maps
<1>12. CASE CloseIter(p)
  BY <1>12 DEF CloseIter, Fits, TypeInv, TypeOK, maps, locks
<1>13. CASE Unmap(p)
  BY <1>13, TypeFinish, TypeGo DEF Unmap, Go, Maps, maps, locks, life, Labels, AtRow, Dropping, TypeInv, TypeOK
<1>14. CASE Flag(p)
  <2>1. /\ pc' = [pc EXCEPT ![p] = "drain"] /\ UNCHANGED <<sid, call, stripe, smu>> /\ Maps'
        /\ call[p] \in SetCalls /\ sid[p] \in Ids
    BY <1>14 DEF Flag, Go, Maps, locks, life, Dropping
  <2>2. QED
    BY <2>1, TypeStay DEF Labels, AtRow, Dropping, TypeInv, TypeOK
<1>15. CASE Drain(p)
  <2>1. PICK k \in Keys : /\ stripe' = [stripe EXCEPT ![k] = p]
                          /\ Go(p, IF \A j \in Keys : j <= k THEN "seal" ELSE "drain")
    BY <1>15 DEF Drain
  <2>2. PICK l \in {"seal", "drain"} : pc' = [pc EXCEPT ![p] = l]
    BY <2>1 DEF Go
  <2>3. /\ UNCHANGED <<sid, call, smu>> /\ Maps' /\ call[p] \in SetCalls /\ sid[p] \in Ids
    BY <1>15 DEF Drain, Maps, maps, life, Dropping
  <2>4. smu' \in [Ids -> Procs \cup {None}] /\ stripe' \in [Keys -> Procs \cup {None}]
    BY <2>1, <2>3 DEF TypeInv, TypeOK
  <2>5. QED
    BY <2>2, <2>3, <2>4, TypeStay DEF Labels, AtRow, Dropping
<1>16. CASE Seal(p)
  <2>1. /\ pc' = [pc EXCEPT ![p] = "drop"] /\ UNCHANGED <<sid, call, stripe>> /\ Maps'
        /\ smu' = [smu EXCEPT ![sid[p]] = p] /\ call[p] \in SetCalls /\ sid[p] \in Ids
    BY <1>16 DEF Seal, Go, Maps, maps, life, Dropping
  <2>2. smu' \in [Ids -> Procs \cup {None}] /\ stripe' \in [Keys -> Procs \cup {None}]
    BY <2>1 DEF TypeInv, TypeOK
  <2>3. QED
    BY <2>1, <2>2, TypeStay DEF Labels, AtRow, Dropping
<1>17. CASE Drop(p)
  <2>1. sid[p] \in Ids
    BY <1>17 DEF Drop, Dropping
  <2>2. Maps'
    BY <1>17, <2>1, DropDisk DEF Drop, Maps, maps, life
  <2>3. QED
    BY <1>17, <2>2, TypeFinish DEF Drop
<1>18. CASE CloseCall(p)
  <2>1. /\ pc' = [pc EXCEPT ![p] = "closing"] /\ UNCHANGED <<sid, stripe, smu>> /\ Maps'
        /\ call' = [call EXCEPT ![p] = [op |-> "close"]]
    BY <1>18 DEF CloseCall, Go, Maps, maps, locks
  <2>2. [op |-> "close"] \in Calls
    BY DEF Calls
  <2>3. TypeOK'
    BY <2>1, <2>2 DEF Maps, TypeInv, TypeOK, Labels
  <2>4. ASSUME NEW q \in Procs PROVE Fits(q)'
    BY <2>1 DEF TypeInv, TypeOK, Fits, AtRow, Dropping
  <2>5. QED
    BY <2>3, <2>4 DEF TypeInv
<1>19. CASE Close(p)
  BY <1>19, TypeFinish DEF Close, Maps, maps
<1>20. QED
  BY <1>1, <1>2, <1>3, <1>4, <1>5, <1>6, <1>7, <1>8, <1>9, <1>10, <1>11, <1>12, <1>13, <1>14, <1>15,
     <1>16, <1>17, <1>18, <1>19 DEF Step

\* What Open makes of a disk.
LEMMA LoadedFits ==
    ASSUME NEW d \in DiskType
    PROVE  /\ Loaded(d) \in [Names -> Ids \cup {None}]
           /\ \A n \in Names : Loaded(d)[n] # None =>
                 d.rec[Loaded(d)[n]] = n /\ \A i \in Ids : d.rec[i] = n => Loaded(d)[n] >= i
           /\ \A n \in Names : Loaded(d)[n] = None => \A i \in Ids : d.rec[i] # n
           /\ NextFrom(d) \in 1..MaxId + 1 /\ NextFrom(d) >= d.next
           /\ (\A i \in Ids : d.rec[i] # None => i < d.next) => NextFrom(d) = d.next
<1> DEFINE Stored(n) == {i \in Ids : d.rec[i] = n}
           Nexts == {d.next} \cup {i + 1 : i \in {j \in Ids : d.rec[j] # None}}
<1>1. MaxId \in Nat /\ Ids \subseteq 1..MaxId + 1 /\ \A i \in Ids : i + 1 \in 1..MaxId + 1
  BY SetsAssumption DEF Ids
<1>2. d.next \in 1..MaxId + 1
  BY DEF DiskType
<1>3. Nexts \in SUBSET (1..MaxId + 1) /\ d.next \in Nexts
  BY <1>1, <1>2
<1>4. Max(Nexts) \in Nexts /\ \A i \in Nexts : Max(Nexts) >= i
  <2> HIDE DEF Nexts
  <2>1. QED
    BY <1>3, Greatest
<1>5. NextFrom(d) = Max(Nexts)
  BY DEF NextFrom
<1>6. ASSUME NEW n \in Names
      PROVE  \/ /\ Loaded(d)[n] = None /\ \A i \in Ids : d.rec[i] # n
             \/ /\ Loaded(d)[n] \in Ids /\ d.rec[Loaded(d)[n]] = n
                /\ \A i \in Ids : d.rec[i] = n => Loaded(d)[n] >= i
  <2>1. Loaded(d)[n] = IF Stored(n) = {} THEN None ELSE Max(Stored(n))
    BY DEF Loaded
  <2>2. CASE Stored(n) = {}
    BY <2>1, <2>2
  <2>3. CASE Stored(n) # {}
    <3>1. Stored(n) \in SUBSET (1..MaxId + 1)
      BY <1>1
    <3>2. Max(Stored(n)) \in Stored(n) /\ \A i \in Stored(n) : Max(Stored(n)) >= i
      <4> HIDE DEF Stored
      <4>1. QED
        BY <2>3, <3>1, Greatest
    <3>3. QED
      BY <2>1, <2>3, <3>2
  <2>4. QED
    BY <2>2, <2>3
<1>7. Loaded(d) \in [Names -> Ids \cup {None}]
  <2>1. Loaded(d) = [n \in Names |-> Loaded(d)[n]]
    BY DEF Loaded
  <2>2. QED
    BY <1>6, <2>1
<1>8. \A n \in Names : Loaded(d)[n] # None =>
         d.rec[Loaded(d)[n]] = n /\ \A i \in Ids : d.rec[i] = n => Loaded(d)[n] >= i
  BY <1>6
<1>9. \A n \in Names : Loaded(d)[n] = None => \A i \in Ids : d.rec[i] # n
  BY <1>6, NoneAssumption
<1>10. NextFrom(d) \in 1..MaxId + 1 /\ NextFrom(d) >= d.next
  <2> HIDE DEF Nexts
  <2>1. QED
    BY <1>3, <1>4, <1>5
<1>11. ASSUME \A i \in Ids : d.rec[i] # None => i < d.next PROVE NextFrom(d) = d.next
  <2>1. \A x \in Nexts : x <= d.next
    BY <1>1, <1>2, <1>11
  <2>2. NextFrom(d) <= d.next
    <3> HIDE DEF Nexts
    <3>1. QED
      BY <1>4, <1>5, <2>1
  <2>3. QED
    BY <1>2, <1>10, <2>2
<1>12. QED
  BY <1>7, <1>8, <1>9, <1>10, <1>11

\* ... after the store was opened again, ...
LEMMA TypeReopen ==
    ASSUME TypeInv, NEW d \in DiskType, Reopen(d), botched' \in SUBSET Names
    PROVE  TypeInv'
<1>1. byName' \in [Names -> Ids \cup {None}] /\ nextID' \in 1..MaxId + 1
  BY LoadedFits DEF Reopen
<1>2. iters' \in [Procs -> 0..1] /\ closed' \in BOOLEAN /\ pc' \in [Procs -> Labels]
  <2>1. 0 \in 0..1
    OBVIOUS
  <2>2. iters' \in [Procs -> 0..1]
    BY <2>1, Zenon DEF Reopen
  <2>3. closed' \in BOOLEAN
    BY DEF Reopen
  <2>4. pc' \in [Procs -> Labels]
    BY DEF Reopen, Labels
  <2>5. QED
    BY <2>2, <2>3, <2>4
<1>3. /\ dropped' \subseteq Ids /\ disk' \in DiskType /\ durable' \in DiskType /\ closing' \subseteq Procs
      /\ stripe' \in [Keys -> Procs \cup {None}] /\ smu' \in [Ids -> Procs \cup {None}]
      /\ call' \in [Procs -> Calls \cup {None}] /\ sid' \in [Procs -> Ids \cup {None}]
  BY DEF Reopen, TypeInv, TypeOK
<1>4. ASSUME NEW p \in Procs PROVE Fits(p)'
  BY DEF Reopen, Fits, AtRow, Dropping
<1>5. QED
  BY <1>1, <1>2, <1>3, <1>4 DEF TypeInv, TypeOK

\* ... and so after every step.
LEMMA TypeNext == TypeInv /\ [Next]_vars => TypeInv'
<1> SUFFICES ASSUME TypeInv, [Next]_vars PROVE TypeInv'
  OBVIOUS
<1>1. ASSUME NEW p \in Procs, DropFailed(p) PROVE TypeInv'
  <2>1. sid[p] \in Ids /\ call[p].name \in Names /\ Maps
    BY <1>1, FitsAt DEF DropFailed, Dropping
  <2>2. Maps'
    BY <1>1, <2>1 DEF DropFailed, Maps, life
  <2>3. QED
    BY <1>1, <2>2, TypeFinish DEF DropFailed
<1>2. ASSUME Crash PROVE TypeInv'
  <2>1. botched' \in SUBSET Names /\ durable \in DiskType
    BY <1>2 DEF Crash, TypeInv, TypeOK
  <2>2. QED
    BY <1>2, <2>1, TypeReopen DEF Crash
<1>3. ASSUME NEW p \in Procs, NEW c \in Calls, Call(p, c), UNCHANGED botched PROVE TypeInv'
  BY <1>3, TypeCall
<1>4. ASSUME NEW p \in Procs, Step(p), UNCHANGED botched PROVE TypeInv'
  BY <1>4, TypeStep
<1>5. ASSUME Flush, UNCHANGED botched PROVE TypeInv'
  BY <1>5 DEF Flush, maps, locks, life, TypeInv, TypeOK, Fits
<1>6. ASSUME Restart, UNCHANGED botched PROVE TypeInv'
  <2>1. botched' \in SUBSET Names /\ disk \in DiskType
    BY <1>6 DEF TypeInv, TypeOK
  <2>2. QED
    BY <1>6, <2>1, TypeReopen DEF Restart
<1>7. ASSUME UNCHANGED vars PROVE TypeInv'
  BY <1>7 DEF vars, TypeInv, TypeOK, Fits
<1>8. QED
  BY <1>1, <1>2, <1>3, <1>4, <1>5, <1>6, <1>7 DEF Next

-----------------------------------------------------------------------------
(*                   What a step does, and to whom                         *)

\* A call's step leaves the other goroutines where they are.
LEMMA Others ==
    ASSUME TypeInv, NEW p \in Procs, NEW q \in Procs, q # p,
           Step(p) \/ DropFailed(p) \/ \E c \in Calls : Call(p, c)
    PROVE  /\ pc'[q] = pc[q] /\ call'[q] = call[q] /\ sid'[q] = sid[q]
           /\ \A k \in Keys : stripe'[k] = q <=> stripe[k] = q
<1> USE DEF TypeInv, TypeOK
<1>1. CASE \E c \in Calls : Call(p, c)
  BY <1>1 DEF Call, Go, locks
<1>2. CASE Finish(p)
  BY <1>2, NoneAssumption DEF Finish, Go
<1>3. CASE Step(p) /\ ~Finish(p) /\ ~LockRow(p) /\ ~Drain(p)
  <2>1. CASE EnsureFast(p)
    BY <2>1 DEF EnsureFast, Go, locks
  <2>2. CASE Create(p)
    BY <2>2 DEF Create, Go, locks
  <2>3. CASE PrepareFast(p)
    BY <2>3 DEF PrepareFast, Go, locks
  <2>4. CASE PrepareLock(p)
    BY <1>3, <2>4 DEF PrepareLock, Go
  <2>5. CASE Persist(p)
    BY <2>5 DEF Persist, Go
  <2>6. CASE LookupSet(p)
    BY <1>3, <2>6 DEF LookupSet, Go, locks
  <2>7. CASE CheckDropped(p)
    BY <1>3, <2>7 DEF CheckDropped, Go, locks
  <2>8. CASE CloseIter(p)
    BY <2>8 DEF CloseIter, locks
  <2>9. CASE Unmap(p)
    BY <1>3, <2>9 DEF Unmap, Go
  <2>10. CASE Flag(p)
    BY <2>10 DEF Flag, Go, locks
  <2>11. CASE Seal(p)
    BY <2>11 DEF Seal, Go
  <2>12. CASE CloseCall(p)
    BY <2>12 DEF CloseCall, Go, locks
  <2>13. QED
    BY <1>3, <2>1, <2>2, <2>3, <2>4, <2>5, <2>6, <2>7, <2>8, <2>9, <2>10, <2>11, <2>12
       DEF Step, CreateFails, Write, OpenIter, Drop, Close
<1>4. CASE LockRow(p)
  BY <1>4, NoneAssumption DEF LockRow, Go
<1>5. CASE Drain(p)
  <2>1. PICK k \in Keys : stripe[k] = None /\ stripe' = [stripe EXCEPT ![k] = p]
    BY <1>5 DEF Drain
  <2>2. QED
    BY <1>5, <2>1, NoneAssumption DEF Drain, Go
<1>6. CASE DropFailed(p)
  BY <1>2, <1>6 DEF DropFailed
<1>7. QED
  BY <1>1, <1>2, <1>3, <1>4, <1>5, <1>6

-----------------------------------------------------------------------------
(*                          IDs are not used twice                         *)

\* What a disk holds, or ever held, under an ID, it holds below its next one.
Spent(d) == \A i \in Ids : d.rec[i] # None \/ d.rows[i] # {} \/ i \in d.retired => i < d.next

IdInv ==
    /\ nextID = disk.next /\ Spent(disk) /\ Spent(durable)
    /\ \A n \in Names : byName[n] # None => byName[n] < nextID
    /\ \A p \in Procs : sid[p] # None => sid[p] < nextID
    /\ \A i \in dropped : i < nextID

\* IdInv holds at the start, ...
LEMMA IdInit == Init => IdInv
  BY DEF Init, IdInv, Spent, EmptyDisk

\* ... after Open, which takes up where the disk's record says, ...
LEMMA IdReopen ==
    ASSUME TypeInv, NEW d \in DiskType, Spent(d), Spent(durable), Reopen(d)
    PROVE  IdInv'
<1>1. nextID' = d.next /\ disk' = d /\ durable' = durable /\ dropped' = {} /\ \A p \in Procs : sid'[p] = None
  BY LoadedFits DEF Reopen, Spent
<1>2. ASSUME NEW n \in Names, byName'[n] # None PROVE byName'[n] < nextID'
  <2>1. byName'[n] \in Ids /\ d.rec[byName'[n]] = n
    BY <1>2, LoadedFits DEF Reopen
  <2>2. QED
    BY <1>1, <2>1, NoneAssumption DEF Spent
<1>3. QED
  BY <1>1, <1>2 DEF IdInv, Spent

\* ... after a call's step, ...
LEMMA IdStep ==
    ASSUME TypeInv, IdInv, NEW p \in Procs,
           Step(p) \/ DropFailed(p) \/ \E c \in Calls : Call(p, c)
    PROVE  IdInv'
<1> USE DEF TypeInv, TypeOK
<1>1. ASSUME disk' = disk, nextID' = nextID, durable' \in {disk, durable},
             \A n \in Names : byName'[n] \in {byName[n], None, sid[p]},
             sid'[p] \in {sid[p], None} \cup {byName[n] : n \in Names},
             \A i \in dropped' : i \in dropped \/ (i = sid[p] /\ sid[p] # None)
      PROVE  IdInv'
  <2>1. ASSUME NEW q \in Procs, sid'[q] # None PROVE sid'[q] < nextID'
    BY <1>1, <2>1, Others DEF IdInv
  <2>2. QED
    BY <1>1, <2>1 DEF IdInv, Spent
<1>2. CASE \E c \in Calls : Call(p, c)
  BY <1>1, <1>2 DEF Call, maps
<1>3. CASE EnsureFast(p)
  BY <1>1, <1>3, FitsAt DEF EnsureFast, Lookup, maps
<1>4. CASE Create(p)
  <2>1. CASE Lookup(call[p].name) # None
    BY <1>1, <1>4, <2>1, FitsAt DEF Create, Lookup, maps
  <2>2. CASE Lookup(call[p].name) = None
    <3>1. /\ nextID \in Ids /\ disk' = [disk EXCEPT !.rec[nextID] = call[p].name, !.next = nextID + 1]
          /\ byName' = [byName EXCEPT ![call[p].name] = nextID] /\ nextID' = nextID + 1
          /\ sid' = [sid EXCEPT ![p] = nextID] /\ durable' = durable
      BY <1>4, <2>2 DEF Create
    <3>2. /\ disk'.next = nextID + 1 /\ disk'.rows = disk.rows /\ disk'.retired = disk.retired
          /\ \A i \in Ids : i # nextID => disk'.rec[i] = disk.rec[i]
      BY <3>1 DEF DiskType
    <3>3. \A i \in Ids : i \in Nat
      BY DEF Ids
    <3>4. Spent(disk')
      <4>1. ASSUME NEW i \in Ids, i < nextID \/ i = nextID PROVE i < nextID + 1
        BY <3>1, <3>3, <4>1
      <4>2. QED
        BY <3>2, <4>1 DEF IdInv, Spent
    <3>5. \A n \in Names : byName'[n] # None => byName'[n] < nextID'
      BY <3>1, <3>3 DEF IdInv
    <3>6. \A q \in Procs : sid'[q] # None => sid'[q] < nextID'
      BY <3>1, <3>3 DEF IdInv
    <3>7. \A i \in dropped' : i < nextID'
      BY <1>4, <2>2, <3>1, <3>3 DEF Create, IdInv
    <3>8. QED
      BY <3>1, <3>2, <3>4, <3>5, <3>6, <3>7 DEF IdInv
  <2>3. QED
    BY <2>1, <2>2
<1>5. CASE CreateFails(p)
  BY <1>1, <1>5, FitsAt DEF CreateFails, Finish
<1>6. CASE \/ PrepareFast(p) \/ PrepareLock(p) \/ LockRow(p) \/ CheckDropped(p) \/ CloseIter(p)
           \/ Drain(p) \/ Seal(p) \/ CloseCall(p) \/ OpenIter(p)
  BY <1>1, <1>6
     DEF PrepareFast, PrepareLock, LockRow, CheckDropped, CloseIter, Drain, Seal, CloseCall, OpenIter, Finish, maps
<1>7. CASE LookupSet(p)
  BY <1>1, <1>7, FitsAt DEF LookupSet, Lookup, Finish, maps
<1>8. CASE Unmap(p)
  BY <1>1, <1>8, FitsAt DEF Unmap, Finish
<1>9. CASE Flag(p)
  <2>1. sid[p] \in Ids
    BY <1>9, FitsAt DEF Flag, Dropping
  <2>2. QED
    BY <1>1, <1>9, <2>1, NoneAssumption DEF Flag
<1>10. CASE Close(p)
  BY <1>1, <1>10 DEF Close, Finish, maps
<1>11. CASE DropFailed(p)
  BY <1>1, <1>11, FitsAt DEF DropFailed, Finish
<1>12. CASE Persist(p)
  <2>1. sid[p] \in Ids /\ disk' = [disk EXCEPT !.rec[sid[p]] = call[p].name]
    BY <1>12, FitsAt DEF Persist, AtRow
  <2>2. /\ disk'.next = disk.next /\ disk'.rows = disk.rows /\ disk'.retired = disk.retired
        /\ \A i \in Ids : i # sid[p] => disk'.rec[i] = disk.rec[i]
    BY <2>1 DEF DiskType
  <2>3. QED
    BY <1>12, <2>1, <2>2, NoneAssumption DEF Persist, maps, IdInv, Spent
<1>13. CASE Write(p)
  <2>1. sid[p] \in Ids /\ sid[p] < nextID
    BY <1>13, FitsAt, NoneAssumption DEF Write, AtRow, IdInv
  <2>2. /\ disk'.next = disk.next /\ disk'.rec = disk.rec /\ disk'.retired = disk.retired
        /\ \A i \in Ids : i # sid[p] => disk'.rows[i] = disk.rows[i]
    BY <1>13, <2>1 DEF Write, DiskType
  <2>3. Spent(disk')
    BY <2>1, <2>2 DEF IdInv, Spent
  <2>4. \A q \in Procs : sid'[q] \in {sid[q], None}
    BY <1>13 DEF Write, Finish
  <2>5. QED
    BY <1>13, <2>2, <2>3, <2>4 DEF Write, maps, IdInv
<1>14. CASE Drop(p)
  <2>1. sid[p] \in Ids /\ sid[p] < nextID
    BY <1>14, FitsAt, NoneAssumption DEF Drop, Dropping, IdInv
  <2>2. /\ disk'.next = disk.next /\ disk'.retired = disk.retired \cup {sid[p]}
        /\ \A i \in Ids : i # sid[p] => disk'.rows[i] = disk.rows[i] /\ disk'.rec[i] = disk.rec[i]
    BY <1>14, <2>1 DEF Drop, DiskType
  <2>3. Spent(disk')
    BY <2>1, <2>2 DEF IdInv, Spent
  <2>4. \A q \in Procs : sid'[q] \in {sid[q], None}
    BY <1>14 DEF Drop, Finish
  <2>5. QED
    BY <1>14, <2>2, <2>3, <2>4 DEF Drop, maps, IdInv
<1>15. QED
  BY <1>2, <1>3, <1>4, <1>5, <1>6, <1>7, <1>8, <1>9, <1>10, <1>11, <1>12, <1>13, <1>14 DEF Step

\* ... and so after every step.
LEMMA IdNext == TypeInv /\ IdInv /\ [Next]_vars => IdInv'
<1> SUFFICES ASSUME TypeInv, IdInv, [Next]_vars PROVE IdInv'
  OBVIOUS
<1>1. ASSUME NEW p \in Procs, Step(p) \/ DropFailed(p) \/ \E c \in Calls : Call(p, c) PROVE IdInv'
  BY <1>1, IdStep
<1>2. ASSUME Crash \/ Restart PROVE IdInv'
  BY <1>2, IdReopen DEF Crash, Restart, TypeInv, TypeOK, IdInv
<1>3. ASSUME Flush PROVE IdInv'
  BY <1>3 DEF Flush, maps, IdInv, Spent
<1>4. ASSUME UNCHANGED vars PROVE IdInv'
  BY <1>4 DEF vars, IdInv, Spent
<1>5. QED
  BY <1>1, <1>2, <1>3, <1>4 DEF Next

\* TypeInv and IdInv hold in every state, however many goroutines, names, rows and IDs there are
\* (ensureSet, loadSchemas, nextSetID).
THEOREM IdsHold == Spec => [](TypeInv /\ IdInv)
<1>1. Init => TypeInv /\ IdInv
  BY TypeInit, IdInit
<1>2. (TypeInv /\ IdInv) /\ [Next]_vars => (TypeInv /\ IdInv)'
  BY TypeNext, IdNext
<1>3. QED
  BY <1>1, <1>2, PTL DEF Spec

\* ensureSet never hands out an ID under which something is stored, or was before a drop that
\* committed, whatever crashes, failing batches and dropped sets came before.
THEOREM SetsAreBornEmpty == Spec => FreshSetIsEmpty
<1>1. ASSUME TypeInv, IdInv, NEW i \in Ids, NEW p \in Procs, Create(p),
             disk.rec[i] = None, disk'.rec[i] # None
      PROVE  disk.rows[i] = {} /\ i \notin disk.retired
  <2>1. disk' = [disk EXCEPT !.rec[nextID] = call[p].name, !.next = nextID + 1]
    BY <1>1 DEF Create, maps
  <2>2. i = nextID
    BY <1>1, <2>1 DEF TypeInv, TypeOK, DiskType
  <2>3. ~(nextID < nextID)
    <3>1. i \in Int
      BY DEF Ids
    <3>2. QED
      BY <2>2, <3>1
  <2>4. QED
    BY <1>1, <2>2, <2>3 DEF IdInv, Spent
<1>2. TypeInv /\ IdInv =>
        [\A i \in Ids :
           (\E p \in Procs : Create(p)) /\ disk.rec[i] = None /\ disk'.rec[i] # None =>
               disk.rows[i] = {} /\ i \notin disk.retired]_vars
  BY <1>1
<1>3. QED
  BY <1>2, IdsHold, PTL DEF FreshSetIsEmpty

-----------------------------------------------------------------------------
(*                           Close and the locks                           *)
\* Nothing enters a closed store, and Close closes an empty one.
LEMMA CloseStep ==
    ASSUME TypeInv, NoUseAfterClose, NEW p \in Procs,
           Step(p) \/ DropFailed(p) \/ \E c \in Calls : Call(p, c)
    PROVE  NoUseAfterClose'
<1> USE DEF TypeInv, TypeOK
<1>1. ASSUME closed' = closed, \A q \in Procs : iters'[q] # 0 => iters[q] # 0 \/ ~closed,
             pc'[p] \in {"idle", "closing"} \/ ~closed
      PROVE  NoUseAfterClose'
  <2>1. ASSUME NEW q \in Procs, closed' PROVE pc'[q] \in {"idle", "closing"} /\ iters'[q] = 0
    BY <1>1, <2>1, Others DEF NoUseAfterClose, Inside
  <2>2. QED
    BY <2>1 DEF NoUseAfterClose, Inside
<1>2. pc[p] \notin {"idle", "closing"} => ~closed
  BY DEF NoUseAfterClose, Inside
<1>3. CASE \E c \in Calls : Call(p, c)
  BY <1>1, <1>3 DEF Call, life
<1>4. CASE CloseCall(p)
  BY <1>1, <1>4 DEF CloseCall, Go
<1>5. CASE CloseIter(p)
  BY <1>1, <1>5 DEF CloseIter
<1>6. CASE Close(p)
  <2>1. CASE closed \/ \E q \in Procs : iters[q] > 0
    BY <1>1, <1>6, <2>1 DEF Close, Finish, Go
  <2>2. CASE ~(closed \/ \E q \in Procs : iters[q] > 0)
    <3>1. \A q \in Procs : iters'[q] = 0
      BY <1>6, <2>2 DEF Close
    <3>2. \A q \in Procs : pc[q] \in {"idle", "closing"}
      BY <1>6 DEF Close, Inside
    <3>3. \A q \in Procs : pc'[q] \in {"idle", "closing"}
      BY <1>6, <3>2 DEF Close, Finish, Go
    <3>4. QED
      BY <3>1, <3>3 DEF NoUseAfterClose, Inside
  <2>3. QED
    BY <2>1, <2>2
<1>7. CASE OpenIter(p)
  BY <1>1, <1>2, <1>7 DEF OpenIter
<1>8. CASE EnsureFast(p) \/ Create(p) \/ CreateFails(p) \/ PrepareFast(p) \/ PrepareLock(p) \/ Persist(p)
  BY <1>1, <1>2, <1>8 DEF EnsureFast, Create, CreateFails, PrepareFast, PrepareLock, Persist, life
<1>9. CASE LookupSet(p) \/ LockRow(p) \/ CheckDropped(p) \/ Write(p)
  BY <1>1, <1>2, <1>9 DEF LookupSet, LockRow, CheckDropped, Write, life
<1>10. CASE Unmap(p) \/ Flag(p) \/ Drain(p) \/ Seal(p) \/ Drop(p) \/ DropFailed(p)
  BY <1>1, <1>2, <1>10 DEF Unmap, Flag, Drain, Seal, Drop, DropFailed, life
<1>11. QED
  BY <1>3, <1>4, <1>5, <1>6, <1>7, <1>8, <1>9, <1>10 DEF Step

\* After Close has torn the store down no operation is inside it and no iterator is open, for any
\* number of goroutines (acquire, Close, iterOpen).
THEOREM NobodyInAClosedStore == Spec => []NoUseAfterClose
<1>1. Init => NoUseAfterClose
  BY DEF Init, NoUseAfterClose
<1>2. TypeInv /\ NoUseAfterClose /\ [Next]_vars => NoUseAfterClose'
  <2> SUFFICES ASSUME TypeInv, NoUseAfterClose, [Next]_vars PROVE NoUseAfterClose'
    OBVIOUS
  <2>1. ASSUME NEW p \in Procs, Step(p) \/ DropFailed(p) \/ \E c \in Calls : Call(p, c)
        PROVE  NoUseAfterClose'
    BY <2>1, CloseStep
  <2>2. ASSUME Crash \/ Restart PROVE NoUseAfterClose'
    BY <2>2 DEF Crash, Restart, Reopen, NoUseAfterClose
  <2>3. ASSUME Flush \/ UNCHANGED vars PROVE NoUseAfterClose'
    BY <2>3 DEF Flush, life, vars, NoUseAfterClose, Inside
  <2>4. QED
    BY <2>1, <2>2, <2>3 DEF Next
<1>3. QED
  BY <1>1, <1>2, IdsHold, PTL DEF Spec

\* What a goroutine at its place holds, and what a holder is doing.
Held(p) ==
    /\ \A k \in Keys : stripe[k] = p =>
          pc[p] \in {"check", "write", "prepare", "persist", "drain", "seal", "drop"}
    /\ pc[p] \in {"prepare", "persist"} =>
          (call[p].op = "update" <=> \E k \in Keys : stripe[k] = p)
    /\ pc[p] \in {"prepare", "persist"} /\ call[p].op = "update" => stripe[call[p].key] = p
    /\ pc[p] \in {"check", "write"} /\ ~(AssumeNew /\ call[p].op = "put") => stripe[call[p].key] = p
    /\ pc[p] = "drain" => \A j, k \in Keys : stripe[k] = p /\ j < k => stripe[j] = p
    /\ pc[p] \in {"seal", "drop"} => \A k \in Keys : stripe[k] = p
    /\ \A i \in Ids : smu[i] = p => pc[p] \in {"persist", "drop"} /\ i = sid[p]
    /\ pc[p] \in {"persist", "drop"} => smu[sid[p]] = p

LockInv == \A p \in Procs : Held(p)

\* Only p's own steps change what p holds.
LEMMA HeldByOthers ==
    ASSUME TypeInv, LockInv, NEW p \in Procs, NEW q \in Procs, q # p,
           Step(p) \/ DropFailed(p) \/ \E c \in Calls : Call(p, c)
    PROVE  Held(q)'
<1> USE DEF TypeInv, TypeOK
<1>1. \A i \in Ids : smu'[i] = q <=> smu[i] = q
  <2>1. CASE Finish(p)
    BY <2>1, NoneAssumption DEF Finish
  <2>2. CASE Persist(p)
    <3>1. sid[p] \in Ids /\ smu[sid[p]] = p /\ smu' = [smu EXCEPT ![sid[p]] = None]
      BY <2>2, FitsAt DEF Persist, AtRow, LockInv, Held
    <3>2. QED
      BY <3>1, NoneAssumption
  <2>3. CASE smu' = smu
    BY <2>3
  <2>4. CASE PrepareLock(p) \/ Seal(p)
    BY <2>1, <2>4, NoneAssumption DEF PrepareLock, Seal
  <2>5. CASE Create(p) \/ EnsureFast(p) \/ PrepareFast(p) \/ LookupSet(p) \/ LockRow(p) \/ CheckDropped(p)
    BY <2>1, <2>3, <2>5 DEF Create, EnsureFast, PrepareFast, LookupSet, LockRow, CheckDropped, locks
  <2>6. CASE CloseIter(p) \/ Unmap(p) \/ Flag(p) \/ Drain(p) \/ CloseCall(p) \/ \E c \in Calls : Call(p, c)
    BY <2>1, <2>3, <2>6 DEF CloseIter, Unmap, Flag, Drain, CloseCall, Call, locks
  <2>7. QED
    BY <2>1, <2>2, <2>4, <2>5, <2>6 DEF Step, CreateFails, Write, OpenIter, Drop, Close, DropFailed
<1>2. /\ pc'[q] = pc[q] /\ call'[q] = call[q] /\ sid'[q] = sid[q]
      /\ \A k \in Keys : stripe'[k] = q <=> stripe[k] = q
  BY Others
<1>3. Held(q)
  BY DEF LockInv
<1>4. pc[q] \in {"prepare", "persist", "check", "write"} => call[q].key \in Keys
  BY FitsAt DEF AtRow
<1>5. pc[q] \in {"persist", "drop"} => sid[q] \in Ids
  BY FitsAt DEF AtRow, Dropping
<1>6. QED
  BY <1>1, <1>2, <1>3, <1>4, <1>5 DEF Held

\* p's own steps take what its next place needs, and give it back.
LEMMA HeldOwn ==
    ASSUME TypeInv, LockInv, NEW p \in Procs,
           Step(p) \/ DropFailed(p) \/ \E c \in Calls : Call(p, c)
    PROVE  Held(p)'
<1> USE DEF TypeInv, TypeOK
<1>0. Held(p) /\ NoneAssumption
  BY NoneAssumption DEF LockInv
<1>1. CASE Finish(p)
  BY <1>0, <1>1 DEF Finish, Go, Held, NoneAssumption
<1>2. CASE \E c \in Calls : Call(p, c)
  <2>1. PICK c \in Calls : Call(p, c)
    BY <1>2
  <2>2. /\ pc'[p] = FirstLabel(c) /\ pc[p] = "idle" /\ UNCHANGED <<stripe, smu>>
        /\ c.op \in {"put", "drop", "update", "delete", "scan"}
    <3>1. c.op \in RowOps \cup {"drop", "scan", "close"} /\ c.op # "close"
      BY <2>1 DEF Calls, RowOps, Call
    <3>2. QED
      BY <2>1, <3>1 DEF Call, Go, RowOps, locks
  <2>3. pc'[p] \in {"ensure", "unmap", "lookup"}
    BY <2>2 DEF FirstLabel
  <2>4. QED
    BY <1>0, <2>2, <2>3 DEF Held
<1>3. CASE EnsureFast(p) \/ Create(p)
  <2>1. /\ pc[p] \in {"ensure", "create"} /\ pc'[p] \in {"create", AfterEnsure(call[p])}
        /\ UNCHANGED <<stripe, smu, call>> /\ call[p].op \in RowOps
    BY <1>3, FitsAt DEF EnsureFast, Create, Go, locks
  <2>2. \/ pc'[p] \in {"create", "lock"}
        \/ pc'[p] = "prepare" /\ call[p].op = "put"
    BY <2>1 DEF AfterEnsure
  <2>3. QED
    BY <1>0, <2>1, <2>2 DEF Held
<1>4. CASE PrepareFast(p)
  <2>1. /\ pc[p] = "prepare" /\ pc'[p] = AfterPrepare(call[p]) /\ UNCHANGED <<stripe, smu, call>>
        /\ call[p].op \in {"put", "update"}
    BY <1>4, FitsAt DEF PrepareFast, Go, locks, AtRow, RowOps, Fits
  <2>2. \/ pc'[p] = "write" /\ call[p].op = "update"
        \/ pc'[p] = "check" /\ AssumeNew /\ call[p].op = "put"
        \/ pc'[p] = "lock" /\ call[p].op = "put"
    BY <2>1 DEF AfterPrepare
  <2>3. QED
    BY <1>0, <2>1, <2>2 DEF Held
<1>5. CASE PrepareLock(p) /\ ~Finish(p)
  <2>1. /\ pc[p] = "prepare" /\ pc'[p] = "persist" /\ UNCHANGED <<stripe, call, sid>>
        /\ sid[p] \in Ids /\ smu' = [smu EXCEPT ![sid[p]] = p]
    BY <1>5, FitsAt DEF PrepareLock, Go, AtRow
  <2>2. QED
    BY <1>0, <2>1 DEF Held
<1>6. CASE Persist(p)
  <2>1. /\ pc[p] = "persist" /\ pc'[p] = AfterPrepare(call[p]) /\ UNCHANGED <<stripe, call, sid>>
        /\ sid[p] \in Ids /\ smu' = [smu EXCEPT ![sid[p]] = None] /\ call[p].op \in {"put", "update"}
    BY <1>6, FitsAt DEF Persist, Go, AtRow, RowOps, Fits
  <2>2. \/ pc'[p] = "write" /\ call[p].op = "update"
        \/ pc'[p] = "check" /\ AssumeNew /\ call[p].op = "put"
        \/ pc'[p] = "lock" /\ call[p].op = "put"
    BY <2>1 DEF AfterPrepare
  <2>3. QED
    BY <1>0, <2>1, <2>2 DEF Held, NoneAssumption
<1>7. CASE LookupSet(p) /\ ~Finish(p)
  <2>1. pc[p] = "lookup" /\ pc'[p] \in {"ensure", "open", "lock"} /\ UNCHANGED <<stripe, smu, call>>
    BY <1>7 DEF LookupSet, Go, locks
  <2>2. QED
    BY <1>0, <2>1 DEF Held
<1>8. CASE LockRow(p)
  <2>1. /\ pc[p] = "lock" /\ pc'[p] = "check" /\ UNCHANGED <<smu, call, sid>>
        /\ call[p].key \in Keys /\ stripe' = [stripe EXCEPT ![call[p].key] = p]
    BY <1>8, FitsAt DEF LockRow, Go, AtRow
  <2>2. QED
    BY <1>0, <2>1 DEF Held
<1>9. CASE CheckDropped(p) /\ ~Finish(p)
  <2>1. /\ pc[p] = "check" /\ pc'[p] = AfterCheck(call[p]) /\ UNCHANGED <<stripe, smu, call>>
        /\ call[p].key \in Keys
    BY <1>9, FitsAt DEF CheckDropped, Go, locks, AtRow
  <2>2. \/ pc'[p] = "write"
        \/ pc'[p] = "prepare" /\ call[p].op = "update"
    BY <2>1 DEF AfterCheck
  <2>3. QED
    BY <1>0, <2>1, <2>2 DEF Held
<1>10. CASE CloseIter(p)
  BY <1>0, <1>10 DEF CloseIter, locks, Held
<1>11. CASE Unmap(p) /\ ~Finish(p)
  <2>1. pc[p] = "unmap" /\ pc'[p] = "flag" /\ UNCHANGED <<stripe, smu, call>>
    BY <1>11 DEF Unmap, Go
  <2>2. QED
    BY <1>0, <2>1 DEF Held
<1>12. CASE Flag(p)
  <2>1. pc[p] = "flag" /\ pc'[p] = "drain" /\ UNCHANGED <<stripe, smu, call>>
    BY <1>12 DEF Flag, Go, locks
  <2>2. QED
    BY <1>0, <2>1 DEF Held
<1>13. CASE Drain(p)
  <2>1. PICK k \in Keys : /\ \A j \in Keys : j < k => stripe[j] = p
                          /\ stripe' = [stripe EXCEPT ![k] = p]
                          /\ Go(p, IF \A j \in Keys : j <= k THEN "seal" ELSE "drain")
    BY <1>13 DEF Drain
  <2>2. pc[p] = "drain" /\ UNCHANGED <<smu, call, sid>> /\ \A j \in Keys : j \in Nat
    BY <1>13, SetsAssumption DEF Drain
  <2>3. CASE \A j \in Keys : j <= k
    <3>1. \A j \in Keys : stripe'[j] = p
      <4>1. ASSUME NEW j \in Keys PROVE j = k \/ j < k
        BY <2>2, <2>3
      <4>2. QED
        BY <2>1, <4>1
    <3>2. pc'[p] = "seal"
      BY <2>1, <2>3 DEF Go
    <3>3. QED
      BY <1>0, <2>2, <3>1, <3>2 DEF Held
  <2>4. CASE ~\A j \in Keys : j <= k
    <3>1. \A i, j \in Keys : stripe'[j] = p /\ i < j => stripe'[i] = p
      BY <1>0, <2>1, <2>2 DEF Held
    <3>2. pc'[p] = "drain"
      BY <2>1, <2>4 DEF Go
    <3>3. QED
      BY <1>0, <2>2, <3>1, <3>2 DEF Held
  <2>5. QED
    BY <2>3, <2>4
<1>14. CASE Seal(p)
  <2>1. /\ pc[p] = "seal" /\ pc'[p] = "drop" /\ UNCHANGED <<stripe, call, sid>>
        /\ sid[p] \in Ids /\ smu' = [smu EXCEPT ![sid[p]] = p]
    BY <1>14, FitsAt DEF Seal, Go, Dropping
  <2>2. QED
    BY <1>0, <2>1 DEF Held
<1>15. CASE CloseCall(p)
  <2>1. pc[p] = "idle" /\ pc'[p] = "closing" /\ UNCHANGED <<stripe, smu>>
    BY <1>15 DEF CloseCall, Go, locks
  <2>2. QED
    BY <1>0, <2>1 DEF Held
<1>16. QED
  BY <1>1, <1>2, <1>3, <1>4, <1>5, <1>6, <1>7, <1>8, <1>9, <1>10, <1>11, <1>12, <1>13, <1>14, <1>15
     DEF Step, CreateFails, Write, OpenIter, Drop, Close, DropFailed

\* LockInv holds at the start, ...
LEMMA LockInit == Init => LockInv
  BY NoneAssumption DEF Init, LockInv, Held

\* ... and after every step.
LEMMA LockNext == TypeInv /\ LockInv /\ [Next]_vars => LockInv'
<1> SUFFICES ASSUME TypeInv, LockInv, [Next]_vars PROVE LockInv'
  OBVIOUS
<1>1. ASSUME NEW p \in Procs, Step(p) \/ DropFailed(p) \/ \E c \in Calls : Call(p, c) PROVE LockInv'
  <2>1. ASSUME NEW q \in Procs PROVE Held(q)'
    BY <1>1, HeldOwn, HeldByOthers
  <2>2. QED
    BY <2>1 DEF LockInv
<1>2. ASSUME Crash \/ Restart PROVE LockInv'
  BY <1>2, NoneAssumption DEF Crash, Restart, Reopen, LockInv, Held
<1>3. ASSUME Flush \/ UNCHANGED vars PROVE LockInv'
  BY <1>3 DEF Flush, locks, vars, LockInv, Held
<1>4. QED
  BY <1>1, <1>2, <1>3 DEF Next

\* Who is waited for: nobody waits for a goroutine that holds s.mu, or for one outside the store;
\* a holder of a stripe that waits for a stripe is draining them all.
LEMMA WaitedFor ==
    ASSUME TypeInv, LockInv, NEW p \in Procs, NEW q \in Procs, WaitsFor(p, q)
    PROVE  /\ pc[p] \in {"prepare", "write", "open", "seal"} => pc[q] \in {"persist", "drop"}
           /\ pc[p] \in {"lock", "drain"} =>
                 pc[q] \in {"check", "write", "prepare", "persist", "drain", "seal", "drop"}
           /\ pc[p] \in {"lock", "drain", "prepare", "write", "open", "seal", "closing"}
           /\ pc[q] \notin {"idle", "closing"}
<1>1. pc[p] \in {"prepare", "write", "open", "seal"} => sid[p] \in Ids
  BY FitsAt DEF AtRow, Dropping
<1>2. pc[p] = "lock" => call[p].key \in Keys
  BY FitsAt DEF AtRow
<1>3. CASE pc[p] \in {"prepare", "write", "open", "seal"}
  BY <1>1, <1>3 DEF WaitsFor, LockInv, Held
<1>4. CASE pc[p] = "lock"
  BY <1>2, <1>4 DEF WaitsFor, LockInv, Held
<1>5. CASE pc[p] = "drain"
  BY <1>5 DEF WaitsFor, LockInv, Held
<1>6. CASE pc[p] = "closing"
  BY <1>6 DEF WaitsFor, Inside
<1>7. QED
  BY <1>3, <1>4, <1>5, <1>6 DEF WaitsFor

\* Two DropSets that drain the stripes cannot each hold one the other waits for: who holds the
\* lowest is ahead of everybody.
LEMMA DrainsInOrder ==
    ASSUME TypeInv, LockInv, NEW p \in Procs, NEW q \in Procs, NEW r \in Procs,
           pc[p] = "drain", pc[q] = "drain", pc[r] = "drain", WaitsFor(p, q), WaitsFor(q, r)
    PROVE  FALSE
<1>1. \A i \in Keys : i \in Nat
  BY SetsAssumption
<1>2. PICK k \in Keys : p # q /\ stripe[k] = q /\ \A j \in Keys : j < k => stripe[j] = p
  BY DEF WaitsFor
<1>3. PICK m \in Keys : q # r /\ stripe[m] = r /\ \A j \in Keys : j < m => stripe[j] = q
  BY DEF WaitsFor
<1>4. \A i, j \in Keys : /\ stripe[i] = q /\ j < i => stripe[j] = q
                         /\ stripe[i] = r /\ j < i => stripe[j] = r
  BY DEF LockInv, Held
<1>5. CASE k < m
  BY <1>2, <1>3, <1>4, <1>5
<1>6. CASE m < k
  BY <1>2, <1>3, <1>4, <1>6
<1>7. CASE k = m
  BY <1>2, <1>3, <1>7
<1>8. QED
  BY <1>1, <1>5, <1>6, <1>7

\* The locks are taken in an order that leaves no goroutines waiting for each other in a circle,
\* for any number of goroutines and stripes (lockAll, lockKeys, s.mu, lifeMu).
THEOREM NoDeadlock == Spec => []NoCircularWait
<1>1. Spec => []LockInv
  <2>1. (TypeInv /\ IdInv) /\ LockInv /\ [Next]_vars => LockInv'
    BY LockNext
  <2>2. QED
    BY <2>1, LockInit, IdsHold, PTL DEF Spec
<1>2. TypeInv /\ IdInv /\ LockInv => NoCircularWait
  <2> SUFFICES ASSUME TypeInv, LockInv, NEW ring \in SUBSET Procs, ring # {},
                      \A p \in ring : \E q \in ring : WaitsFor(p, q)
               PROVE  FALSE
    BY DEF NoCircularWait
  <2>1. \A p \in ring : pc[p] \notin {"persist", "drop"}
    BY WaitedFor
  <2>2. \A p \in ring : pc[p] \notin {"prepare", "write", "open", "seal"}
    BY <2>1, WaitedFor
  <2>3. \A p, q \in ring : WaitsFor(p, q) => pc[q] \in {"lock", "drain"}
    BY <2>2, WaitedFor
  <2>4. \A p, q \in ring : WaitsFor(p, q) /\ pc[p] \in {"lock", "drain"} => pc[q] = "drain"
    BY <2>3, WaitedFor
  <2>5. PICK p \in ring : pc[p] = "drain"
    BY <2>3, <2>4
  <2>6. PICK q \in ring : WaitsFor(p, q) /\ pc[q] = "drain"
    BY <2>4, <2>5
  <2>7. PICK r \in ring : WaitsFor(q, r) /\ pc[r] = "drain"
    BY <2>4, <2>6
  <2>8. QED
    BY <2>5, <2>6, <2>7, DrainsInOrder
<1>3. QED
  BY <1>1, <1>2, IdsHold, PTL

-----------------------------------------------------------------------------
(*                    The maps, the records and the rows                   *)

\* p has found the set alive, and holds a lock that keeps it so.
Past(p) ==
    \/ pc[p] = "persist"
    \/ pc[p] = "prepare" /\ call[p].op = "update"
    \/ pc[p] = "write" /\ ~(AssumeNew /\ call[p].op = "put")

\* A mapped set is alive, and its record has its name.
MappedInv ==
    \A n \in Names : byName[n] # None =>
        byName[n] \notin dropped /\ byName[n] \notin disk.retired /\ disk.rec[byName[n]] = n

Gone(d) == \A i \in d.retired : d.rec[i] = None /\ (~AssumeNew => d.rows[i] = {})

\* A writer's set has the name it was looked up by, or is gone and flagged.
WriterInv(p) ==
    pc[p] \in AtRow =>
        /\ sid[p] \in disk.retired \/ disk.rec[sid[p]] = call[p].name
        /\ sid[p] \in disk.retired => sid[p] \in dropped
        /\ Past(p) => sid[p] \notin disk.retired

\* A set that is being dropped is not mapped, not gone, and nobody else's to drop.
DropperInv(p) ==
    pc[p] \in Dropping =>
        /\ sid[p] \notin disk.retired /\ disk.rec[sid[p]] = call[p].name
        /\ \A n \in Names : byName[n] # sid[p]
        /\ pc[p] # "flag" => sid[p] \in dropped
        /\ \A q \in Procs : q # p /\ pc[q] \in Dropping => sid[q] # sid[p]

\* A stored set is mapped or being dropped.
ShownInv ==
    \A n \in Names \ botched : \A i \in Ids : disk.rec[i] = n =>
        byName[n] = i \/ \E q \in Procs : pc[q] \in Dropping /\ sid[q] = i

SetInv ==
    /\ MappedInv /\ Gone(disk) /\ Gone(durable) /\ ShownInv
    /\ \A p \in Procs : WriterInv(p) /\ DropperInv(p)

\* SetInv holds at the start.
LEMMA SetInit == Init => SetInv
  BY NoneAssumption
     DEF Init, SetInv, MappedInv, Gone, ShownInv, WriterInv, DropperInv, EmptyDisk, AtRow, Dropping

\* What lookupSet finds is alive and has the name it was asked for.
LEMMA LookupSound ==
    ASSUME TypeInv, SetInv, NEW n \in Names
    PROVE  /\ Lookup(n) = byName[n]
           /\ Lookup(n) # None =>
                 /\ Lookup(n) \in Ids /\ Lookup(n) \notin disk.retired /\ disk.rec[Lookup(n)] = n
  BY DEF Lookup, SetInv, MappedInv, TypeInv, TypeOK

\* A step that changes neither the maps nor the disk, and neither begins nor ends a drop.
LEMMA QuietStep ==
    ASSUME TypeInv, SetInv, NEW p \in Procs,
           Step(p) \/ DropFailed(p) \/ \E c \in Calls : Call(p, c),
           byName' = byName, dropped' = dropped, disk' = disk, botched' = botched, durable' \in {durable, disk},
           WriterInv(p)',
           pc[p] \in Dropping <=> pc'[p] \in Dropping,
           pc'[p] \in Dropping =>
               sid'[p] = sid[p] /\ call'[p] = call[p] /\ (pc'[p] # "flag" => pc[p] # "flag")
    PROVE  SetInv'
<1>1. ASSUME NEW q \in Procs
      PROVE  /\ q # p => pc'[q] = pc[q] /\ call'[q] = call[q] /\ sid'[q] = sid[q]
             /\ pc'[q] \in Dropping <=> pc[q] \in Dropping
             /\ pc'[q] \in Dropping =>
                   sid'[q] = sid[q] /\ call'[q] = call[q] /\ (pc'[q] # "flag" => pc[q] # "flag")
  BY Others
<1>2. ASSUME NEW q \in Procs PROVE WriterInv(q)'
  BY <1>1 DEF SetInv, WriterInv, Past
<1>3. ASSUME NEW q \in Procs PROVE DropperInv(q)'
  BY <1>1 DEF SetInv, DropperInv
<1>4. ShownInv'
  BY <1>1 DEF SetInv, ShownInv
<1>5. MappedInv' /\ Gone(disk)' /\ Gone(durable)'
  BY DEF SetInv, MappedInv, Gone
<1>6. QED
  BY <1>2, <1>3, <1>4, <1>5 DEF SetInv

\* A call that returns, having changed nothing, from a place outside DropSet.
LEMMA QuietFinish ==
    ASSUME TypeInv, SetInv, NEW p \in Procs, Step(p), Finish(p), pc[p] \notin Dropping,
           byName' = byName, dropped' = dropped, disk' = disk, botched' = botched, durable' \in {durable, disk}
    PROVE  SetInv'
<1>1. pc'[p] = "idle"
  BY DEF Finish, Go, TypeInv, TypeOK
<1>2. WriterInv(p)' /\ pc'[p] \notin Dropping
  BY <1>1 DEF WriterInv, AtRow, Dropping
<1>3. QED
  BY <1>2, QuietStep

\* Most steps are quiet; persistSchema writes what the record says already.
LEMMA QuietSteps ==
    ASSUME TypeInv, SetInv, LockInv, NEW p \in Procs, UNCHANGED botched,
           \/ EnsureFast(p) \/ PrepareFast(p) \/ PrepareLock(p) \/ Persist(p) \/ LookupSet(p)
           \/ LockRow(p) \/ CheckDropped(p) \/ OpenIter(p) \/ CloseIter(p) \/ Drain(p) \/ Seal(p)
           \/ CloseCall(p) \/ Close(p) \/ CreateFails(p)
    PROVE  SetInv'
<1> USE DEF TypeInv, TypeOK
<1>0. Step(p) /\ WriterInv(p) /\ DropperInv(p)
  BY DEF Step, SetInv
<1>1. CASE EnsureFast(p)
  <2>1. pc[p] = "ensure" /\ call[p].name \in Names /\ UNCHANGED <<byName, dropped, disk, durable, call>>
    BY <1>1, FitsAt DEF EnsureFast, maps
  <2>2. CASE Lookup(call[p].name) = None
    <3>1. pc'[p] = "create"
      BY <1>1, <2>2 DEF EnsureFast, Go
    <3>2. QED
      BY <1>0, <2>1, <3>1, QuietStep DEF WriterInv, AtRow, Dropping
  <2>3. CASE Lookup(call[p].name) # None
    <3>1. /\ pc'[p] \in {"prepare", "lock"} /\ sid'[p] = Lookup(call[p].name)
          /\ (pc'[p] = "prepare" => call[p].op # "update")
      BY <1>1, <2>1, <2>3, LookupSound DEF EnsureFast, Go, AfterEnsure
    <3>2. WriterInv(p)' /\ pc'[p] \notin Dropping
      BY <2>1, <2>3, <3>1, LookupSound DEF WriterInv, Past, Dropping
    <3>3. QED
      BY <1>0, <2>1, <3>2, QuietStep DEF Dropping
  <2>4. QED
    BY <2>2, <2>3
<1>2. CASE PrepareFast(p)
  <2>1. /\ pc[p] = "prepare" /\ pc'[p] = AfterPrepare(call[p])
        /\ UNCHANGED <<byName, dropped, disk, durable, call, sid>>
    BY <1>2 DEF PrepareFast, Go, maps
  <2>2. pc'[p] \in {"write", "check", "lock"} /\ (pc'[p] = "write" => call[p].op = "update")
    BY <2>1 DEF AfterPrepare
  <2>3. WriterInv(p)'
    BY <1>0, <2>1, <2>2 DEF WriterInv, Past, AtRow
  <2>4. QED
    BY <1>0, <2>1, <2>2, <2>3, QuietStep DEF Dropping
<1>3. CASE PrepareLock(p)
  <2>1. pc[p] = "prepare" /\ UNCHANGED <<byName, dropped, disk, durable>>
    BY <1>3 DEF PrepareLock, maps
  <2>2. CASE Finish(p)
    BY <1>0, <2>1, <2>2, QuietFinish DEF Dropping
  <2>3. CASE ~Finish(p)
    <3>1. sid[p] \notin dropped /\ pc'[p] = "persist" /\ UNCHANGED <<call, sid>>
      BY <1>3, <2>3 DEF PrepareLock, Go
    <3>2. WriterInv(p)'
      BY <1>0, <2>1, <3>1 DEF WriterInv, AtRow
    <3>3. QED
      BY <1>0, <2>1, <3>1, <3>2, QuietStep DEF Dropping
  <2>4. QED
    BY <2>2, <2>3
<1>4. CASE Persist(p)
  <2>1. /\ pc[p] = "persist" /\ pc'[p] = AfterPrepare(call[p]) /\ sid[p] \in Ids
        /\ UNCHANGED <<byName, dropped, durable, call, sid>>
        /\ disk' = [disk EXCEPT !.rec[sid[p]] = call[p].name]
    BY <1>4, FitsAt DEF Persist, Go, maps, AtRow
  <2>2. sid[p] \notin disk.retired /\ disk.rec[sid[p]] = call[p].name
    BY <1>0, <2>1 DEF WriterInv, Past, AtRow
  <2>3. disk' = disk
    BY <2>1, <2>2 DEF DiskType
  <2>4. pc'[p] \in {"write", "check", "lock"}
    BY <2>1 DEF AfterPrepare
  <2>5. WriterInv(p)'
    BY <1>0, <2>1, <2>2, <2>3 DEF WriterInv, Past
  <2>6. QED
    BY <1>0, <2>1, <2>3, <2>4, <2>5, QuietStep DEF Dropping
<1>5. CASE LookupSet(p)
  <2>1. pc[p] = "lookup" /\ call[p].name \in Names /\ UNCHANGED <<byName, dropped, disk, durable>>
    BY <1>5, FitsAt DEF LookupSet, maps
  <2>2. CASE Finish(p)
    BY <1>0, <2>1, <2>2, QuietFinish DEF Dropping
  <2>3. CASE ~Finish(p)
    <3>1. /\ UNCHANGED call
          /\ \/ pc'[p] = "ensure"
             \/ /\ Lookup(call[p].name) # None /\ sid'[p] = Lookup(call[p].name)
                /\ pc'[p] \in {"open", "lock"}
      BY <1>5, <2>3 DEF LookupSet, Go
    <3>2. WriterInv(p)'
      BY <2>1, <3>1, LookupSound DEF WriterInv, Past, AtRow
    <3>3. QED
      BY <1>0, <2>1, <3>1, <3>2, QuietStep DEF Dropping
  <2>4. QED
    BY <2>2, <2>3
<1>6. CASE LockRow(p)
  <2>1. /\ pc[p] = "lock" /\ pc'[p] = "check"
        /\ UNCHANGED <<byName, dropped, disk, durable, call, sid>>
    BY <1>6 DEF LockRow, Go, maps
  <2>2. WriterInv(p)'
    BY <1>0, <2>1 DEF WriterInv, Past, AtRow
  <2>3. QED
    BY <1>0, <2>1, <2>2, QuietStep DEF Dropping
<1>7. CASE CheckDropped(p)
  <2>1. pc[p] = "check" /\ UNCHANGED <<byName, dropped, disk, durable>>
    BY <1>7 DEF CheckDropped, maps
  <2>2. CASE Finish(p)
    BY <1>0, <2>1, <2>2, QuietFinish DEF Dropping
  <2>3. CASE ~Finish(p)
    <3>1. sid[p] \notin dropped /\ pc'[p] \in {"prepare", "write"} /\ UNCHANGED <<call, sid>>
      BY <1>7, <2>3 DEF CheckDropped, Go, AfterCheck
    <3>2. WriterInv(p)'
      BY <1>0, <2>1, <3>1 DEF WriterInv, AtRow
    <3>3. QED
      BY <1>0, <2>1, <3>1, <3>2, QuietStep DEF Dropping
  <2>4. QED
    BY <2>2, <2>3
<1>8. CASE OpenIter(p) \/ Close(p)
  <2>1. /\ pc[p] \in {"open", "closing"} /\ Finish(p) /\ UNCHANGED <<byName, dropped, disk>>
        /\ durable' \in {durable, disk}
    BY <1>8 DEF OpenIter, Close, maps
  <2>2. QED
    BY <1>0, <2>1, QuietFinish DEF Dropping
<1>9. CASE CloseIter(p)
  <2>1. pc[p] = "idle" /\ UNCHANGED <<byName, dropped, disk, durable, call, pc, sid>>
    BY <1>9 DEF CloseIter, maps
  <2>2. WriterInv(p)'
    BY <2>1 DEF WriterInv, AtRow
  <2>3. QED
    BY <1>0, <2>1, <2>2, QuietStep DEF Dropping
<1>10. CASE Drain(p) \/ Seal(p)
  <2>1. /\ pc[p] \in {"drain", "seal"} /\ pc'[p] \in {"drain", "seal", "drop"}
        /\ UNCHANGED <<byName, dropped, disk, durable, call, sid>>
    BY <1>10 DEF Drain, Seal, Go, maps
  <2>2. WriterInv(p)'
    BY <2>1 DEF WriterInv, AtRow
  <2>3. QED
    BY <1>0, <2>1, <2>2, QuietStep DEF Dropping
<1>11. CASE CloseCall(p)
  <2>1. pc[p] = "idle" /\ pc'[p] = "closing" /\ UNCHANGED <<byName, dropped, disk, durable>>
    BY <1>11 DEF CloseCall, Go, maps
  <2>2. WriterInv(p)'
    BY <2>1 DEF WriterInv, AtRow
  <2>3. QED
    BY <1>0, <2>1, <2>2, QuietStep DEF Dropping
<1>12. CASE CreateFails(p)
  <2>1. /\ pc[p] = "create" /\ call[p].name \in Names /\ byName[call[p].name] = None
        /\ Finish(p) /\ UNCHANGED <<dropped, disk, durable>>
        /\ byName' = [byName EXCEPT ![call[p].name] = None]
    BY <1>12, FitsAt, LookupSound DEF CreateFails
  <2>2. byName' = byName
    BY <2>1
  <2>3. QED
    BY <1>0, <2>1, <2>2, QuietFinish DEF Dropping
<1>13. QED
  BY <1>1, <1>2, <1>3, <1>4, <1>5, <1>6, <1>7, <1>8, <1>9, <1>10, <1>11, <1>12

\* ensureSet's slow path: the new ID is nobody's, and an unmapped name has only dying sets.
LEMMA SetCreate ==
    ASSUME TypeInv, IdInv, SetInv, NEW p \in Procs, Create(p), UNCHANGED botched
    PROVE  SetInv'
<1> USE DEF TypeInv, TypeOK
<1>0. /\ Step(p) /\ pc[p] = "create" /\ call[p].name \in Names /\ AfterEnsure(call[p]) \in {"prepare", "lock"}
      /\ (AfterEnsure(call[p]) = "prepare" => call[p].op # "update")
      /\ pc'[p] = AfterEnsure(call[p]) /\ call' = call /\ durable' = durable
  BY FitsAt DEF Create, Go, Step, AfterEnsure
<1>1. CASE Lookup(call[p].name) # None
  <2>1. UNCHANGED <<byName, dropped, disk>> /\ sid'[p] = Lookup(call[p].name)
    BY <1>1 DEF Create, maps
  <2>2. WriterInv(p)'
    BY <1>0, <1>1, <2>1, LookupSound DEF WriterInv, Past
  <2>3. QED
    BY <1>0, <2>1, <2>2, QuietStep DEF Dropping
<1>2. CASE Lookup(call[p].name) = None
  <2> DEFINE n == call[p].name
  <2>1. /\ nextID \in Ids /\ disk' = [disk EXCEPT !.rec[nextID] = n, !.next = nextID + 1]
        /\ byName' = [byName EXCEPT ![n] = nextID] /\ sid' = [sid EXCEPT ![p] = nextID]
        /\ dropped' = dropped /\ byName[n] = None
    BY <1>0, <1>2, LookupSound DEF Create
  <2>2. /\ disk'.rows = disk.rows /\ disk'.retired = disk.retired /\ disk'.rec[nextID] = n
        /\ \A i \in Ids : i # nextID => disk'.rec[i] = disk.rec[i]
    BY <2>1 DEF DiskType
  <2>3. ~(nextID < nextID)
    <3>1. nextID \in Int
      BY <2>1 DEF Ids
    <3>2. QED
      BY <3>1
  <2>4. /\ nextID \notin disk.retired /\ disk.rec[nextID] = None
        /\ \A m \in Names : byName[m] # nextID
        /\ \A q \in Procs : sid[q] # nextID
    BY <2>1, <2>3, NoneAssumption DEF IdInv, Spent
  <2>5. nextID \notin dropped
    BY <2>1, <2>3 DEF IdInv
  <2>6. MappedInv'
    BY <2>1, <2>2, <2>4, <2>5 DEF SetInv, MappedInv
  <2>7. Gone(disk)' /\ Gone(durable)'
    BY <1>0, <2>2, <2>4 DEF SetInv, Gone, DiskType
  <2>8. ASSUME NEW q \in Procs PROVE WriterInv(q)'
      <3>1. CASE q = p
      BY <1>0, <2>1, <2>2, <2>4, <3>1 DEF WriterInv, Past
    <3>2. CASE q # p
      <4>1. pc'[q] = pc[q] /\ call'[q] = call[q] /\ sid'[q] = sid[q]
        BY <1>0, <3>2, Others
      <4>2. pc[q] \in AtRow => sid[q] \in Ids /\ sid[q] # nextID
        BY <2>4, FitsAt
      <4>3. QED
        BY <2>1, <2>2, <4>1, <4>2 DEF SetInv, WriterInv, Past
    <3>3. QED
      BY <3>1, <3>2
  <2>9. ASSUME NEW q \in Procs PROVE DropperInv(q)'
      <3>1. CASE q = p
      BY <1>0, <3>1 DEF DropperInv, Dropping
    <3>2. CASE q # p
      <4>1. pc'[q] = pc[q] /\ call'[q] = call[q] /\ sid'[q] = sid[q]
        BY <1>0, <3>2, Others
      <4>2. pc[q] \in Dropping => sid[q] \in Ids /\ sid[q] # nextID
        BY <2>4, FitsAt
      <4>3. \A r \in Procs : pc'[r] \in Dropping => pc[r] \in Dropping /\ sid'[r] = sid[r]
        BY <1>0, Others DEF Dropping
      <4>4. \A m \in Names : byName'[m] \in {byName[m], nextID}
        BY <2>1
      <4>5. QED
        BY <2>1, <2>2, <4>1, <4>2, <4>3, <4>4 DEF SetInv, DropperInv
    <3>3. QED
      BY <3>1, <3>2
  <2>10. ShownInv'
      <3>1. \A q \in Procs : pc[q] \in Dropping => pc'[q] \in Dropping /\ sid'[q] = sid[q]
      BY <1>0, Others DEF Dropping
    <3>2. ASSUME NEW m \in Names \ botched, NEW i \in Ids, disk'.rec[i] = m
          PROVE  byName'[m] = i \/ \E q \in Procs : pc'[q] \in Dropping /\ sid'[q] = i
      <4>1. CASE i = nextID
        BY <2>1, <2>2, <3>2, <4>1
      <4>2. CASE i # nextID
        <5>1. byName[m] = i \/ \E q \in Procs : pc[q] \in Dropping /\ sid[q] = i
          BY <2>2, <3>2, <4>2 DEF SetInv, ShownInv
        <5>2. byName[m] = i => byName'[m] = i
          BY <2>1, NoneAssumption
        <5>3. QED
          BY <3>1, <5>1, <5>2
      <4>3. QED
        BY <4>1, <4>2
    <3>3. QED
      BY <3>2 DEF ShownInv
  <2>11. QED
    BY <2>6, <2>7, <2>8, <2>9, <2>10 DEF SetInv
<1>3. QED
  BY <1>1, <1>2

\* A write reaches a set that is not gone: its writer holds a stripe or s.mu that the drop needs.
LEMMA SetWrite ==
    ASSUME TypeInv, SetInv, NEW p \in Procs, Write(p), UNCHANGED botched
    PROVE  SetInv'
<1> USE DEF TypeInv, TypeOK
<1>1. /\ Step(p) /\ pc[p] = "write" /\ pc'[p] = "idle" /\ sid[p] \in Ids
      /\ UNCHANGED <<byName, dropped, durable>>
  BY FitsAt DEF Write, Step, Finish, Go, maps, AtRow
<1>2. /\ disk'.rec = disk.rec /\ disk'.retired = disk.retired
      /\ \A i \in Ids : i # sid[p] => disk'.rows[i] = disk.rows[i]
  BY <1>1 DEF Write, DiskType
<1>3. sid[p] \notin disk.retired \/ AssumeNew
  BY <1>1 DEF SetInv, WriterInv, Past, AtRow
<1>4. Gone(disk)' /\ Gone(durable)'
  <2>1. ASSUME NEW i \in disk.retired PROVE disk'.rec[i] = None /\ (~AssumeNew => disk'.rows[i] = {})
    BY <1>2, <1>3, <2>1 DEF SetInv, Gone, DiskType
  <2>2. QED
    BY <1>1, <1>2, <2>1 DEF SetInv, Gone
<1>5. MappedInv'
  BY <1>1, <1>2 DEF SetInv, MappedInv
<1>6. \A q \in Procs : /\ q # p => pc'[q] = pc[q] /\ call'[q] = call[q] /\ sid'[q] = sid[q]
                       /\ pc'[q] \in Dropping <=> pc[q] \in Dropping
                       /\ pc'[q] \in Dropping => sid'[q] = sid[q]
  BY <1>1, Others DEF Dropping
<1>7. ASSUME NEW q \in Procs PROVE WriterInv(q)' /\ DropperInv(q)'
  <2>1. CASE q = p
    BY <1>1, <2>1 DEF WriterInv, DropperInv, AtRow, Dropping
  <2>2. CASE q # p
    BY <1>1, <1>2, <1>6, <2>2 DEF SetInv, WriterInv, DropperInv, Past
  <2>3. QED
    BY <2>1, <2>2
<1>8. ShownInv'
  BY <1>1, <1>2, <1>6 DEF SetInv, ShownInv
<1>9. QED
  BY <1>4, <1>5, <1>7, <1>8 DEF SetInv

\* DropSet unmaps the name: from here on the set is this goroutine's to drop.
LEMMA SetUnmap ==
    ASSUME TypeInv, SetInv, NEW p \in Procs, Unmap(p), UNCHANGED botched
    PROVE  SetInv'
<1> USE DEF TypeInv, TypeOK
<1> DEFINE n == call[p].name
<1>1. Step(p) /\ pc[p] = "unmap" /\ n \in Names /\ UNCHANGED <<dropped, disk, durable>>
  BY FitsAt DEF Unmap, Step
<1>2. CASE byName[n] = None
  BY <1>1, <1>2, QuietFinish DEF Unmap, Dropping
<1>3. CASE byName[n] # None
  <2>1. /\ byName' = [byName EXCEPT ![n] = None] /\ sid'[p] = byName[n] /\ byName[n] \in Ids
        /\ pc'[p] = "flag" /\ call' = call
    BY <1>1, <1>3 DEF Unmap, Go
  <2>2. /\ \A m \in Names : byName'[m] \in {byName[m], None}
        /\ \A m \in Names : m # n => byName'[m] = byName[m]
        /\ byName'[n] = None
    BY <1>1, <2>1
  <2>3. \A q \in Procs : q # p => pc'[q] = pc[q] /\ call'[q] = call[q] /\ sid'[q] = sid[q]
    BY <1>1, Others
  <2>4. byName[n] \notin disk.retired /\ disk.rec[byName[n]] = n
    BY <1>1, <1>3 DEF SetInv, MappedInv
  <2>5. \A m \in Names : m # n => byName[m] # byName[n]
    BY <1>1, <1>3 DEF SetInv, MappedInv
  <2>6. \A q \in Procs : pc[q] \in Dropping => sid[q] # byName[n] /\ sid[q] \in Ids
    BY <1>1, FitsAt DEF SetInv, DropperInv
  <2>7. MappedInv'
    BY <1>1, <2>2 DEF SetInv, MappedInv
  <2>8. Gone(disk)' /\ Gone(durable)'
    BY <1>1 DEF SetInv, Gone
  <2>9. ASSUME NEW q \in Procs PROVE WriterInv(q)'
    BY <1>1, <2>1, <2>3 DEF SetInv, WriterInv, Past, AtRow
  <2>10. ASSUME NEW q \in Procs PROVE DropperInv(q)'
    <3>1. CASE q = p
      <4>1. \A m \in Names : byName'[m] # byName[n]
        BY <2>1, <2>2, <2>5, NoneAssumption
      <4>2. \A r \in Procs : r # p /\ pc'[r] \in Dropping => sid'[r] # byName[n]
        BY <2>3, <2>6
      <4>3. QED
        BY <1>1, <2>1, <2>4, <3>1, <4>1, <4>2 DEF DropperInv
    <3>2. CASE q # p
      <4>1. \A r \in Procs : r # q /\ pc[q] \in Dropping /\ pc'[r] \in Dropping => sid'[r] # sid[q]
        BY <2>1, <2>3, <2>6, <3>2 DEF SetInv, DropperInv
      <4>2. pc[q] \in Dropping => \A m \in Names : byName'[m] # sid[q]
        BY <2>2, <2>6, NoneAssumption DEF SetInv, DropperInv
      <4>3. QED
        BY <1>1, <2>3, <3>2, <4>1, <4>2 DEF SetInv, DropperInv
    <3>3. QED
      BY <3>1, <3>2
  <2>11. ShownInv'
    <3>1. \A q \in Procs : pc[q] \in Dropping => pc'[q] \in Dropping /\ sid'[q] = sid[q]
      BY <1>1, <2>3 DEF Dropping
    <3>2. pc'[p] \in Dropping
      BY <2>1 DEF Dropping
    <3>3. ASSUME NEW m \in Names \ botched, NEW i \in Ids, disk.rec[i] = m
          PROVE  byName'[m] = i \/ \E q \in Procs : pc'[q] \in Dropping /\ sid'[q] = i
      <4>1. byName[m] = i \/ \E q \in Procs : pc[q] \in Dropping /\ sid[q] = i
        BY <3>3 DEF SetInv, ShownInv
      <4>2. CASE byName[m] = i
        BY <2>1, <2>2, <3>2, <4>2
      <4>3. CASE \E q \in Procs : pc[q] \in Dropping /\ sid[q] = i
        BY <3>1, <4>3
      <4>4. QED
        BY <4>1, <4>2, <4>3
    <3>4. QED
      BY <1>1, <3>3 DEF ShownInv
  <2>12. QED
    BY <2>7, <2>8, <2>9, <2>10, <2>11 DEF SetInv
<1>4. QED
  BY <1>2, <1>3

\* The flag goes up on a set that is not mapped.
LEMMA SetFlag ==
    ASSUME TypeInv, SetInv, NEW p \in Procs, Flag(p), UNCHANGED botched
    PROVE  SetInv'
<1> USE DEF TypeInv, TypeOK
<1>1. /\ Step(p) /\ pc[p] = "flag" /\ pc'[p] = "drain" /\ UNCHANGED <<byName, disk, durable, call, sid>>
      /\ dropped' = dropped \cup {sid[p]}
  BY DEF Flag, Step, Go
<1>2. \A n \in Names : byName[n] # sid[p]
  BY <1>1 DEF SetInv, DropperInv, Dropping
<1>3. \A q \in Procs : /\ q # p => pc'[q] = pc[q]
                       /\ pc'[q] \in Dropping <=> pc[q] \in Dropping
                       /\ pc'[q] \in AtRow => pc'[q] = pc[q]
  BY <1>1, Others DEF Dropping, AtRow
<1>4. MappedInv'
  BY <1>1, <1>2 DEF SetInv, MappedInv
<1>5. Gone(disk)' /\ Gone(durable)'
  BY <1>1 DEF SetInv, Gone
<1>6. ASSUME NEW q \in Procs PROVE WriterInv(q)'
  BY <1>1, <1>3 DEF SetInv, WriterInv, Past
<1>7. ASSUME NEW q \in Procs PROVE DropperInv(q)'
  BY <1>1, <1>3 DEF SetInv, DropperInv
<1>8. ShownInv'
  BY <1>1, <1>3 DEF SetInv, ShownInv
<1>9. QED
  BY <1>4, <1>5, <1>6, <1>7, <1>8 DEF SetInv

\* The drop commits while it holds every stripe and s.mu: nobody is past the check of this set.
LEMMA SetDrop ==
    ASSUME TypeInv, SetInv, LockInv, NEW p \in Procs, Drop(p), UNCHANGED botched
    PROVE  SetInv'
<1> USE DEF TypeInv, TypeOK
<1>1. /\ Step(p) /\ pc[p] = "drop" /\ pc'[p] = "idle" /\ sid[p] \in Ids
      /\ UNCHANGED <<byName, dropped, durable>>
      /\ disk' = [disk EXCEPT !.rows[sid[p]] = {}, !.rec[sid[p]] = None, !.retired = @ \cup {sid[p]}]
  BY FitsAt DEF Drop, Step, Finish, Go, maps, Dropping
<1>2. /\ disk'.retired = disk.retired \cup {sid[p]} /\ disk'.rec[sid[p]] = None /\ disk'.rows[sid[p]] = {}
      /\ \A i \in Ids : i # sid[p] => disk'.rows[i] = disk.rows[i] /\ disk'.rec[i] = disk.rec[i]
  BY <1>1 DEF DiskType
<1>3. /\ \A n \in Names : byName[n] # sid[p]
      /\ sid[p] \in dropped
      /\ \A q \in Procs : q # p /\ pc[q] \in Dropping => sid[q] # sid[p]
  BY <1>1 DEF SetInv, DropperInv, Dropping
<1>4. \A q \in Procs : /\ q # p => pc'[q] = pc[q] /\ call'[q] = call[q] /\ sid'[q] = sid[q]
                       /\ pc'[q] \in Dropping => q # p
                       /\ pc'[q] \in AtRow => q # p
  BY <1>1, Others DEF Dropping, AtRow
<1>5. ASSUME NEW q \in Procs, q # p, Past(q) PROVE sid[q] # sid[p]
  <2>1. Held(q) /\ Held(p)
    BY DEF LockInv
  <2>2. pc[q] \in {"prepare", "persist", "write"} /\ call[q].key \in Keys
    BY <1>5, FitsAt DEF Past, AtRow
  <2>3. pc[q] = "persist" => smu[sid[q]] = q
    BY <2>1 DEF Held
  <2>4. pc[q] # "persist" => stripe[call[q].key] = q
    BY <1>5, <2>1, <2>2 DEF Held, Past
  <2>5. smu[sid[p]] = p /\ \A k \in Keys : stripe[k] = p
    BY <1>1, <2>1 DEF Held
  <2>6. QED
    BY <1>5, <2>2, <2>3, <2>4, <2>5
<1>6. MappedInv'
  BY <1>1, <1>2, <1>3 DEF SetInv, MappedInv
<1>7. Gone(disk)' /\ Gone(durable)'
  BY <1>1, <1>2 DEF SetInv, Gone, DiskType
<1>8. ASSUME NEW q \in Procs PROVE WriterInv(q)'
  <2>1. pc[q] \in AtRow => sid[q] \in Ids
    BY FitsAt
  <2>2. Past(q)' => pc'[q] \in AtRow
    BY DEF Past, AtRow
  <2>3. q # p => (Past(q)' => Past(q))
    BY <1>4 DEF Past
  <2>4. QED
    BY <1>1, <1>2, <1>3, <1>4, <1>5, <2>1, <2>2, <2>3 DEF SetInv, WriterInv
<1>9. ASSUME NEW q \in Procs PROVE DropperInv(q)'
  <2>1. pc[q] \in Dropping => sid[q] \in Ids
    BY FitsAt
  <2>2. QED
    BY <1>1, <1>2, <1>3, <1>4, <2>1 DEF SetInv, DropperInv
<1>10. ShownInv'
  <2>1. ASSUME NEW m \in Names \ botched, NEW i \in Ids, disk'.rec[i] = m
        PROVE  byName[m] = i \/ \E q \in Procs : pc'[q] \in Dropping /\ sid'[q] = i
    <3>1. i # sid[p] /\ disk.rec[i] = m
      BY <1>2, <2>1, NoneAssumption
    <3>2. byName[m] = i \/ \E q \in Procs : pc[q] \in Dropping /\ sid[q] = i
      BY <3>1 DEF SetInv, ShownInv
    <3>3. QED
      BY <1>4, <3>1, <3>2
  <2>2. QED
    BY <1>1, <2>1 DEF ShownInv
<1>11. QED
  BY <1>6, <1>7, <1>8, <1>9, <1>10 DEF SetInv

\* The drop's batch fails: the set is mapped again, and may hide one made meanwhile.
LEMMA SetDropFailed ==
    ASSUME TypeInv, SetInv, NEW p \in Procs, DropFailed(p)
    PROVE  SetInv'
<1> USE DEF TypeInv, TypeOK
<1> DEFINE n == call[p].name
<1>1. /\ pc[p] = "drop" /\ pc'[p] = "idle" /\ sid[p] \in Ids /\ n \in Names
      /\ UNCHANGED <<disk, durable>>
      /\ dropped' = dropped \ {sid[p]} /\ byName' = [byName EXCEPT ![n] = sid[p]]
      /\ botched' = botched \cup {n}
  BY FitsAt DEF DropFailed, Finish, Go, Dropping
<1>2. /\ sid[p] \notin disk.retired /\ disk.rec[sid[p]] = n
      /\ \A m \in Names : byName[m] # sid[p]
      /\ \A q \in Procs : q # p /\ pc[q] \in Dropping => sid[q] # sid[p]
  BY <1>1 DEF SetInv, DropperInv, Dropping
<1>3. \A q \in Procs : /\ q # p => pc'[q] = pc[q] /\ call'[q] = call[q] /\ sid'[q] = sid[q]
                       /\ pc'[q] \in Dropping => q # p
                       /\ pc'[q] \in AtRow => q # p
  BY <1>1, Others DEF Dropping, AtRow
<1>4. /\ byName'[n] = sid[p]
      /\ \A m \in Names : m # n => byName'[m] = byName[m]
  BY <1>1
<1>5. MappedInv'
  BY <1>1, <1>2, <1>4 DEF SetInv, MappedInv
<1>6. Gone(disk)' /\ Gone(durable)'
  BY <1>1 DEF SetInv, Gone
<1>7. ASSUME NEW q \in Procs PROVE WriterInv(q)'
  <2>1. Past(q)' => pc'[q] \in AtRow
    BY DEF Past, AtRow
  <2>2. q # p => (Past(q)' => Past(q))
    BY <1>3 DEF Past
  <2>3. QED
    BY <1>1, <1>2, <1>3, <2>1, <2>2 DEF SetInv, WriterInv
<1>8. ASSUME NEW q \in Procs PROVE DropperInv(q)'
  <2>1. pc'[q] \in Dropping => \A m \in Names : byName'[m] # sid[q]
    BY <1>2, <1>3, <1>4 DEF SetInv, DropperInv
  <2>2. QED
    BY <1>1, <1>2, <1>3, <2>1 DEF SetInv, DropperInv
<1>9. ShownInv'
  <2>1. ASSUME NEW m \in Names \ (botched \cup {n}), NEW i \in Ids, disk.rec[i] = m
        PROVE  byName'[m] = i \/ \E q \in Procs : pc'[q] \in Dropping /\ sid'[q] = i
    <3>1. byName[m] = i \/ \E q \in Procs : pc[q] \in Dropping /\ sid[q] = i
      BY <2>1 DEF SetInv, ShownInv
    <3>2. i # sid[p] /\ m # n
      BY <1>2, <2>1
    <3>3. QED
      BY <1>3, <1>4, <3>1, <3>2
  <2>2. QED
    BY <1>1, <2>1 DEF ShownInv
<1>10. QED
  BY <1>5, <1>6, <1>7, <1>8, <1>9 DEF SetInv

\* Open maps the last set of each name; on a disk where a name has two, the name is botched.
LEMMA SetReopen ==
    ASSUME TypeInv, SetInv, NEW d \in {disk, durable}, Reopen(d),
           \A n \in Names \ botched' : \A i, j \in Ids : d.rec[i] = n /\ d.rec[j] = n => i = j
    PROVE  SetInv'
<1> USE DEF TypeInv, TypeOK
<1>1. /\ d \in DiskType /\ disk' = d /\ durable' = durable /\ byName' = Loaded(d) /\ dropped' = {}
      /\ \A p \in Procs : pc'[p] = "idle"
  BY DEF Reopen
<1>2. Gone(d) /\ Gone(durable)
  BY DEF SetInv
<1>3. MappedInv'
  BY <1>1, <1>2, LoadedFits, NoneAssumption DEF MappedInv, Gone
<1>4. ShownInv'
  <2>1. ASSUME NEW n \in Names \ botched', NEW i \in Ids, d.rec[i] = n PROVE Loaded(d)[n] = i
    <3>1. Loaded(d)[n] # None
      BY <1>1, <2>1, LoadedFits
    <3>2. Loaded(d)[n] \in Ids /\ d.rec[Loaded(d)[n]] = n
      BY <1>1, <3>1, LoadedFits
    <3>3. QED
      BY <2>1, <3>2
  <2>2. QED
    BY <1>1, <2>1 DEF ShownInv
<1>5. ASSUME NEW p \in Procs PROVE WriterInv(p)' /\ DropperInv(p)'
  BY <1>1 DEF WriterInv, DropperInv, AtRow, Dropping
<1>6. Gone(disk)' /\ Gone(durable)'
  BY <1>1, <1>2 DEF Gone
<1>7. QED
  BY <1>3, <1>4, <1>5, <1>6 DEF SetInv

\* SetInv holds after every step.
LEMMA SetNext == TypeInv /\ IdInv /\ LockInv /\ SetInv /\ [Next]_vars => SetInv'
<1> SUFFICES ASSUME TypeInv, IdInv, LockInv, SetInv, [Next]_vars PROVE SetInv'
  OBVIOUS
<1>1. ASSUME NEW p \in Procs, NEW c \in Calls, Call(p, c), UNCHANGED botched PROVE SetInv'
  <2>1. pc[p] = "idle" /\ UNCHANGED <<byName, dropped, disk, durable>> /\ pc'[p] = FirstLabel(c)
    BY <1>1 DEF Call, Go, maps, TypeInv, TypeOK
  <2>2. c.op \in {"put", "drop", "update", "delete", "scan"}
    <3>1. c.op \in RowOps \cup {"drop", "scan", "close"} /\ c.op # "close"
      BY <1>1 DEF Calls, RowOps, Call
    <3>2. QED
      BY <3>1 DEF RowOps
  <2>3. pc'[p] \in {"ensure", "unmap", "lookup"}
    BY <2>1, <2>2 DEF FirstLabel
  <2>4. WriterInv(p)'
    BY <2>3 DEF WriterInv, AtRow
  <2>5. QED
    BY <1>1, <2>1, <2>3, <2>4, QuietStep DEF Dropping
<1>2. ASSUME NEW p \in Procs, Step(p), UNCHANGED botched PROVE SetInv'
  BY <1>2, QuietSteps, SetCreate, SetWrite, SetUnmap, SetFlag, SetDrop DEF Step
<1>3. ASSUME NEW p \in Procs, DropFailed(p) PROVE SetInv'
  BY <1>3, SetDropFailed
<1>4. ASSUME Crash PROVE SetInv'
  <2>1. ASSUME NEW n \in Names \ botched', NEW i \in Ids, NEW j \in Ids,
               durable.rec[i] = n, durable.rec[j] = n, i # j
        PROVE  FALSE
    <3>1. i < j \/ j < i
      BY <2>1 DEF Ids
    <3>2. n \in botched'
      BY <1>4, <2>1, <3>1 DEF Crash
    <3>3. QED
      BY <3>2
  <2>2. QED
    BY <1>4, <2>1, SetReopen DEF Crash
<1>5. ASSUME Restart, UNCHANGED botched PROVE SetInv'
  <2>1. \A p \in Procs : pc[p] \notin Dropping
    BY <1>5 DEF Restart, Dropping
  <2>2. \A n \in Names \ botched' : \A i, j \in Ids : disk.rec[i] = n /\ disk.rec[j] = n => i = j
    BY <1>5, <2>1 DEF SetInv, ShownInv
  <2>3. QED
    BY <1>5, <2>2, SetReopen DEF Restart
<1>6. ASSUME Flush, UNCHANGED botched PROVE SetInv'
  BY <1>6 DEF Flush, maps, SetInv, MappedInv, Gone, ShownInv, WriterInv, DropperInv, Past
<1>7. ASSUME UNCHANGED vars PROVE SetInv'
  BY <1>7 DEF vars, SetInv, MappedInv, Gone, ShownInv, WriterInv, DropperInv, Past
<1>8. QED
  BY <1>1, <1>2, <1>3, <1>4, <1>5, <1>6, <1>7 DEF Next

\* The four invariants hold in every state: what the theorems below rest on.
THEOREM SetsHold == Spec => [](TypeInv /\ IdInv /\ LockInv /\ SetInv)
<1>1. Init => LockInv /\ SetInv
  BY LockInit, SetInit
<1>2. (TypeInv /\ IdInv) /\ (LockInv /\ SetInv) /\ [Next]_vars => (LockInv /\ SetInv)'
  BY LockNext, SetNext
<1>3. QED
  BY <1>1, <1>2, IdsHold, PTL DEF Spec

\* Unless PutBatch takes no row lock, nothing is ever stored under an ID whose drop has committed
\* (setSchema.dropped, DropSet).
THEOREM NothingUnderRetiredIds == ASSUME ~AssumeNew PROVE Spec => []RetiredStayEmpty
<1>1. SetInv => RetiredStayEmpty
  BY DEF SetInv, Gone, RetiredStayEmpty
<1>2. QED
  BY <1>1, SetsHold, PTL

\* The map shows every stored set but those of names whose drop has failed or was cut short, and
\* reopening the store shows the same (ensureSet, DropSet, loadSchemas).
THEOREM MapAndRecordsAgree == Spec => []MapMatchesRecords
<1>1. TypeInv /\ SetInv => MapMatchesRecords
  BY DEF TypeInv, SetInv, MappedInv, ShownInv, MapMatchesRecords
<1>2. QED
  BY <1>1, SetsHold, PTL

==============================================================================
