--------------------------- MODULE WebJobs_proofs ---------------------------
(***************************************************************************)
(* Proofs about the job queue, for every set of jobs and every limit.      *)
(***************************************************************************)
EXTENDS WebJobs, TLAPS, FiniteSetTheorems

-----------------------------------------------------------------------------
(*                       Slots and the pending counter                     *)

\* An inventory action is neither counted nor refused.
QueueInv ==
    /\ exec \in [Jobs -> ExecStates]
    /\ QueueAccounted
    /\ \A j \in InvJobs : exec[j] \notin {"checked", "refused", "queued"}

\* The queue's goroutines in some states are a finite set.
LEMMA AtIsFinite ==
    ASSUME NEW S
    PROVE  IsFiniteSet(At(S)) /\ Cardinality(At(S)) \in Nat /\ At(S) \subseteq Jobs
<1>1. At(S) \subseteq Jobs
  BY DEF At
<1>2. IsFiniteSet(At(S))
  BY <1>1, JobsAssumption, FS_Subset
<1>3. QED
  BY <1>1, <1>2, FS_CardinalityType

\* Which of the program counters hold a slot.
LEMMA Counters ==
    /\ {"queued", "ended", "start"} \subseteq ExecStates
    /\ "start" \in Holding /\ "queued" \notin Holding /\ "ended" \notin Holding
BY DEF ExecStates, Holding

\* What one goroutine's step does to such a set.
LEMMA AtMoves ==
    ASSUME exec \in [Jobs -> ExecStates], NEW j \in Jobs, NEW pc \in ExecStates,
           exec' = [exec EXCEPT ![j] = pc], NEW S
    PROVE  At(S)' = IF j \notin InvJobs /\ pc \in S THEN At(S) \cup {j} ELSE At(S) \ {j}
BY DEF At

\* A step within the queue, within a slot or outside both disturbs nothing.
LEMMA StaysAccounted ==
    ASSUME QueueInv, NEW j \in Jobs, NEW pc \in ExecStates, exec' = [exec EXCEPT ![j] = pc],
           slots' = slots, pending' = pending,
           j \in InvJobs => pc \notin {"checked", "refused", "queued"},
           j \notin InvJobs => /\ exec[j] \in Holding <=> pc \in Holding
                               /\ exec[j] = "queued" <=> pc = "queued"
    PROVE  QueueInv'
<1>1. At(Holding)' = At(Holding)
  BY AtMoves DEF At, QueueInv
<1>2. At({"queued"})' = At({"queued"})
  BY AtMoves DEF At, QueueInv
<1>3. QED
  BY <1>1, <1>2 DEF QueueInv, QueueAccounted

LEMMA EnqueueAccounted ==
    ASSUME QueueInv, NEW j \in Jobs, Enqueue(j)
    PROVE  QueueInv'
<1>1. j \notin InvJobs /\ exec[j] = "checked" /\ pending' = pending + 1 /\ slots' = slots
      /\ exec' = [exec EXCEPT ![j] = "queued"]
  BY DEF Enqueue, Step, QueueInv
<1>0. j \notin At(Holding) /\ j \notin At({"queued"})
  BY <1>1 DEF At, Holding
<1>2. At(Holding)' = At(Holding) \ {j}
  BY <1>1, AtMoves, Counters DEF QueueInv
<1>3. At({"queued"})' = At({"queued"}) \cup {j}
  BY <1>1, AtMoves, Counters DEF QueueInv
<1>4. Cardinality(At({"queued"})') = Cardinality(At({"queued"})) + 1
  BY <1>0, <1>3, AtIsFinite, FS_AddElement
<1>5. Cardinality(slots) \in Nat /\ Cardinality(At({"queued"})) \in Nat
  BY AtIsFinite DEF QueueInv, QueueAccounted
<1>6. QueueAccounted'
  BY <1>0, <1>1, <1>2, <1>4, <1>5 DEF QueueInv, QueueAccounted
<1>7. QED
  BY <1>1, <1>6 DEF QueueInv, ExecStates

LEMMA TakeSlotAccounted ==
    ASSUME QueueInv, NEW j \in Jobs, TakeSlot(j)
    PROVE  QueueInv'
<1>1. /\ j \notin InvJobs /\ exec[j] = "queued" /\ pending' = pending /\ slots' = slots \cup {j}
      /\ exec' = [exec EXCEPT ![j] = "start"] /\ Cardinality(slots) < MaxConcurrent
  BY DEF TakeSlot, Step, QueueInv
<1>0. j \notin At(Holding) /\ j \in At({"queued"})
  BY <1>1 DEF At, Holding
<1>2. At(Holding)' = At(Holding) \cup {j}
  BY <1>1, AtMoves, Counters DEF QueueInv
<1>3. At({"queued"})' = At({"queued"}) \ {j}
  BY <1>1, AtMoves, Counters DEF QueueInv
<1>4. Cardinality(slots') = Cardinality(slots) + 1
  BY <1>0, <1>1, <1>2, AtIsFinite, FS_AddElement DEF QueueInv, QueueAccounted
<1>5. Cardinality(At({"queued"})') = Cardinality(At({"queued"})) - 1
  BY <1>0, <1>3, AtIsFinite, FS_RemoveElement
<1>6. Cardinality(slots) \in Nat /\ Cardinality(At({"queued"})) \in Nat
  BY AtIsFinite DEF QueueInv, QueueAccounted
<1>7. QueueAccounted'
  BY <1>1, <1>2, <1>4, <1>5, <1>6, LimitAssumption DEF QueueInv, QueueAccounted
<1>8. QED
  BY <1>1, <1>7 DEF QueueInv, ExecStates

LEMMA ReleaseAccounted ==
    ASSUME QueueInv, NEW j \in Jobs, Release(j)
    PROVE  QueueInv'
<1>1. /\ exec[j] = "release" /\ exec' = [exec EXCEPT ![j] = "ended"] /\ slots' = slots \ {j}
      /\ pending' = IF j \in InvJobs THEN pending ELSE pending - 1
  BY DEF Release, Step
<1>0. j \notin At({"queued"})
  BY <1>1 DEF At
<1>2. At(Holding)' = At(Holding) \ {j}
  BY <1>1, AtMoves, Counters DEF QueueInv
<1>3. At({"queued"})' = At({"queued"})
  <2>1. At({"queued"})' = At({"queued"}) \ {j}
    BY <1>1, AtMoves, Counters DEF QueueInv
  <2>2. QED
    BY <1>0, <2>1
<1>4. Cardinality(slots) \in Nat /\ Cardinality(At({"queued"})) \in Nat
  BY AtIsFinite DEF QueueInv, QueueAccounted
<1>5. CASE j \in InvJobs
  <2>1. slots' = slots
    BY <1>1, <1>5 DEF QueueInv, QueueAccounted, At
  <2>2. QueueAccounted'
    BY <1>1, <1>2, <1>3, <1>5, <2>1 DEF QueueInv, QueueAccounted
  <2>3. QED
    BY <1>1, <2>2 DEF QueueInv, ExecStates
<1>6. CASE j \notin InvJobs
  <2>1. j \in At(Holding)
    BY <1>1, <1>6 DEF At, Holding
  <2>2. Cardinality(slots') = Cardinality(slots) - 1
    BY <1>1, <2>1, AtIsFinite, FS_RemoveElement DEF QueueInv, QueueAccounted
  <2>3. QueueAccounted'
    BY <1>1, <1>2, <1>3, <1>4, <1>6, <2>2, LimitAssumption DEF QueueInv, QueueAccounted
  <2>4. QED
    BY <1>1, <2>3 DEF QueueInv, ExecStates
<1>7. QED
  BY <1>5, <1>6

\* The steps of an executor that leave slots and pending alone.
LEMMA ExecuteAccounted ==
    ASSUME QueueInv, NEW j \in Jobs, Execute(j)
    PROVE  QueueInv'
<1>1. CASE CreateJob(j)
  BY <1>1, StaysAccounted DEF CreateJob, Update, queue, Holding, ExecStates
<1>2. CASE CheckQueue(j)
  <2>1. PICK pc \in {"refused", "checked"} : exec' = [exec EXCEPT ![j] = pc]
    BY <1>2 DEF CheckQueue, Update, Step
  <2>2. exec[j] = "created" /\ j \notin InvJobs /\ slots' = slots /\ pending' = pending
    BY <1>2 DEF CheckQueue, queue
  <2>3. QED
    BY <2>1, <2>2, StaysAccounted DEF Holding, ExecStates
<1>3. CASE Refuse(j)
  BY <1>3, StaysAccounted DEF Refuse, Step, queue, Holding, ExecStates
<1>4. CASE Enqueue(j)
  BY <1>4, EnqueueAccounted
<1>5. CASE TakeSlot(j)
  BY <1>5, TakeSlotAccounted
<1>6. CASE StartInv(j)
  BY <1>6, StaysAccounted DEF StartInv, Step, queue, Holding, ExecStates
<1>7. CASE SetRunning(j)
  BY <1>7, StaysAccounted DEF SetRunning, Update, queue, Holding, ExecStates
<1>8. CASE Spawn(j)
  <2>1. PICK pc \in {"wait", "release"} : exec' = [exec EXCEPT ![j] = pc]
    BY <1>8 DEF Spawn, Update
  <2>2. exec[j] = "spawn" /\ slots' = slots /\ pending' = pending
    BY <1>8 DEF Spawn, queue
  <2>3. QED
    BY <2>1, <2>2, StaysAccounted DEF Holding, ExecStates
<1>9. CASE Wait(j)
  <2>1. PICK pc \in {"refresh", "final"} : exec' = [exec EXCEPT ![j] = pc]
    BY <1>9 DEF Wait, Step
  <2>2. exec[j] = "wait" /\ slots' = slots /\ pending' = pending
    BY <1>9 DEF Wait, queue
  <2>3. QED
    BY <2>1, <2>2, StaysAccounted DEF Holding, ExecStates
<1>10. CASE SkipRefresh(j)
  BY <1>10, StaysAccounted DEF SkipRefresh, Step, queue, Holding, ExecStates
<1>11. CASE BeginRefresh(j)
  BY <1>11 DEF BeginRefresh, queue, QueueInv, QueueAccounted, At
<1>12. CASE EndRefresh(j)
  BY <1>12, StaysAccounted DEF EndRefresh, Step, queue, Holding, ExecStates
<1>13. CASE Finish(j)
  BY <1>13, StaysAccounted DEF Finish, Update, queue, Holding, ExecStates
<1>14. CASE Release(j)
  BY <1>14, ReleaseAccounted
<1>15. CASE Deadline(j)
  BY <1>15 DEF Deadline, queue, QueueInv, QueueAccounted, At
<1>16. QED
  BY <1>1, <1>2, <1>3, <1>4, <1>5, <1>6, <1>7, <1>8, <1>9, <1>10, <1>11, <1>12, <1>13, <1>14, <1>15
     DEF Execute

\* A server that is gone has no goroutine and no queue.
LEMMA GoneAccounted ==
    ASSUME QueueInv, Gone
    PROVE  QueueInv'
<1>1. /\ exec' = [j \in Jobs |-> IF exec[j] = "new" THEN "new" ELSE "ended"]
      /\ slots' = {} /\ pending' = 0
  BY DEF Gone
<1>2. At(Holding)' = {} /\ At({"queued"})' = {}
  BY <1>1 DEF At, Holding
<1>3. QueueAccounted'
  BY <1>1, <1>2, FS_EmptySet, LimitAssumption DEF QueueAccounted
<1>4. exec' \in [Jobs -> ExecStates]
  BY <1>1 DEF ExecStates
<1>5. QED
  BY <1>1, <1>3, <1>4, JobsAssumption DEF QueueInv

LEMMA QueueStep ==
    ASSUME QueueInv, [Next]_vars
    PROVE  QueueInv'
<1>1. CASE Executor
  BY <1>1, ExecuteAccounted DEF Executor
<1>2. CASE Exit \/ KillAll
  BY <1>2, GoneAccounted DEF Exit, KillAll
<1>3. CASE UNCHANGED <<exec, slots, pending>>
  BY <1>3 DEF QueueInv, QueueAccounted, At
<1>4. (SaveJob \/ Process \/ Cancel \/ Streams \/ Clean \/ StatusRefresh \/ IntervalPasses \/ Drain \/ Start
        \/ UNCHANGED vars) => UNCHANGED <<exec, slots, pending>>
  BY DEF SaveJob, Process, Cancel, Streams, Clean, StatusRefresh, IntervalPasses, Drain, Start, vars, queue
<1>5. QED
  BY <1>1, <1>2, <1>3, <1>4 DEF Next

LEMMA QueueInit == Init => QueueInv
<1> SUFFICES ASSUME Init PROVE QueueInv
  OBVIOUS
<1>1. At(Holding) = {} /\ At({"queued"}) = {}
  BY DEF Init, At, Holding
<1>2. slots = {} /\ pending = 0
  BY DEF Init
<1>3. QueueAccounted
  BY <1>1, <1>2, FS_EmptySet, LimitAssumption DEF QueueAccounted
<1>4. QED
  BY <1>3, JobsAssumption DEF Init, QueueInv, ExecStates

(* However the requests interleave, whatever fails and wherever the server *)
(* dies, every slot and every unit of the counter belongs to a job on its  *)
(* way, and the limit holds.                                               *)
THEOREM QueueIsAccounted == Spec => []QueueAccounted
<1>1. QueueInv => QueueAccounted
  BY DEF QueueInv
<1>2. QED
  BY <1>1, QueueInit, QueueStep, PTL DEF Spec
-----------------------------------------------------------------------------
(*                         What command.json says                          *)

SaveRecs == [at : {"idle", "open", "write", "rename", "remove"}, rec : JobRecs \cup {NoJob},
             fd : {"tmp", "json", "gone"}]
FileVals == JobRecs \cup {NoJob, Empty, Torn}

TypeInv ==
    /\ server \in {"up", "draining", "down"} /\ restarts \in 0 .. MaxRestarts
    /\ obj \in [Jobs -> JobRecs \cup {NoJob}]
    /\ file \in [Jobs -> FileVals] /\ tmp \in [Jobs -> FileVals]
    /\ save \in [Jobs -> [Writers -> SaveRecs]]
    /\ exec \in [Jobs -> ExecStates] /\ cancel \in [Jobs -> {"idle", "signal", "flag", "done"}]
    /\ proc \in [Jobs -> {"none", "running", "ok", "bad"}] /\ log \in [Jobs -> 0 .. 1]
    /\ slots \subseteq Jobs /\ deadline \subseteq Jobs /\ signalled \subseteq Jobs /\ gone \subseteq Watched
    /\ seen \subseteq Jobs /\ skipped \subseteq Jobs
    /\ cleaner \in Jobs \cup {NoOne}
    /\ refresh \in [by : Jobs \cup {NoOne, AgiStatus}, snap : SUBSET Jobs]

\* Every copy of j's record: in memory, in the two files, and marshalled in a save.
Recs(j) == {obj[j], file[j], tmp[j], save[j]["exec"].rec, save[j]["cancel"].rec}
IsEnd(r) == r \in JobRecs /\ r.status \in Ended

Unstarted  == {"new", "created", "checked", "queued", "start", "spawn"}
Unfinished == Unstarted \cup {"wait", "refresh", "final"}

\* What a record says of the process and of the cancellation is so.
Honest(j, r) ==
    r \in JobRecs => /\ r.status = "completed" => proc[j] = "ok"
                     /\ r.status \in Ended => proc[j] # "running"
                     /\ r.why = "cancel" \/ r.cancelled => j \in signalled

(* While the executor is on its way no copy tells of an end; so whoever    *)
(* changes the process finds none that could become a lie.                 *)
CopiesInv(j) ==
    /\ \A r \in Recs(j) : Honest(j, r)
    /\ exec[j] \in Unfinished => \A r \in Recs(j) : ~IsEnd(r)
    /\ exec[j] \in Unstarted => proc[j] # "running"
    /\ exec[j] \in {"refresh", "final"} => Over(j)

(* The memory is never behind the file or a save under way, so a job that  *)
(* the cleaner finds ended cannot be cancelled any more.                   *)
MemoryInv(j) ==
    /\ exec[j] \notin {"new", "ended"} => obj[j] \in JobRecs
    /\ cancel[j] \in {"signal", "flag"} => obj[j] \in JobRecs
    /\ cancel[j] = "flag" => j \in signalled
    /\ obj[j] \in JobRecs =>
         /\ IsEnd(file[j]) => IsEnd(obj[j])
         /\ \A w \in Writers : /\ IsEnd(save[j][w].rec) => IsEnd(obj[j])
                               /\ save[j][w].at \in {"write", "rename", "remove"} /\ IsEnd(tmp[j]) => IsEnd(obj[j])
    /\ cleaner = j => /\ exec[j] = "ended" /\ cancel[j] \notin {"signal", "flag"}
                      /\ obj[j] \in JobRecs => IsEnd(obj[j])

DownInv ==
    server = "down" =>
        /\ cleaner = NoOne /\ refresh.by = NoOne
        /\ \A j \in Jobs : /\ obj[j] = NoJob /\ exec[j] \in {"new", "ended"} /\ cancel[j] = "idle"
                           /\ \A w \in Writers : save[j][w] = NotSaving

FileInv == TypeInv /\ DownInv /\ \A j \in Jobs : CopiesInv(j) /\ MemoryInv(j)

LEMMA FileInit == Init => FileInv
<1> SUFFICES ASSUME Init PROVE FileInv
  OBVIOUS
<1>1. TypeInv
  BY LimitAssumption DEF Init, TypeInv, FileVals, SaveRecs, NotSaving, ExecStates
<1>2. DownInv
  BY DEF Init, DownInv
<1>3. ASSUME NEW j \in Jobs PROVE CopiesInv(j) /\ MemoryInv(j)
  <2>1. obj[j] = NoJob /\ file[j] = NoJob /\ tmp[j] = NoJob /\ \A w \in Writers : save[j][w] = NotSaving
    BY DEF Init
  <2>2. exec[j] = "new" /\ proc[j] = "none" /\ cancel[j] = "idle" /\ cleaner # j
    BY ValuesAssumption DEF Init
  <2>3. \A r \in Recs(j) : r \notin JobRecs
    BY <2>1, ValuesAssumption DEF Recs, Writers, NotSaving
  <2>4. CopiesInv(j)
    BY <2>2, <2>3 DEF CopiesInv, Honest, IsEnd, Over
  <2>5. MemoryInv(j)
    BY <2>1, <2>2, ValuesAssumption DEF MemoryInv
  <2>6. QED
    BY <2>4, <2>5
<1>4. QED
  BY <1>1, <1>2, <1>3 DEF FileInv

\* A job that a step does not touch keeps its part of the invariant.
LEMMA Untouched ==
    ASSUME NEW j \in Jobs, CopiesInv(j), MemoryInv(j),
           obj'[j] = obj[j], file'[j] = file[j], tmp'[j] = tmp[j], save'[j] = save[j],
           exec'[j] = exec[j], cancel'[j] = cancel[j], proc'[j] = proc[j],
           signalled \subseteq signalled', cleaner' = j => cleaner = j
    PROVE  CopiesInv(j)' /\ MemoryInv(j)'
<1>1. CopiesInv(j)'
  BY DEF CopiesInv, Recs, Honest, IsEnd, Over
<1>2. MemoryInv(j)'
  BY DEF MemoryInv, IsEnd
<1>3. QED
  BY <1>1, <1>2

-----------------------------------------------------------------------------
(*                             Steps of a save                             *)

\* What a save does to the copies of the job it saves.
LEMMA SavedCopies ==
    ASSUME NEW j \in Jobs, CopiesInv(j),
           Recs(j)' \subseteq Recs(j) \cup {NoJob, Empty, Torn},
           exec' = exec, proc' = proc, signalled' = signalled
    PROVE  CopiesInv(j)'
BY ValuesAssumption DEF CopiesInv, Honest, IsEnd, Over

LEMMA SaveOpenKeeps ==
    ASSUME FileInv, NEW j \in Jobs, NEW w \in Writers, SaveOpen(j, w), SaveFrame
    PROVE  FileInv'
<1> USE DEF SaveFrame
<1>1. /\ save' = [save EXCEPT ![j][w] = [at |-> "write", rec |-> obj[j], fd |-> "tmp"]]
      /\ tmp' = [tmp EXCEPT ![j] = Empty] /\ file' = file /\ server # "down"
  BY DEF SaveOpen, Alive
<1>2. TypeInv'
  BY <1>1 DEF FileInv, TypeInv, SaveRecs, FileVals, queue, world, inv
<1>3. save \in [Jobs -> [Writers -> SaveRecs]] /\ tmp \in [Jobs -> FileVals]
  BY DEF FileInv, TypeInv
<1>4. Recs(j)' \subseteq Recs(j) \cup {Empty}
  BY <1>1, <1>3 DEF Recs, Writers
<1>5. CopiesInv(j)'
  BY <1>4, SavedCopies DEF FileInv, world
<1>6. MemoryInv(j)'
  BY <1>1, <1>3, ValuesAssumption DEF FileInv, MemoryInv, IsEnd, world
<1>7. \A k \in Jobs \ {j} : CopiesInv(k)' /\ MemoryInv(k)'
  BY <1>1, <1>3, Untouched DEF FileInv, world
<1>8. QED
  BY <1>1, <1>2, <1>5, <1>6, <1>7 DEF FileInv, DownInv

LEMMA SaveWriteKeeps ==
    ASSUME FileInv, NEW j \in Jobs, NEW w \in Writers, SaveWrite(j, w), SaveFrame
    PROVE  FileInv'
<1> USE DEF SaveFrame
<1> DEFINE s == save[j][w]
<1>1. /\ server # "down" /\ s.at = "write"
      /\ save' = [save EXCEPT ![j][w] = [NotSaving EXCEPT !.at = "rename"]]
      /\ tmp'  = IF s.fd = "tmp" THEN [tmp EXCEPT ![j] = Over0(@, s.rec)] ELSE tmp
      /\ file' = IF s.fd = "json" THEN [file EXCEPT ![j] = Over0(@, s.rec)] ELSE file
  BY DEF SaveWrite, Alive
<1>2. \A old : Over0(old, s.rec) \in {s.rec, Torn}
  BY DEF Over0
<1>3. /\ save \in [Jobs -> [Writers -> SaveRecs]] /\ tmp \in [Jobs -> FileVals] /\ file \in [Jobs -> FileVals]
      /\ s.rec \in FileVals
  BY DEF FileInv, TypeInv, SaveRecs, FileVals
<1>4. save' \in [Jobs -> [Writers -> SaveRecs]]
  BY <1>1, <1>3 DEF SaveRecs, NotSaving
<1>5. tmp' \in [Jobs -> FileVals] /\ file' \in [Jobs -> FileVals]
  BY <1>1, <1>2, <1>3 DEF FileVals
<1>6. TypeInv'
  BY <1>4, <1>5 DEF FileInv, TypeInv, queue, world, inv
<1>7. /\ tmp'[j] \in {tmp[j], s.rec, Torn} /\ file'[j] \in {file[j], s.rec, Torn}
      /\ save'[j][w] = [NotSaving EXCEPT !.at = "rename"]
      /\ \A v \in Writers \ {w} : save'[j][v] = save[j][v]
  BY <1>1, <1>2, <1>3
<1>8. Recs(j)' \subseteq Recs(j) \cup {NoJob, Torn}
  BY <1>7 DEF Recs, Writers, NotSaving
<1>9. CopiesInv(j)'
  BY <1>8, SavedCopies DEF FileInv, world
<1>10. MemoryInv(j)'
  <2>1. MemoryInv(j)
    BY DEF FileInv
  <2>2. ~IsEnd(Torn) /\ ~IsEnd(NoJob)
    BY ValuesAssumption DEF IsEnd
  <2>3. obj'[j] = obj[j] /\ exec'[j] = exec[j] /\ cancel'[j] = cancel[j] /\ signalled' = signalled /\ cleaner' = cleaner
    BY DEF world
  <2>4. save'[j][w].rec = NoJob
    BY <1>7 DEF NotSaving
  <2>5. obj[j] \in JobRecs => (IsEnd(file'[j]) \/ IsEnd(tmp'[j]) => IsEnd(obj[j]))
    BY <1>1, <1>7, <2>1, <2>2 DEF MemoryInv
  <2>6. QED
    BY <1>7, <2>1, <2>2, <2>3, <2>4, <2>5 DEF MemoryInv, IsEnd
<1>11. \A k \in Jobs \ {j} : CopiesInv(k)' /\ MemoryInv(k)'
  BY <1>1, <1>3, Untouched DEF FileInv, world
<1>12. QED
  BY <1>1, <1>6, <1>9, <1>10, <1>11 DEF FileInv, DownInv

\* Moved changes only where the pending writes land.
LEMMA MovedTypes ==
    ASSUME NEW s \in [Writers -> SaveRecs], NEW to \in [{"tmp", "json", "gone"} -> {"tmp", "json", "gone"}]
    PROVE  /\ Moved(s, to) \in [Writers -> SaveRecs]
           /\ \A v \in Writers : Moved(s, to)[v].at = s[v].at /\ Moved(s, to)[v].rec = s[v].rec
BY DEF Moved, SaveRecs

\* The end of a save, well or badly: the file may be what the temporary was.
LEMMA SaveEnds ==
    ASSUME FileInv, NEW j \in Jobs, NEW w \in Writers, SaveFrame, server # "down",
           save[j][w].at \in {"rename", "remove"},
           NEW s \in [Writers -> SaveRecs], save' = [save EXCEPT ![j] = s],
           \A v \in Writers : s[v].at = "idle" \/ s[v].at = save[j][v].at,
           \A v \in Writers : s[v].rec \in {NoJob, save[j][v].rec},
           tmp' = [tmp EXCEPT ![j] = NoJob],
           file' = file \/ file' = [file EXCEPT ![j] = tmp[j]]
    PROVE  FileInv'
<1> USE DEF SaveFrame
<1>1. save \in [Jobs -> [Writers -> SaveRecs]] /\ tmp \in [Jobs -> FileVals] /\ file \in [Jobs -> FileVals]
  BY DEF FileInv, TypeInv
<1>2. TypeInv'
  BY <1>1 DEF FileInv, TypeInv, FileVals, queue, world, inv
<1>3. Recs(j)' \subseteq Recs(j) \cup {NoJob}
  BY <1>1 DEF Recs, Writers
<1>4. CopiesInv(j)'
  BY <1>3, SavedCopies DEF FileInv, world
<1>5. MemoryInv(j)'
  <2>1. MemoryInv(j)
    BY DEF FileInv
  <2>2. ~IsEnd(NoJob) /\ tmp'[j] = NoJob /\ save'[j] = s /\ file'[j] \in {file[j], tmp[j]}
    BY <1>1, ValuesAssumption DEF IsEnd
  <2>3. obj'[j] = obj[j] /\ exec'[j] = exec[j] /\ cancel'[j] = cancel[j] /\ signalled' = signalled /\ cleaner' = cleaner
    BY DEF world
  <2>4. obj[j] \in JobRecs => (IsEnd(file'[j]) => IsEnd(obj[j]))
    BY <2>1, <2>2 DEF MemoryInv
  <2>5. obj[j] \in JobRecs => \A v \in Writers : IsEnd(save'[j][v].rec) => IsEnd(obj[j])
    BY <2>1, <2>2 DEF MemoryInv
  <2>6. QED
    BY <2>1, <2>2, <2>3, <2>4, <2>5 DEF MemoryInv, IsEnd
<1>6. \A k \in Jobs \ {j} : CopiesInv(k)' /\ MemoryInv(k)'
  BY <1>1, Untouched DEF FileInv, world
<1>7. QED
  BY <1>2, <1>4, <1>5, <1>6 DEF FileInv, DownInv

LEMMA SaveRenameKeeps ==
    ASSUME FileInv, NEW j \in Jobs, NEW w \in Writers, SaveRename(j, w), SaveFrame
    PROVE  FileInv'
<1> DEFINE s == [save[j] EXCEPT ![w] = NotSaving]
           to == [tmp |-> "json", json |-> "gone", gone |-> "gone"]
<1>1. save[j] \in [Writers -> SaveRecs] /\ save \in [Jobs -> [Writers -> SaveRecs]]
  BY DEF FileInv, TypeInv
<1>2. s \in [Writers -> SaveRecs]
  BY <1>1 DEF SaveRecs, NotSaving
<1>3. to \in [{"tmp", "json", "gone"} -> {"tmp", "json", "gone"}]
  OBVIOUS
<1>4. /\ server # "down" /\ save[j][w].at = "rename"
      /\ file' = [file EXCEPT ![j] = tmp[j]] /\ tmp' = [tmp EXCEPT ![j] = NoJob]
      /\ save' = [save EXCEPT ![j] = Moved(s, to)]
  BY <1>1 DEF SaveRename, Alive
<1>5. \A v \in Writers : s[v].at \in {"idle", save[j][v].at} /\ s[v].rec \in {NoJob, save[j][v].rec}
  BY <1>1 DEF NotSaving
<1> HIDE DEF s, to
<1> DEFINE m == Moved(s, to)
<1>6. m \in [Writers -> SaveRecs] /\ \A v \in Writers : m[v].at = s[v].at /\ m[v].rec = s[v].rec
  BY <1>2, <1>3, MovedTypes
<1>7. /\ \A v \in Writers : m[v].at = "idle" \/ m[v].at = save[j][v].at
      /\ \A v \in Writers : m[v].rec \in {NoJob, save[j][v].rec}
  BY <1>5, <1>6
<1>8. save' = [save EXCEPT ![j] = m]
  BY <1>4
<1> HIDE DEF m
<1>9. QED
  BY <1>4, <1>6, <1>7, <1>8, SaveEnds

LEMMA SaveRemoveKeeps ==
    ASSUME FileInv, NEW j \in Jobs, NEW w \in Writers, SaveRemove(j, w), SaveFrame
    PROVE  FileInv'
<1> DEFINE s == [save[j] EXCEPT ![w] = NotSaving]
           to == [tmp |-> "gone", json |-> "json", gone |-> "gone"]
<1>1. save[j] \in [Writers -> SaveRecs] /\ save \in [Jobs -> [Writers -> SaveRecs]]
  BY DEF FileInv, TypeInv
<1>2. CASE save[j][w].at = "remove"
  <2>1. s \in [Writers -> SaveRecs]
    BY <1>1 DEF SaveRecs, NotSaving
  <2>2. to \in [{"tmp", "json", "gone"} -> {"tmp", "json", "gone"}]
    OBVIOUS
  <2>3. /\ server # "down" /\ file' = file /\ tmp' = [tmp EXCEPT ![j] = NoJob]
        /\ save' = [save EXCEPT ![j] = Moved(s, to)]
    BY <1>1, <1>2 DEF SaveRemove, Alive
  <2>4. \A v \in Writers : s[v].at \in {"idle", save[j][v].at} /\ s[v].rec \in {NoJob, save[j][v].rec}
    BY <1>1 DEF NotSaving
  <2> HIDE DEF s, to
  <2> DEFINE m == Moved(s, to)
  <2>5. m \in [Writers -> SaveRecs] /\ \A v \in Writers : m[v].at = s[v].at /\ m[v].rec = s[v].rec
    BY <2>1, <2>2, MovedTypes
  <2>6. /\ \A v \in Writers : m[v].at = "idle" \/ m[v].at = save[j][v].at
        /\ \A v \in Writers : m[v].rec \in {NoJob, save[j][v].rec}
    BY <2>4, <2>5
  <2>7. save' = [save EXCEPT ![j] = m]
    BY <2>3
  <2> HIDE DEF m
  <2>8. QED
    BY <1>2, <2>3, <2>5, <2>6, <2>7, SaveEnds
<1>3. CASE save[j][w].at = "rename"
  <2> USE DEF SaveFrame
  <2>1. server # "down" /\ file' = file /\ tmp' = tmp /\ save' = [save EXCEPT ![j][w].at = "remove"]
    BY <1>3 DEF SaveRemove, Alive
  <2>0. save' \in [Jobs -> [Writers -> SaveRecs]]
    BY <1>1, <2>1 DEF SaveRecs
  <2>2. TypeInv'
    BY <2>0, <2>1 DEF FileInv, TypeInv, queue, world, inv
  <2>3. Recs(j)' \subseteq Recs(j)
    BY <1>1, <2>1 DEF Recs, Writers, SaveRecs
  <2>4. CopiesInv(j)'
    BY <2>3, SavedCopies DEF FileInv, world
  <2>5. MemoryInv(j)'
    BY <1>1, <1>3, <2>1 DEF FileInv, MemoryInv, IsEnd, world
  <2>6. \A k \in Jobs \ {j} : CopiesInv(k)' /\ MemoryInv(k)'
    BY <1>1, <2>1, Untouched DEF FileInv, world
  <2>7. QED
    BY <2>1, <2>2, <2>4, <2>5, <2>6 DEF FileInv, DownInv
<1>4. QED
  BY <1>2, <1>3 DEF SaveRemove

-----------------------------------------------------------------------------
(*                         Steps of an executor                            *)

\* The copies of a job survive whatever happens to its process alone.
LEMMA CopiesKept ==
    ASSUME NEW j \in Jobs, CopiesInv(j),
           Recs(j)' \subseteq Recs(j) \cup {NoJob, Empty, Torn},
           exec'[j] \in {exec[j], "ended"}, signalled \subseteq signalled',
           proc'[j] \in IF proc[j] = "running" THEN {"running", "ok", "bad"} ELSE {proc[j]}
    PROVE  CopiesInv(j)'
BY ValuesAssumption DEF CopiesInv, Honest, IsEnd, Over, Unfinished, Unstarted, Ended

\* A step that changes the shared record and saves it.
LEMMA UpdateKeeps ==
    ASSUME FileInv, NEW j \in Jobs, NEW rec \in JobRecs, NEW pc \in ExecStates \ {"new", "refresh", "final"},
           Update(j, rec, pc), Frame(j), UNCHANGED <<queue, deadline, inv>>,
           server # "down", exec[j] \in Unfinished,
           proc' = proc \/ proc' = [proc EXCEPT ![j] = "running"],
           Honest(j, rec)', pc \in Unfinished => ~IsEnd(rec), pc \in Unstarted => proc'[j] # "running"
    PROVE  FileInv'
<1> USE DEF Frame
<1>1. /\ save \in [Jobs -> [Writers -> SaveRecs]] /\ obj \in [Jobs -> JobRecs \cup {NoJob}]
      /\ exec \in [Jobs -> ExecStates] /\ proc \in [Jobs -> {"none", "running", "ok", "bad"}]
  BY DEF FileInv, TypeInv
<1>2. /\ exec' = [exec EXCEPT ![j] = pc] /\ obj' = [obj EXCEPT ![j] = rec]
      /\ save' = [save EXCEPT ![j]["exec"] = [at |-> "open", rec |-> NoJob, fd |-> "tmp"]]
  BY DEF Update, Saving
<1>3. save' \in [Jobs -> [Writers -> SaveRecs]]
  BY <1>1, <1>2 DEF SaveRecs, Writers
<1>4. proc' \in [Jobs -> {"none", "running", "ok", "bad"}]
  BY <1>1
<1>5. TypeInv'
  BY <1>1, <1>2, <1>3, <1>4 DEF FileInv, TypeInv, queue, inv, disk
<1>6. /\ Recs(j)' \subseteq Recs(j) \cup {rec, NoJob}
      /\ \A w \in Writers : save'[j][w].rec \in {NoJob, save[j][w].rec}
  BY <1>1, <1>2 DEF Recs, Writers, disk
<1>7. ~IsEnd(NoJob) /\ \A r \in Recs(j) : Honest(j, r) /\ ~IsEnd(r)
  BY ValuesAssumption DEF FileInv, CopiesInv, IsEnd
<1>8. CopiesInv(j)'
  <2>1. \A r \in Recs(j)' : Honest(j, r)'
    BY <1>6, <1>7, ValuesAssumption DEF Honest, IsEnd, Ended
  <2>2. pc \in Unfinished => \A r \in Recs(j)' : ~IsEnd(r)
    BY <1>6, <1>7
  <2>3. exec'[j] = pc /\ pc \notin {"refresh", "final"}
    BY <1>1, <1>2
  <2>4. QED
    BY <2>1, <2>2, <2>3 DEF CopiesInv, IsEnd
<1>9. MemoryInv(j)'
  <2>1. MemoryInv(j) /\ cleaner # j
    BY DEF FileInv, MemoryInv, Unfinished, Unstarted
  <2>2. ~IsEnd(file[j]) /\ ~IsEnd(tmp[j]) /\ \A w \in Writers : ~IsEnd(save'[j][w].rec)
    BY <1>6, <1>7 DEF Recs, Writers
  <2>3. /\ obj'[j] = rec /\ file' = file /\ tmp' = tmp /\ cancel' = cancel /\ signalled' = signalled
        /\ cleaner' = cleaner
    BY <1>1, <1>2 DEF disk
  <2>4. QED
    BY <2>1, <2>2, <2>3 DEF MemoryInv, IsEnd
<1>10. \A k \in Jobs \ {j} : CopiesInv(k)' /\ MemoryInv(k)'
  BY <1>1, <1>2, Untouched DEF FileInv, disk
<1>11. QED
  BY <1>5, <1>8, <1>9, <1>10 DEF FileInv, DownInv

\* A step that saves nothing.
LEMMA StepKeeps ==
    ASSUME FileInv, NEW j \in Jobs, NEW pc \in ExecStates \ {"new"},
           exec' = [exec EXCEPT ![j] = pc], obj' = obj, save' = save,
           Frame(j), proc' = proc, deadline' = deadline,
           server # "down", exec[j] \notin {"new", "ended"},
           slots' \subseteq Jobs, seen' \subseteq Jobs, skipped' \subseteq Jobs,
           refresh' \in [by : Jobs \cup {NoOne, AgiStatus}, snap : SUBSET Jobs],
           pc \in Unfinished => exec[j] \in Unfinished, pc \in Unstarted => exec[j] \in Unstarted,
           pc \in {"refresh", "final"} => Over(j)
    PROVE  FileInv'
<1> USE DEF Frame
<1>1. exec \in [Jobs -> ExecStates]
  BY DEF FileInv, TypeInv
<1>2. TypeInv'
  BY <1>1 DEF FileInv, TypeInv, disk
<1>3. CopiesInv(j)'
  BY <1>1 DEF FileInv, CopiesInv, Recs, Honest, IsEnd, Over, disk
<1>4. MemoryInv(j)'
  BY <1>1 DEF FileInv, MemoryInv, IsEnd, disk
<1>5. \A k \in Jobs \ {j} : CopiesInv(k)' /\ MemoryInv(k)'
  BY <1>1, Untouched DEF FileInv, disk
<1>6. QED
  BY <1>2, <1>3, <1>4, <1>5 DEF FileInv, DownInv

LEMMA SpawnKeeps ==
    ASSUME FileInv, NEW j \in Jobs, Spawn(j), Frame(j)
    PROVE  FileInv'
<1>1. /\ exec[j] = "spawn" /\ server # "down" /\ UNCHANGED <<queue, deadline, inv>>
      /\ obj[j] \in JobRecs /\ obj[j] \in Recs(j) /\ ~IsEnd(obj[j]) /\ Honest(j, obj[j])
      /\ proc[j] # "running" /\ proc \in [Jobs -> {"none", "running", "ok", "bad"}]
  BY DEF Spawn, Ready, Alive, FileInv, TypeInv, CopiesInv, MemoryInv, Recs, Unfinished, Unstarted
<1>2. signalled' = signalled
  BY DEF Frame
<1>3. CASE Update(j, [obj[j] EXCEPT !.pid = TRUE], "wait") /\ proc' = [proc EXCEPT ![j] = "running"]
  <2>1. PICK rec : rec = [obj[j] EXCEPT !.pid = TRUE]
    OBVIOUS
  <2>2. rec \in JobRecs /\ rec.status = obj[j].status /\ rec.why = obj[j].why /\ rec.cancelled = obj[j].cancelled
    BY <1>1, <2>1 DEF JobRecs
  <2>3. Honest(j, rec)' /\ ~IsEnd(rec)
    BY <1>1, <1>2, <2>2 DEF Honest, IsEnd, Ended
  <2>4. Update(j, rec, "wait")
    BY <1>3, <2>1
  <2>5. QED
    BY <1>1, <1>3, <2>2, <2>3, <2>4, UpdateKeeps DEF ExecStates, Unfinished, Unstarted
<1>4. CASE Update(j, [obj[j] EXCEPT !.status = "error"], "release") /\ proc' = proc
  <2>1. PICK rec : rec = [obj[j] EXCEPT !.status = "error"]
    OBVIOUS
  <2>2. rec \in JobRecs /\ rec.status = "error" /\ rec.why = obj[j].why /\ rec.cancelled = obj[j].cancelled
    BY <1>1, <2>1 DEF JobRecs, Ended
  <2>3. Honest(j, rec)'
    BY <1>1, <1>2, <1>4, <2>2 DEF Honest
  <2>4. Update(j, rec, "release")
    BY <1>4, <2>1
  <2>5. QED
    BY <1>1, <1>4, <2>2, <2>3, <2>4, UpdateKeeps DEF ExecStates, Unfinished, Unstarted
<1>5. QED
  BY <1>3, <1>4 DEF Spawn

\* The executor ends the job with a record that says what happened.
LEMMA FinishKeeps ==
    ASSUME FileInv, NEW j \in Jobs, Finish(j), Frame(j)
    PROVE  FileInv'
<1>1. /\ exec[j] = "final" /\ server # "down" /\ UNCHANGED <<queue, deadline, inv>> /\ proc' = proc
      /\ obj[j] \in JobRecs /\ obj[j] \in Recs(j) /\ Honest(j, obj[j]) /\ Over(j) /\ signalled' = signalled
  BY DEF Finish, Frame, Alive, FileInv, CopiesInv, MemoryInv, Recs
<1>2. PICK rec : rec = Outcome(j)
  OBVIOUS
<1>3. rec \in JobRecs
  BY <1>1, <1>2 DEF Outcome, JobRecs, Ended
<1>4. /\ rec.status \in {"completed", "failed"} /\ rec.cancelled = obj[j].cancelled
      /\ rec.status = "completed" => proc[j] # "bad"
      /\ rec.why = "cancel" => obj[j].cancelled \/ rec.why = obj[j].why
  BY <1>1, <1>2 DEF Outcome, JobRecs
<1>5. Honest(j, rec)'
  BY <1>1, <1>3, <1>4 DEF Honest, Over
<1>6. Update(j, rec, "release")
  BY <1>2 DEF Finish
<1>7. QED
  BY <1>1, <1>3, <1>5, <1>6, UpdateKeeps DEF ExecStates, Unfinished, Unstarted

LEMMA CheckQueueKeeps ==
    ASSUME FileInv, NEW j \in Jobs, CheckQueue(j), Frame(j)
    PROVE  FileInv'
<1>1. /\ exec[j] = "created" /\ server # "down" /\ UNCHANGED <<queue, deadline, inv>> /\ proc' = proc
      /\ obj[j] \in JobRecs /\ obj[j] \in Recs(j) /\ ~IsEnd(obj[j]) /\ Honest(j, obj[j])
      /\ proc[j] # "running" /\ signalled' = signalled
  BY DEF CheckQueue, Ready, Frame, Alive, FileInv, CopiesInv, MemoryInv, Recs, Unfinished, Unstarted
<1>2. CASE Update(j, [obj[j] EXCEPT !.status = "failed", !.why = "full"], "refused")
  <2>1. PICK rec : rec = [obj[j] EXCEPT !.status = "failed", !.why = "full"]
    OBVIOUS
  <2>2. rec \in JobRecs /\ rec.status = "failed" /\ rec.why = "full" /\ rec.cancelled = obj[j].cancelled
    BY <1>1, <2>1 DEF JobRecs, Ended
  <2>3. Honest(j, rec)'
    BY <1>1, <2>2 DEF Honest
  <2>4. Update(j, rec, "refused")
    BY <1>2, <2>1
  <2>5. QED
    BY <1>1, <2>2, <2>3, <2>4, UpdateKeeps DEF ExecStates, Unfinished, Unstarted
<1>3. CASE Step(j, "checked")
  <2>1. /\ slots' \subseteq Jobs /\ seen' \subseteq Jobs /\ skipped' \subseteq Jobs
        /\ refresh' \in [by : Jobs \cup {NoOne, AgiStatus}, snap : SUBSET Jobs]
    BY <1>1 DEF FileInv, TypeInv, queue, inv
  <2>2. QED
    BY <1>1, <1>3, <2>1, StepKeeps DEF Step, ExecStates, Unfinished, Unstarted
<1>4. QED
  BY <1>2, <1>3 DEF CheckQueue

LEMMA CreateJobKeeps ==
    ASSUME FileInv, NEW j \in Jobs, CreateJob(j), Frame(j)
    PROVE  FileInv'
<1> DEFINE rec == [status |-> "pending", why |-> "", pid |-> FALSE, cancelled |-> FALSE]
<1>1. /\ exec[j] = "new" /\ server # "down" /\ UNCHANGED <<queue, deadline, inv>> /\ proc' = proc
      /\ proc[j] # "running" /\ Update(j, rec, "created")
  BY DEF CreateJob, FileInv, CopiesInv, Unstarted
<1>2. rec \in JobRecs /\ ~IsEnd(rec) /\ Honest(j, rec)'
  BY DEF JobRecs, IsEnd, Ended, Honest
<1> HIDE DEF rec
<1>3. QED
  BY <1>1, <1>2, UpdateKeeps DEF ExecStates, Unfinished, Unstarted

LEMMA SetRunningKeeps ==
    ASSUME FileInv, NEW j \in Jobs, SetRunning(j), Frame(j)
    PROVE  FileInv'
<1>1. /\ exec[j] = "start" /\ server # "down" /\ UNCHANGED <<queue, deadline, inv>> /\ proc' = proc
      /\ obj[j] \in JobRecs /\ obj[j] \in Recs(j) /\ Honest(j, obj[j]) /\ signalled' = signalled
      /\ proc[j] # "running"
  BY DEF SetRunning, Frame, Alive, FileInv, CopiesInv, MemoryInv, Recs, Unfinished, Unstarted
<1>2. PICK rec : rec = [obj[j] EXCEPT !.status = "running"]
  OBVIOUS
<1>3. rec \in JobRecs /\ rec.status = "running" /\ rec.why = obj[j].why /\ rec.cancelled = obj[j].cancelled
  BY <1>1, <1>2 DEF JobRecs
<1>4. ~IsEnd(rec) /\ Honest(j, rec)'
  BY <1>1, <1>3 DEF IsEnd, Ended, Honest
<1>5. Update(j, rec, "spawn")
  BY <1>2 DEF SetRunning
<1>6. QED
  BY <1>1, <1>3, <1>4, <1>5, UpdateKeeps DEF ExecStates, Unfinished, Unstarted

LEMMA DeadlineKeeps ==
    ASSUME FileInv, NEW j \in Jobs, Deadline(j), Frame(j)
    PROVE  FileInv'
<1> USE DEF Frame
<1>1. /\ deadline' = deadline \cup {j} /\ proc' = [proc EXCEPT ![j] = IF @ = "running" THEN "bad" ELSE @]
      /\ UNCHANGED <<obj, save, exec, queue, inv>> /\ proc \in [Jobs -> {"none", "running", "ok", "bad"}]
  BY DEF Deadline, FileInv, TypeInv
<1>2. TypeInv'
  BY <1>1 DEF FileInv, TypeInv, disk, queue, inv
<1>3. Recs(j)' = Recs(j)
  BY <1>1 DEF Recs, disk
<1>4. CopiesInv(j)'
  BY <1>1, <1>3, CopiesKept DEF FileInv
<1>5. MemoryInv(j)'
  BY <1>1 DEF FileInv, MemoryInv, IsEnd, disk
<1>6. \A k \in Jobs \ {j} : CopiesInv(k)' /\ MemoryInv(k)'
  BY <1>1, Untouched DEF FileInv, disk
<1>7. QED
  BY <1>1, <1>2, <1>4, <1>5, <1>6 DEF FileInv, DownInv, inv

LEMMA BeginRefreshKeeps ==
    ASSUME FileInv, NEW j \in Jobs, BeginRefresh(j), Frame(j)
    PROVE  FileInv'
<1> USE DEF Frame
<1>1. /\ refresh' = [by |-> j, snap |-> {k \in Jobs : Over(k)}]
      /\ UNCHANGED <<obj, save, exec, queue, proc, deadline, recent, seen, skipped>> /\ server # "down"
  BY DEF BeginRefresh, Alive
<1>2. TypeInv'
  BY <1>1 DEF FileInv, TypeInv, disk, queue
<1>3. \A k \in Jobs : CopiesInv(k)' /\ MemoryInv(k)'
  BY <1>1, Untouched DEF FileInv, disk
<1>4. QED
  BY <1>1, <1>2, <1>3 DEF FileInv, DownInv

LEMMA ExecutorKeeps ==
    ASSUME FileInv, NEW j \in Jobs, Execute(j), Frame(j)
    PROVE  FileInv'
<1>1. /\ slots \subseteq Jobs /\ seen \subseteq Jobs /\ skipped \subseteq Jobs /\ refresh.snap \subseteq Jobs
      /\ refresh \in [by : Jobs \cup {NoOne, AgiStatus}, snap : SUBSET Jobs]
  BY DEF FileInv, TypeInv
<1> USE DEF Unfinished, Unstarted, ExecStates, Step, queue, inv, Ready, Alive
<1>2. CASE Refuse(j)
  BY <1>1, <1>2, StepKeeps DEF Refuse
<1>3. CASE Enqueue(j)
  BY <1>1, <1>3, StepKeeps DEF Enqueue
<1>4. CASE TakeSlot(j)
  BY <1>1, <1>4, StepKeeps DEF TakeSlot
<1>5. CASE StartInv(j)
  BY <1>1, <1>5, StepKeeps DEF StartInv
<1>6. CASE Wait(j)
  <2>1. PICK pc \in {"refresh", "final"} : exec' = [exec EXCEPT ![j] = pc]
    BY <1>6 DEF Wait
  <2>2. exec[j] = "wait" /\ server # "down" /\ Over(j) /\ UNCHANGED <<obj, save, proc, deadline, queue, inv>>
    BY <1>6 DEF Wait
  <2>3. QED
    BY <1>1, <2>1, <2>2, StepKeeps
<1>7. CASE SkipRefresh(j)
  <2>1. exec[j] = "refresh" /\ Over(j)
    BY <1>7 DEF SkipRefresh, FileInv, CopiesInv
  <2>2. QED
    BY <1>1, <1>7, <2>1, StepKeeps DEF SkipRefresh
<1>8. CASE EndRefresh(j)
  <2>1. exec[j] = "refresh" /\ Over(j)
    BY <1>8 DEF EndRefresh, FileInv, CopiesInv
  <2>2. QED
    BY <1>1, <1>8, <2>1, StepKeeps DEF EndRefresh
<1>9. CASE Release(j)
  BY <1>1, <1>9, StepKeeps DEF Release
<1>10. QED
  BY <1>2, <1>3, <1>4, <1>5, <1>6, <1>7, <1>8, <1>9, CreateJobKeeps, CheckQueueKeeps, SetRunningKeeps,
     SpawnKeeps, BeginRefreshKeeps, FinishKeeps, DeadlineKeeps DEF Execute

-----------------------------------------------------------------------------
(*       The process, its signals, the cleaner and the server's lives      *)

LEMMA ProcessKeeps ==
    ASSUME FileInv, Process
    PROVE  FileInv'
<1>1. PICK j \in Jobs : ProcLogs(j) \/ ProcEnds(j)
  BY DEF Process
<1>2. UNCHANGED <<server, restarts, obj, disk, save, exec, queue, gone, deadline, signalled, cancel, cleaner, stream, inv>>
  BY DEF Process
<1>3. proc \in [Jobs -> {"none", "running", "ok", "bad"}] /\ log \in [Jobs -> 0 .. 1]
  BY DEF FileInv, TypeInv
<1>4. /\ proc' \in [Jobs -> {"none", "running", "ok", "bad"}] /\ log' \in [Jobs -> 0 .. 1]
      /\ proc'[j] \in IF proc[j] = "running" THEN {"running", "ok", "bad"} ELSE {proc[j]}
      /\ \A k \in Jobs \ {j} : proc'[k] = proc[k]
  <2>1. CASE ProcLogs(j)
    BY <1>3, <2>1 DEF ProcLogs
  <2>2. CASE ProcEnds(j)
    BY <1>3, <2>2 DEF ProcEnds
  <2>3. QED
    BY <1>1, <2>1, <2>2
<1>5. TypeInv'
  BY <1>2, <1>4 DEF FileInv, TypeInv, disk, queue, inv
<1>6. Recs(j)' = Recs(j)
  BY <1>2 DEF Recs, disk
<1>7. CopiesInv(j)'
  BY <1>2, <1>4, <1>6, CopiesKept DEF FileInv
<1>8. MemoryInv(j)'
  BY <1>2 DEF FileInv, MemoryInv, IsEnd, disk
<1>9. \A k \in Jobs \ {j} : CopiesInv(k)' /\ MemoryInv(k)'
  BY <1>2, <1>4, Untouched DEF FileInv, disk
<1>10. QED
  BY <1>2, <1>5, <1>7, <1>8, <1>9 DEF FileInv, DownInv, inv

\* A job that is being cancelled is not one the cleaner has found ended.
LEMMA CancelGetKeeps ==
    ASSUME FileInv, NEW j \in Jobs, CancelGet(j),
           UNCHANGED <<server, restarts, disk, exec, queue, log, gone, deadline, cleaner, stream, inv>>
    PROVE  FileInv'
<1>1. /\ cancel' = [cancel EXCEPT ![j] = "signal"] /\ UNCHANGED <<obj, save, proc, signalled>> /\ server # "down"
      /\ obj[j] # NoJob /\ obj[j].status = "running"
  BY DEF CancelGet, Alive
<1>2. cancel \in [Jobs -> {"idle", "signal", "flag", "done"}] /\ obj[j] \in JobRecs
  BY <1>1 DEF FileInv, TypeInv
<1>3. TypeInv'
  BY <1>1, <1>2 DEF FileInv, TypeInv, disk, queue, inv
<1>4. CopiesInv(j)'
  BY <1>1 DEF FileInv, CopiesInv, Recs, Honest, IsEnd, Over, disk
<1>5. cleaner # j
  BY <1>1, <1>2 DEF FileInv, MemoryInv, IsEnd, Ended
<1>6. MemoryInv(j)'
  BY <1>1, <1>2, <1>5 DEF FileInv, MemoryInv, IsEnd, disk
<1>7. \A k \in Jobs \ {j} : CopiesInv(k)' /\ MemoryInv(k)'
  BY <1>1, <1>2, Untouched DEF FileInv, disk
<1>8. QED
  BY <1>1, <1>3, <1>4, <1>6, <1>7 DEF FileInv, DownInv

LEMMA CancelSignalKeeps ==
    ASSUME FileInv, NEW j \in Jobs, CancelSignal(j),
           UNCHANGED <<server, restarts, disk, exec, queue, log, gone, deadline, cleaner, stream, inv>>
    PROVE  FileInv'
<1>1. /\ cancel \in [Jobs -> {"idle", "signal", "flag", "done"}] /\ signalled \subseteq Jobs
      /\ proc \in [Jobs -> {"none", "running", "ok", "bad"}]
  BY DEF FileInv, TypeInv
<1>2. cancel[j] = "signal" /\ server # "down" /\ UNCHANGED <<obj, save>>
  BY DEF CancelSignal, Alive
<1>3. /\ cancel' \in [Jobs -> {"idle", "signal", "flag", "done"}] /\ signalled' \subseteq Jobs
      /\ proc' \in [Jobs -> {"none", "running", "ok", "bad"}]
      /\ cancel'[j] \in {"done", "flag"} /\ (cancel'[j] = "flag" => j \in signalled')
      /\ signalled \subseteq signalled'
      /\ proc'[j] \in IF proc[j] = "running" THEN {"running", "ok", "bad"} ELSE {proc[j]}
      /\ \A k \in Jobs \ {j} : proc'[k] = proc[k] /\ cancel'[k] = cancel[k]
  <2>1. CASE Over(j) /\ exec[j] # "wait"
    BY <1>1, <2>1 DEF CancelSignal
  <2>2. CASE ~(Over(j) /\ exec[j] # "wait")
    <3>1. PICK how \in {"running", "bad"} : proc' = [proc EXCEPT ![j] = IF @ = "running" THEN how ELSE @]
      BY <2>2 DEF CancelSignal
    <3>2. cancel' = [cancel EXCEPT ![j] = "flag"] /\ signalled' = signalled \cup {j}
      BY <2>2 DEF CancelSignal
    <3>3. QED
      BY <1>1, <3>1, <3>2
  <2>3. QED
    BY <2>1, <2>2
<1>4. TypeInv'
  BY <1>2, <1>3 DEF FileInv, TypeInv, disk, queue, inv
<1>5. Recs(j)' = Recs(j)
  BY <1>2 DEF Recs, disk
<1>6. CopiesInv(j)'
  BY <1>3, <1>5, CopiesKept DEF FileInv
<1>7. MemoryInv(j)'
  BY <1>2, <1>3 DEF FileInv, MemoryInv, IsEnd, disk
<1>8. \A k \in Jobs \ {j} : CopiesInv(k)' /\ MemoryInv(k)'
  BY <1>2, <1>3, Untouched DEF FileInv, disk
<1>9. QED
  BY <1>2, <1>4, <1>6, <1>7, <1>8 DEF FileInv, DownInv

\* The canceller's record tells of the end that the memory tells of, or of none.
LEMMA CancelFlagKeeps ==
    ASSUME FileInv, NEW j \in Jobs, CancelFlag(j),
           UNCHANGED <<server, restarts, disk, exec, queue, log, gone, deadline, cleaner, stream, inv>>
    PROVE  FileInv'
<1>1. /\ cancel[j] = "flag" /\ server # "down" /\ UNCHANGED <<proc, signalled>>
      /\ obj' = [obj EXCEPT ![j].cancelled = TRUE] /\ cancel' = [cancel EXCEPT ![j] = "done"]
      /\ save' = [save EXCEPT ![j]["cancel"] = [at |-> "open", rec |-> NoJob, fd |-> "tmp"]]
  BY DEF CancelFlag, Alive, Saving
<1>2. /\ cancel \in [Jobs -> {"idle", "signal", "flag", "done"}] /\ obj \in [Jobs -> JobRecs \cup {NoJob}]
      /\ save \in [Jobs -> [Writers -> SaveRecs]]
  BY DEF FileInv, TypeInv
<1>3. obj[j] \in JobRecs /\ j \in signalled /\ obj[j] \in Recs(j) /\ Honest(j, obj[j])
  BY <1>1 DEF FileInv, MemoryInv, CopiesInv, Recs
<1>4. PICK rec : rec = [obj[j] EXCEPT !.cancelled = TRUE]
  OBVIOUS
<1>5. rec \in JobRecs /\ rec.status = obj[j].status /\ rec.why = obj[j].why
  BY <1>3, <1>4 DEF JobRecs
<1>6. obj' = [obj EXCEPT ![j] = rec]
  BY <1>1, <1>2, <1>4
<1>7. save' \in [Jobs -> [Writers -> SaveRecs]]
  BY <1>1, <1>2 DEF SaveRecs, Writers
<1>8. TypeInv'
  <2>1. obj' \in [Jobs -> JobRecs \cup {NoJob}]
    BY <1>2, <1>5, <1>6
  <2>2. cancel' \in [Jobs -> {"idle", "signal", "flag", "done"}] /\ proc' = proc /\ signalled' = signalled
    BY <1>1, <1>2
  <2>3. QED
    BY <1>7, <2>1, <2>2 DEF FileInv, TypeInv, disk, queue, inv
<1>9. /\ Recs(j)' \subseteq Recs(j) \cup {rec, NoJob}
      /\ \A w \in Writers : save'[j][w].rec \in {NoJob, save[j][w].rec}
      /\ \A w \in Writers : save'[j][w].at \in {"open", save[j][w].at}
  BY <1>1, <1>2, <1>6 DEF Recs, Writers, disk
<1>10. Honest(j, rec)' /\ (IsEnd(rec) <=> IsEnd(obj[j])) /\ ~IsEnd(NoJob) /\ NoJob \notin JobRecs
  BY <1>1, <1>3, <1>5, ValuesAssumption DEF Honest, IsEnd
<1>11. CopiesInv(j)'
  <2>1. \A r \in Recs(j)' : Honest(j, r)'
    BY <1>1, <1>9, <1>10 DEF FileInv, CopiesInv, Honest
  <2>2. exec[j] \in Unfinished => \A r \in Recs(j)' : ~IsEnd(r)
    BY <1>3, <1>9, <1>10 DEF FileInv, CopiesInv
  <2>3. QED
    BY <1>1, <2>1, <2>2 DEF FileInv, CopiesInv, IsEnd, Over
<1>12. MemoryInv(j)'
  <2>1. MemoryInv(j) /\ cleaner # j
    BY <1>1 DEF FileInv, MemoryInv
  <2>2. obj'[j] = rec /\ cancel'[j] = "done" /\ file' = file /\ tmp' = tmp /\ exec' = exec /\ cleaner' = cleaner
    BY <1>1, <1>2, <1>6 DEF disk
  <2>3. /\ IsEnd(file[j]) => IsEnd(rec)
        /\ \A w \in Writers : IsEnd(save'[j][w].rec) => IsEnd(rec)
        /\ \A w \in Writers : save'[j][w].at \in {"write", "rename", "remove"} /\ IsEnd(tmp[j]) => IsEnd(rec)
    BY <1>3, <1>9, <1>10, <2>1 DEF MemoryInv
  <2>4. QED
    BY <1>5, <2>1, <2>2, <2>3 DEF MemoryInv, IsEnd
<1>13. \A k \in Jobs \ {j} : CopiesInv(k)' /\ MemoryInv(k)'
  BY <1>1, <1>2, <1>6, Untouched DEF FileInv, disk
<1>14. QED
  BY <1>1, <1>8, <1>11, <1>12, <1>13 DEF FileInv, DownInv

LEMMA CleanFileKeeps ==
    ASSUME FileInv, NEW j \in Jobs, CleanFile(j),
           UNCHANGED <<server, restarts, save, exec, queue, proc, log, deadline, signalled, cancel, stream, inv>>
    PROVE  FileInv'
<1>1. /\ file' \in {file, [file EXCEPT ![j] = NoJob]} /\ tmp' \in {tmp, [tmp EXCEPT ![j] = NoJob]}
      /\ cleaner' \in {j, NoOne} /\ obj' = obj
      /\ server = "up" /\ IsEnd(file[j]) /\ exec[j] = "ended" /\ cancel[j] \in {"idle", "done"}
      /\ gone' \subseteq gone \cup Watched
  BY DEF CleanFile, IsEnd
<1>2. file \in [Jobs -> FileVals] /\ tmp \in [Jobs -> FileVals]
  BY DEF FileInv, TypeInv
<1>9. /\ file' \in [Jobs -> FileVals] /\ tmp' \in [Jobs -> FileVals]
      /\ file'[j] \in {file[j], NoJob} /\ tmp'[j] \in {tmp[j], NoJob}
      /\ \A k \in Jobs \ {j} : file'[k] = file[k] /\ tmp'[k] = tmp[k]
  BY <1>1, <1>2 DEF FileVals
<1>3. TypeInv'
  BY <1>1, <1>9 DEF FileInv, TypeInv, queue, inv
<1>4. Recs(j)' \subseteq Recs(j) \cup {NoJob}
  BY <1>1, <1>9 DEF Recs
<1>5. CopiesInv(j)'
  BY <1>4, CopiesKept DEF FileInv, TypeInv
<1>6. MemoryInv(j)'
  BY <1>1, <1>9, ValuesAssumption DEF FileInv, MemoryInv, IsEnd
<1>7. \A k \in Jobs \ {j} : CopiesInv(k)' /\ MemoryInv(k)'
  BY <1>1, <1>9, ValuesAssumption, Untouched DEF FileInv
<1>8. QED
  BY <1>1, <1>3, <1>5, <1>6, <1>7 DEF FileInv, DownInv

LEMMA CleanMapKeeps ==
    ASSUME FileInv, CleanMap,
           UNCHANGED <<server, restarts, save, exec, queue, proc, log, deadline, signalled, cancel, stream, inv>>
    PROVE  FileInv'
<1>1. PICK j \in Jobs : cleaner = j
  BY DEF CleanMap, FileInv, TypeInv
<1>2. obj' = [obj EXCEPT ![j] = NoJob] /\ cleaner' = NoOne /\ UNCHANGED <<disk, gone>> /\ server # "down"
  BY <1>1 DEF CleanMap, Alive
<1>3. obj \in [Jobs -> JobRecs \cup {NoJob}]
  BY DEF FileInv, TypeInv
<1>4. TypeInv'
  BY <1>2, <1>3 DEF FileInv, TypeInv, disk, queue, world, inv
<1>5. Recs(j)' \subseteq Recs(j) \cup {NoJob}
  BY <1>2, <1>3 DEF Recs, disk
<1>6. CopiesInv(j)'
  BY <1>5, CopiesKept DEF FileInv, world
<1>7. MemoryInv(j)'
  BY <1>1, <1>2, <1>3, ValuesAssumption DEF FileInv, MemoryInv, world
<1>8. \A k \in Jobs \ {j} : CopiesInv(k)' /\ MemoryInv(k)'
  BY <1>2, <1>3, ValuesAssumption, Untouched DEF FileInv, world, disk
<1>9. QED
  BY <1>2, <1>4, <1>6, <1>7, <1>8 DEF FileInv, DownInv

\* Steps that touch no job at all.
LEMMA OthersKeep ==
    ASSUME FileInv, Streams \/ StatusRefresh \/ IntervalPasses \/ Drain \/ UNCHANGED vars
    PROVE  FileInv'
<1>1. UNCHANGED <<restarts, obj, file, tmp, save, exec, slots, pending, proc, log, gone, deadline, signalled, cancel,
                  cleaner>>
  BY DEF Streams, StatusRefresh, IntervalPasses, Drain, vars, disk, queue, world
<1>2. server' = server \/ (server' = "draining" /\ server = "up")
  BY DEF Streams, StatusRefresh, IntervalPasses, Drain, vars
<1>3. /\ seen' \subseteq Jobs /\ skipped' \subseteq Jobs
      /\ refresh' \in [by : Jobs \cup {NoOne, AgiStatus}, snap : SUBSET Jobs]
  <2>1. /\ seen \subseteq Jobs /\ skipped \subseteq Jobs /\ refresh.snap \subseteq Jobs
        /\ refresh \in [by : Jobs \cup {NoOne, AgiStatus}, snap : SUBSET Jobs]
    BY DEF FileInv, TypeInv
  <2>2. CASE StatusRefresh
    BY <2>1, <2>2 DEF StatusRefresh
  <2>3. CASE Streams \/ IntervalPasses \/ Drain \/ UNCHANGED vars
    BY <2>1, <2>3 DEF Streams, IntervalPasses, Drain, vars, inv
  <2>4. QED
    BY <2>2, <2>3
<1>4. TypeInv'
  BY <1>1, <1>2, <1>3 DEF FileInv, TypeInv
<1>5. \A k \in Jobs : CopiesInv(k)' /\ MemoryInv(k)'
  BY <1>1, Untouched DEF FileInv
<1>6. server' = "down" => refresh' = refresh
  BY DEF Streams, StatusRefresh, IntervalPasses, Drain, vars, inv, Alive
<1>7. QED
  BY <1>1, <1>2, <1>4, <1>5, <1>6 DEF FileInv, DownInv

\* A server that dies leaves its files; whether it ends its processes or not,
\* no file tells of the end of one that ran.
LEMMA GoneKeeps ==
    ASSUME FileInv, Gone, proc' \in [Jobs -> {"none", "running", "ok", "bad"}],
           \A j \in Jobs : proc'[j] \in IF proc[j] = "running" THEN {"running", "bad"} ELSE {proc[j]}
    PROVE  FileInv'
<1>1. TypeInv'
  BY DEF Gone, FileInv, TypeInv, disk, NotSaving, SaveRecs, ExecStates
<1>2. ASSUME NEW j \in Jobs PROVE CopiesInv(j)'
  <2>1. Recs(j)' \subseteq Recs(j) \cup {NoJob}
    BY DEF Recs, Gone, NotSaving, Writers, disk
  <2>2. exec'[j] \in {exec[j], "ended"} /\ signalled' = signalled
    BY DEF Gone
  <2>3. QED
    BY <2>1, <2>2, CopiesKept DEF FileInv
<1>3. ASSUME NEW j \in Jobs PROVE MemoryInv(j)'
  BY ValuesAssumption DEF Gone, MemoryInv
<1>4. DownInv'
  BY DEF Gone, DownInv
<1>5. QED
  BY <1>1, <1>2, <1>3, <1>4 DEF FileInv

LEMMA StartKeeps ==
    ASSUME FileInv, Start
    PROVE  FileInv'
<1>1. /\ server = "down" /\ server' = "up" /\ restarts' = restarts + 1 /\ restarts < MaxRestarts
      /\ obj' = [j \in Jobs |-> IF file[j] \in JobRecs THEN file[j] ELSE NoJob]
      /\ seen' = {j \in Jobs : Over(j)}
      /\ UNCHANGED <<disk, save, exec, queue, world, cancel, cleaner, stream, refresh, recent, skipped>>
  BY DEF Start
<1>2. TypeInv'
  BY <1>1, LimitAssumption DEF FileInv, TypeInv, disk, queue, world
<1>3. ASSUME NEW j \in Jobs PROVE CopiesInv(j)'
  <2>1. Recs(j)' \subseteq Recs(j) \cup {NoJob}
    BY <1>1 DEF Recs, disk
  <2>2. QED
    BY <1>1, <2>1, CopiesKept DEF FileInv, world
<1>4. ASSUME NEW j \in Jobs PROVE MemoryInv(j)'
  BY <1>1, ValuesAssumption DEF FileInv, DownInv, MemoryInv, IsEnd, NotSaving, world, disk
<1>5. QED
  BY <1>1, <1>2, <1>3, <1>4 DEF FileInv, DownInv

LEMMA FileStep ==
    ASSUME FileInv, [Next]_vars
    PROVE  FileInv'
<1>1. CASE SaveJob
  BY <1>1, SaveOpenKeeps, SaveWriteKeeps, SaveRenameKeeps, SaveRemoveKeeps DEF SaveJob, SaveFrame
<1>2. CASE Executor
  BY <1>2, ExecutorKeeps DEF Executor, Frame
<1>3. CASE Process
  BY <1>3, ProcessKeeps
<1>4. CASE Cancel
  BY <1>4, CancelGetKeeps, CancelSignalKeeps, CancelFlagKeeps, JobsAssumption DEF Cancel
<1>5. CASE Clean
  BY <1>5, CleanFileKeeps, CleanMapKeeps DEF Clean
<1>6. CASE Exit
  BY <1>6, GoneKeeps DEF Exit, FileInv, TypeInv
<1>7. CASE KillAll
  <2>1. proc' = [j \in Jobs |-> IF obj[j] # NoJob /\ obj[j].status = "running" /\ obj[j].pid /\ proc[j] = "running"
                                 THEN "bad" ELSE proc[j]]
    BY <1>7 DEF KillAll
  <2>2. proc \in [Jobs -> {"none", "running", "ok", "bad"}]
    BY DEF FileInv, TypeInv
  <2>3. QED
    BY <1>7, <2>1, <2>2, GoneKeeps DEF KillAll
<1>8. CASE Start
  BY <1>8, StartKeeps
<1>9. QED
  BY <1>1, <1>2, <1>3, <1>4, <1>5, <1>6, <1>7, <1>8, OthersKeep DEF Next

(* Whatever saves run at once, wherever the server dies and however often  *)
(* it is started again, command.json never tells of an end that was not.   *)
THEOREM FileIsTruthful == Spec => []FileTellsTheTruth
<1>1. FileInv => FileTellsTheTruth
  <2> SUFFICES ASSUME FileInv PROVE FileTellsTheTruth
    OBVIOUS
  <2>1. TypeOK
    BY DEF FileInv, TypeInv, TypeOK, FileVals
  <2>2. ASSUME NEW j \in Jobs PROVE Honest(j, file[j])
    BY DEF FileInv, CopiesInv, Recs
  <2>3. QED
    BY <2>1, <2>2 DEF FileTellsTheTruth, Honest
<1>2. QED
  BY <1>1, FileInit, FileStep, PTL DEF Spec

\* An executor changes the record of its own job only, before it has an end.
LEMMA ExecutorChanges ==
    ASSUME FileInv, NEW j \in Jobs, Execute(j), NEW k \in Jobs, IsEnd(obj[k])
    PROVE  obj'[k] = obj[k]
<1>1. exec[j] \in Unfinished => k # j
  BY DEF FileInv, CopiesInv, Recs
<1>2. (exec[j] \in Unfinished /\ \E rec : obj' = [obj EXCEPT ![j] = rec]) \/ obj' = obj
  BY DEF Execute, CreateJob, CheckQueue, Refuse, Enqueue, TakeSlot, StartInv, SetRunning, Spawn, Wait,
     SkipRefresh, BeginRefresh, EndRefresh, Finish, Release, Deadline, Update, Step, Unfinished, Unstarted
<1>3. obj \in [Jobs -> JobRecs \cup {NoJob}]
  BY DEF FileInv, TypeInv
<1>4. QED
  BY <1>1, <1>2, <1>3

(* Whoever cancels, cleans or recovers a job, and however often it is      *)
(* saved, no step of a live server takes back the end it has reported.     *)
THEOREM ReportedEndsAreFinal == Spec => EndsAreFinal
<1> DEFINE Final(j) ==
      (Alive /\ obj[j] # NoJob /\ obj[j].status \in Ended /\ Alive')
        => obj'[j] = NoJob \/ (obj'[j].status = obj[j].status /\ obj'[j].why = obj[j].why)
<1>1. ASSUME FileInv, [Next]_vars, NEW j \in Jobs PROVE Final(j)
  <2> SUFFICES ASSUME Alive, obj[j] # NoJob, obj[j].status \in Ended, Alive'
               PROVE  obj'[j] = NoJob \/ (obj'[j].status = obj[j].status /\ obj'[j].why = obj[j].why)
    OBVIOUS
  <2>1. obj \in [Jobs -> JobRecs \cup {NoJob}] /\ IsEnd(obj[j])
    BY <1>1 DEF FileInv, TypeInv, IsEnd
  <2>2. CASE Executor
    BY <1>1, <2>1, <2>2, ExecutorChanges DEF Executor
  <2>3. CASE Cancel
    <3>1. PICK k \in Jobs : CancelGet(k) \/ CancelSignal(k) \/ CancelFlag(k)
      BY <2>3, JobsAssumption DEF Cancel
    <3>2. CASE obj' = obj
      BY <3>2
    <3>3. CASE obj' = [obj EXCEPT ![k].cancelled = TRUE]
      <4>1. obj'[j] = obj[j] \/ obj'[j] = [obj[j] EXCEPT !.cancelled = TRUE]
        BY <2>1, <3>3
      <4>2. obj[j] \in JobRecs
        BY <2>1 DEF IsEnd
      <4>3. QED
        BY <4>1, <4>2 DEF JobRecs
    <3>4. QED
      BY <3>1, <3>2, <3>3 DEF CancelGet, CancelSignal, CancelFlag
  <2>4. CASE Clean
    BY <2>1, <2>4 DEF Clean, CleanMap, CleanFile
  <2>5. CASE Exit \/ KillAll \/ Start
    BY <2>5 DEF Exit, KillAll, Gone, Start, Alive
  <2>6. CASE SaveJob \/ Process \/ Streams \/ StatusRefresh \/ IntervalPasses \/ Drain \/ UNCHANGED vars
    BY <2>6 DEF SaveJob, Process, Streams, StatusRefresh, IntervalPasses, Drain, vars
  <2>7. QED
    BY <1>1, <2>2, <2>3, <2>4, <2>5, <2>6 DEF Next
<1>2. ASSUME FileInv, [Next]_vars PROVE \A j \in Jobs : Final(j)
  BY <1>1, <1>2
<1> HIDE DEF Final
<1>3. Spec => [](FileInv)
  BY FileInit, FileStep, PTL DEF Spec
<1>4. (FileInv /\ [Next]_vars) => [\A j \in Jobs : Final(j)]_vars
  BY <1>2
<1>5. Spec => [][\A j \in Jobs : Final(j)]_vars
  BY <1>3, <1>4, PTL DEF Spec
<1>6. QED
  BY <1>5 DEF EndsAreFinal, Final

-----------------------------------------------------------------------------
(*                     What the inventory shows at an end                  *)

\* The executor has been through its refresh, or the end of a command is told.
Reported(j) == exec[j] = "final" \/ (IsEnd(obj[j]) /\ proc[j] # "none")

(* Under the mutex: the poll that is going on saw every job that has been  *)
(* through its own refresh, so what it stores forgets none of them.        *)
ShowInv ==
    /\ \A j \in Jobs : exec[j] \in Unstarted => proc[j] = "none"
    /\ \A j \in RefreshJobs : Reported(j) => /\ j \in seen \cup skipped
                                             /\ refresh.by # NoOne => j \in refresh.snap \cup skipped
    /\ refresh.by \in Jobs => exec[refresh.by] = "refresh" /\ refresh.by \in refresh.snap

LEMMA ShowInit == Init => ShowInv
<1> SUFFICES ASSUME Init PROVE ShowInv
  OBVIOUS
<1>1. \A j \in Jobs : exec[j] = "new" /\ proc[j] = "none" /\ obj[j] = NoJob
  BY DEF Init
<1>2. refresh.by = NoOne
  BY DEF Init
<1>3. QED
  BY <1>1, <1>2, ValuesAssumption, JobsAssumption DEF ShowInv, Reported, IsEnd

\* A step outside the refresh that reports nothing new.
LEMMA ShowKept ==
    ASSUME ShowInv, UNCHANGED <<refresh, seen, skipped>>,
           \A j \in RefreshJobs : Reported(j)' => Reported(j),
           \A j \in Jobs : exec'[j] \in Unstarted => proc'[j] = "none",
           \A j \in Jobs : exec[j] = "refresh" => exec'[j] = "refresh"
    PROVE  ShowInv'
<1>1. /\ \A j \in RefreshJobs : Reported(j)' => /\ j \in seen \cup skipped
                                                /\ refresh.by # NoOne => j \in refresh.snap \cup skipped
  BY DEF ShowInv
<1>2. refresh.by \in Jobs => exec'[refresh.by] = "refresh" /\ refresh.by \in refresh.snap
  BY DEF ShowInv
<1> HIDE DEF Reported
<1>3. QED
  BY <1>1, <1>2 DEF ShowInv

\* A process that ends had no end told of it.
LEMMA ProcessReports ==
    ASSUME FileInv, ShowInv, UNCHANGED <<refresh, seen, skipped, exec, obj>>,
           \A j \in Jobs : proc'[j] \in IF proc[j] = "running" THEN {"running", "ok", "bad"} ELSE {proc[j]}
    PROVE  ShowInv'
<1>1. ASSUME NEW j \in RefreshJobs, Reported(j)' PROVE Reported(j)
  <2>1. IsEnd(obj[j]) => proc[j] # "running"
    BY JobsAssumption DEF FileInv, CopiesInv, Recs, Honest, IsEnd
  <2>2. QED
    BY <1>1, <2>1, JobsAssumption DEF Reported, IsEnd
<1>2. \A j \in Jobs : exec'[j] \in Unstarted => proc'[j] = "none"
  BY DEF ShowInv
<1>3. QED
  BY <1>1, <1>2, ShowKept

\* An executor's step from one counter to another, by what becomes of its record.
LEMMA ExecutorReports ==
    ASSUME FileInv, ShowInv, UNCHANGED <<refresh, seen, skipped>>, NEW j \in Jobs, NEW pc \in ExecStates,
           exec' = [exec EXCEPT ![j] = pc], exec[j] # "refresh",
           proc' = proc \/ proc' = [proc EXCEPT ![j] = "running"],
           \A k \in Jobs \ {j} : obj'[k] = obj[k],
           pc = "final" => j \notin RefreshJobs,
           pc \in Unstarted => exec[j] \in Unstarted /\ proc' = proc,
           \/ obj'[j] = obj[j] /\ proc' = proc
           \/ ~IsEnd(obj'[j])
           \/ exec[j] \in Unstarted /\ proc' = proc
           \/ exec[j] = "final"
    PROVE  ShowInv'
<1>1. exec \in [Jobs -> ExecStates] /\ proc \in [Jobs -> {"none", "running", "ok", "bad"}]
  BY DEF FileInv, TypeInv
<1>2. ASSUME NEW k \in RefreshJobs, Reported(k)' PROVE Reported(k)
  <2>1. k \in Jobs
    BY JobsAssumption
  <2>2. CASE k # j
    BY <1>1, <1>2, <2>1, <2>2 DEF Reported, IsEnd
  <2>3. CASE k = j
    BY <1>1, <1>2, <2>1, <2>3 DEF Reported, IsEnd, ShowInv
  <2>4. QED
    BY <2>2, <2>3
<1>3. \A k \in Jobs : exec'[k] \in Unstarted => proc'[k] = "none"
  BY <1>1 DEF ShowInv
<1>4. QED
  BY <1>1, <1>2, <1>3, ShowKept

\* An executor that leaves its refresh has seen its own command, or says it has not.
LEMMA LeavesRefresh ==
    ASSUME FileInv, ShowInv, NEW j \in Jobs, SkipRefresh(j) \/ EndRefresh(j)
    PROVE  ShowInv'
<1>1. /\ exec \in [Jobs -> ExecStates] /\ exec' = [exec EXCEPT ![j] = "final"] /\ obj' = obj /\ proc' = proc
      /\ refresh'.by = NoOne
  BY DEF SkipRefresh, EndRefresh, Step, FileInv, TypeInv
<1>2. \A k \in Jobs \ {j} : Reported(k)' => Reported(k)
  BY <1>1 DEF Reported, IsEnd
<1>3. \A k \in RefreshJobs : Reported(k)' => k \in seen' \cup skipped'
  <2>1. CASE SkipRefresh(j)
    <3>1. skipped' = skipped \cup {j} /\ seen' = seen
      BY <2>1 DEF SkipRefresh
    <3> HIDE DEF Reported
    <3>2. QED
      BY <1>2, <3>1, JobsAssumption DEF ShowInv
  <2>2. CASE EndRefresh(j)
    <3>1. seen' = refresh.snap /\ skipped' = skipped /\ refresh.by = j /\ refresh.by # NoOne /\ j \in refresh.snap
      BY <2>2, ValuesAssumption DEF EndRefresh, ShowInv
    <3> HIDE DEF Reported
    <3>2. QED
      BY <1>2, <3>1, JobsAssumption DEF ShowInv
  <2>3. QED
    BY <2>1, <2>2
<1>4. \A k \in Jobs : exec'[k] \in Unstarted => proc'[k] = "none"
  BY <1>1 DEF ShowInv, Unstarted
<1>5. refresh'.by \notin Jobs
  BY <1>1, ValuesAssumption
<1> HIDE DEF Reported
<1>6. QED
  BY <1>1, <1>3, <1>4, <1>5 DEF ShowInv

\* Every job that has been through its refresh is over when a poll begins.
LEMMA PollSeesReported ==
    ASSUME FileInv, ShowInv, refresh'.snap = {k \in Jobs : Over(k)},
           UNCHANGED <<seen, skipped, exec, proc, obj>>,
           refresh'.by \in Jobs => exec[refresh'.by] = "refresh"
    PROVE  ShowInv'
<1>1. proc \in [Jobs -> {"none", "running", "ok", "bad"}]
  BY DEF FileInv, TypeInv
<1>2. ASSUME NEW k \in Jobs, Reported(k) PROVE Over(k)
  <2>1. exec[k] = "final" => Over(k)
    BY DEF FileInv, CopiesInv
  <2>2. IsEnd(obj[k]) => proc[k] # "running"
    BY DEF FileInv, CopiesInv, Recs, Honest, IsEnd
  <2>3. QED
    BY <1>1, <1>2, <2>1, <2>2 DEF Reported, Over
<1>3. \A k \in Jobs : exec[k] = "refresh" => Over(k)
  BY DEF FileInv, CopiesInv
<1>4. \A k \in Jobs : Reported(k)' = Reported(k)
  BY DEF Reported, IsEnd
<1> HIDE DEF Reported, Over
<1>5. QED
  BY <1>2, <1>3, <1>4, JobsAssumption DEF ShowInv

LEMMA ExecuteShows ==
    ASSUME FileInv, ShowInv, NEW j \in Jobs, Execute(j)
    PROVE  ShowInv'
<1> USE DEF Update, Step, inv, Unstarted, ExecStates
<1>1. obj \in [Jobs -> JobRecs \cup {NoJob}] /\ proc \in [Jobs -> {"none", "running", "ok", "bad"}]
  BY DEF FileInv, TypeInv
<1>2. CASE CreateJob(j)
  BY <1>1, <1>2, ExecutorReports DEF CreateJob
<1>3. CASE CheckQueue(j)
  <2>1. PICK pc \in {"refused", "checked"} : exec' = [exec EXCEPT ![j] = pc]
    BY <1>3 DEF CheckQueue
  <2>2. /\ exec[j] = "created" /\ proc' = proc /\ UNCHANGED <<refresh, seen, skipped>>
        /\ \A k \in Jobs \ {j} : obj'[k] = obj[k]
    BY <1>1, <1>3 DEF CheckQueue
  <2>3. QED
    BY <2>1, <2>2, ExecutorReports
<1>4. CASE Refuse(j)
  BY <1>4, ExecutorReports DEF Refuse
<1>5. CASE Enqueue(j)
  BY <1>5, ExecutorReports DEF Enqueue
<1>6. CASE TakeSlot(j)
  BY <1>6, ExecutorReports DEF TakeSlot
<1>7. CASE StartInv(j)
  BY <1>7, ExecutorReports DEF StartInv
<1>8. CASE SetRunning(j)
  BY <1>1, <1>8, ExecutorReports DEF SetRunning
<1>9. CASE Spawn(j)
  <2>1. ~IsEnd(obj[j]) /\ obj[j] \in JobRecs /\ exec[j] = "spawn"
    BY <1>9 DEF Spawn, FileInv, CopiesInv, MemoryInv, Recs, Unfinished
  <2>2. CASE obj' = [obj EXCEPT ![j] = [obj[j] EXCEPT !.pid = TRUE]] /\ exec' = [exec EXCEPT ![j] = "wait"]
             /\ proc' = [proc EXCEPT ![j] = "running"]
    <3>1. ~IsEnd(obj'[j]) /\ \A k \in Jobs \ {j} : obj'[k] = obj[k]
      BY <1>1, <2>1, <2>2 DEF IsEnd, JobRecs
    <3>2. UNCHANGED <<refresh, seen, skipped>>
      BY <1>9 DEF Spawn
    <3>3. QED
      BY <2>1, <2>2, <3>1, <3>2, ExecutorReports
  <2>3. CASE exec' = [exec EXCEPT ![j] = "release"] /\ proc' = proc
    <3>1. UNCHANGED <<refresh, seen, skipped>> /\ \A k \in Jobs \ {j} : obj'[k] = obj[k]
      BY <1>1, <1>9 DEF Spawn
    <3>2. QED
      BY <2>1, <2>3, <3>1, ExecutorReports
  <2>4. QED
    BY <1>9, <2>2, <2>3 DEF Spawn
<1>10. CASE Wait(j)
  <2>1. PICK pc \in {"refresh", "final"} : exec' = [exec EXCEPT ![j] = pc] /\ (pc = "final" => j \notin RefreshJobs)
    BY <1>10 DEF Wait
  <2>2. exec[j] = "wait" /\ UNCHANGED <<obj, proc, refresh, seen, skipped>>
    BY <1>10 DEF Wait
  <2>3. QED
    BY <2>1, <2>2, ExecutorReports
<1>11. CASE SkipRefresh(j) \/ EndRefresh(j)
  BY <1>11, LeavesRefresh
<1>12. CASE BeginRefresh(j)
  BY <1>12, PollSeesReported DEF BeginRefresh
<1>13. CASE Finish(j)
  BY <1>1, <1>13, ExecutorReports DEF Finish
<1>14. CASE Release(j)
  BY <1>14, ExecutorReports DEF Release
<1>15. CASE Deadline(j)
  BY <1>1, <1>15, ProcessReports DEF Deadline
<1>16. QED
  BY <1>2, <1>3, <1>4, <1>5, <1>6, <1>7, <1>8, <1>9, <1>10, <1>11, <1>12, <1>13, <1>14, <1>15 DEF Execute

LEMMA ShowStep ==
    ASSUME FileInv, ShowInv, [Next]_vars
    PROVE  ShowInv'
<1>1. /\ proc \in [Jobs -> {"none", "running", "ok", "bad"}] /\ obj \in [Jobs -> JobRecs \cup {NoJob}]
      /\ exec \in [Jobs -> ExecStates] /\ refresh.by \in Jobs \cup {NoOne, AgiStatus}
  BY DEF FileInv, TypeInv
<1>2. CASE Executor
  BY <1>2, ExecuteShows DEF Executor
<1>3. CASE Process
  BY <1>1, <1>3, ProcessReports DEF Process, ProcLogs, ProcEnds, inv
<1>4. CASE Cancel
  <2>1. PICK k \in Jobs : CancelGet(k) \/ CancelSignal(k) \/ CancelFlag(k)
    BY <1>4, JobsAssumption DEF Cancel
  <2>2. UNCHANGED <<exec, refresh, seen, skipped>>
    BY <1>4 DEF Cancel, inv
  <2>3. CASE CancelGet(k)
    BY <2>2, <2>3, ProcessReports DEF CancelGet
  <2>4. CASE CancelSignal(k)
    BY <1>1, <2>2, <2>4, ProcessReports DEF CancelSignal
  <2>5. CASE CancelFlag(k)
    <3>1. /\ proc' = proc /\ obj' = [obj EXCEPT ![k].cancelled = TRUE] /\ obj[k] \in JobRecs
      BY <2>5 DEF CancelFlag, FileInv, MemoryInv
    <3>2. obj'[k].status = obj[k].status /\ \A m \in Jobs \ {k} : obj'[m] = obj[m]
      BY <1>1, <3>1 DEF JobRecs
    <3>3. \A m \in Jobs : Reported(m)' => Reported(m)
      BY <2>2, <3>1, <3>2 DEF Reported, IsEnd
    <3>4. \A m \in Jobs : exec'[m] \in Unstarted => proc'[m] = "none"
      BY <2>2, <3>1 DEF ShowInv
    <3>5. QED
      BY <2>2, <3>3, <3>4, ShowKept, JobsAssumption
  <2>6. QED
    BY <2>1, <2>3, <2>4, <2>5
<1>5. CASE Clean
  <2>1. UNCHANGED <<exec, proc, refresh, seen, skipped>>
    BY <1>5 DEF Clean, inv, world
  <2>2. \A m \in Jobs : obj'[m] \in {obj[m], NoJob}
    BY <1>1, <1>5 DEF Clean, CleanMap, CleanFile, FileInv, TypeInv
  <2>3. \A m \in Jobs : Reported(m)' => Reported(m)
    BY <2>1, <2>2, ValuesAssumption DEF Reported, IsEnd
  <2>4. \A m \in Jobs : exec'[m] \in Unstarted => proc'[m] = "none"
    BY <2>1 DEF ShowInv
  <2>5. QED
    BY <2>1, <2>3, <2>4, ShowKept, JobsAssumption
<1>6. CASE StatusRefresh
  <2>1. UNCHANGED <<exec, proc, obj, skipped>>
    BY <1>6 DEF StatusRefresh, world
  <2>2. CASE refresh' = [by |-> AgiStatus, snap |-> {k \in Jobs : Over(k)}] /\ UNCHANGED seen
    BY <2>1, <2>2, PollSeesReported, ValuesAssumption
  <2>3. CASE refresh.by = AgiStatus /\ refresh' = [by |-> NoOne, snap |-> {}] /\ seen' = refresh.snap
    <3>1. \A m \in Jobs : Reported(m)' = Reported(m)
      BY <2>1 DEF Reported, IsEnd
    <3>2. \A m \in Jobs : exec'[m] \in Unstarted => proc'[m] = "none"
      BY <2>1 DEF ShowInv
    <3> HIDE DEF Reported
    <3>3. QED
      BY <2>1, <2>3, <3>1, <3>2, ValuesAssumption, JobsAssumption DEF ShowInv
  <2>4. QED
    BY <1>6, <2>2, <2>3 DEF StatusRefresh
<1>7. CASE Exit \/ KillAll
  <2>1. /\ \A m \in Jobs : obj'[m] = NoJob /\ exec'[m] \in {"new", "ended"} /\ (exec'[m] = "new" => exec[m] = "new")
        /\ refresh' = [by |-> NoOne, snap |-> {}]
    BY <1>7 DEF Exit, KillAll, Gone
  <2>2. \A m \in Jobs : ~Reported(m)'
    BY <2>1, ValuesAssumption DEF Reported, IsEnd
  <2>3. \A m \in Jobs : proc[m] = "none" => proc'[m] = "none"
    BY <1>7 DEF Exit, KillAll
  <2>4. \A m \in Jobs : exec'[m] \in Unstarted => proc'[m] = "none"
    BY <2>1, <2>3 DEF ShowInv, Unstarted
  <2> HIDE DEF Reported
  <2>5. QED
    BY <2>1, <2>2, <2>4, ValuesAssumption, JobsAssumption DEF ShowInv
<1>8. CASE Start
  <2>1. /\ UNCHANGED <<exec, proc, refresh, skipped, file>> /\ seen' = {m \in Jobs : Over(m)}
        /\ \A m \in Jobs : obj'[m] \in {file[m], NoJob} /\ exec[m] \in {"new", "ended"}
        /\ refresh.by = NoOne
    BY <1>8 DEF Start, world, disk, FileInv, DownInv
  <2>2. ASSUME NEW m \in Jobs, Reported(m)' PROVE Over(m)
    <3>1. IsEnd(file[m]) => proc[m] # "running"
      BY DEF FileInv, CopiesInv, Recs, Honest, IsEnd
    <3>2. QED
      BY <1>1, <2>1, <2>2, <3>1, ValuesAssumption DEF Reported, IsEnd, Over
  <2>3. \A m \in Jobs : exec'[m] \in Unstarted => proc'[m] = "none"
    BY <2>1 DEF ShowInv
  <2>4. \A m \in RefreshJobs : Reported(m)' => m \in seen'
    BY <2>1, <2>2, JobsAssumption
  <2> HIDE DEF Reported
  <2>5. QED
    BY <2>1, <2>3, <2>4, ValuesAssumption DEF ShowInv
<1>9. CASE SaveJob \/ Streams \/ IntervalPasses \/ Drain \/ UNCHANGED vars
  <2>1. UNCHANGED <<exec, proc, obj, refresh, seen, skipped>>
    BY <1>9 DEF SaveJob, Streams, IntervalPasses, Drain, vars, inv, world
  <2>2. QED
    BY <2>1, ProcessReports
<1>10. QED
  BY <1>2, <1>3, <1>4, <1>5, <1>6, <1>7, <1>8, <1>9 DEF Next

(* However refreshes, the status poller's among them, follow each other    *)
(* and whenever the server is started again, an end that is told is shown. *)
THEOREM EndsAreShown == Spec => []EndShowsInInventory
<1>1. ShowInv /\ FileInv => EndShowsInInventory
  <2> SUFFICES ASSUME ShowInv, FileInv PROVE EndShowsInInventory
    OBVIOUS
  <2>1. \A j \in RefreshJobs : obj[j] # NoJob /\ obj[j].status \in Ended => IsEnd(obj[j])
    BY JobsAssumption DEF FileInv, TypeInv, IsEnd
  <2>2. QED
    BY <2>1 DEF EndShowsInInventory, ShowInv, Reported
<1>2. QED
  BY <1>1, FileInit, FileStep, ShowInit, ShowStep, PTL DEF Spec

-----------------------------------------------------------------------------
(*                             The log stream                              *)

StreamRecs == [at : {"off", "read", "poll", "last", "lost", "complete"}, sent : 0 .. 1, cut : BOOLEAN]

(* A stream that has seen the end has seen it of a command that is over,   *)
(* and no step of the executor, the canceller or a later life of the       *)
(* server lets that command run, or write, again.                          *)
StreamInv ==
    /\ stream \in [Watched -> StreamRecs]
    /\ \A j \in Watched : stream[j].at \in {"last", "complete"} =>
         /\ proc[j] # "running" /\ exec[j] \notin Unfinished
         /\ stream[j].at = "complete" /\ ~stream[j].cut => stream[j].sent = log[j]

LEMMA StreamInit == Init => StreamInv
  BY DEF Init, StreamInv, StreamRecs, NotStreaming

\* Whoever does not stream must not let a finished command run or write again.
LEMMA StreamKept ==
    ASSUME StreamInv, stream' = stream,
           \A j \in Watched : proc[j] # "running" /\ exec[j] \notin Unfinished =>
               proc'[j] # "running" /\ exec'[j] \notin Unfinished /\ log'[j] = log[j]
    PROVE  StreamInv'
  BY DEF StreamInv

LEMMA StreamStep ==
    ASSUME FileInv, StreamInv, [Next]_vars
    PROVE  StreamInv'
<1>1. /\ proc \in [Jobs -> {"none", "running", "ok", "bad"}] /\ obj \in [Jobs -> JobRecs \cup {NoJob}]
      /\ exec \in [Jobs -> ExecStates] /\ log \in [Jobs -> 0 .. 1] /\ Watched \subseteq Jobs
  BY JobsAssumption DEF FileInv, TypeInv
<1>2. CASE Executor
  <2>1. PICK k \in Jobs : Execute(k)
    BY <1>2 DEF Executor
  <2>2. stream' = stream /\ log' = log
    BY <1>2 DEF Executor
  <2>3. \A j \in Jobs \ {k} : exec'[j] = exec[j] /\ proc'[j] = proc[j]
    BY <1>1, <2>1 DEF Execute, CreateJob, CheckQueue, Refuse, Enqueue, TakeSlot, StartInv, SetRunning, Spawn, Wait,
                      SkipRefresh, BeginRefresh, EndRefresh, Finish, Release, Deadline, Update, Step
  <2>4. exec[k] \notin Unfinished => proc'[k] = proc[k] /\ exec'[k] = "ended"
    BY <1>1, <2>1 DEF Execute, CreateJob, CheckQueue, Refuse, Enqueue, TakeSlot, StartInv, SetRunning, Spawn, Wait,
                      SkipRefresh, BeginRefresh, EndRefresh, Finish, Release, Deadline, Update, Step, Unfinished, Unstarted
  <2>5. "ended" \notin Unfinished
    BY DEF Unfinished, Unstarted
  <2>6. \A j \in Watched : proc[j] # "running" /\ exec[j] \notin Unfinished =>
           proc'[j] # "running" /\ exec'[j] \notin Unfinished
    BY <1>1, <2>3, <2>4, <2>5
  <2>7. QED
    BY <2>2, <2>6, StreamKept
<1>3. CASE Process \/ Cancel
  <2>1. UNCHANGED <<stream, exec>>
    BY <1>3 DEF Process, Cancel
  <2>2. \A j \in Jobs : proc[j] # "running" => proc'[j] # "running" /\ log'[j] = log[j]
    BY <1>1, <1>3 DEF Process, ProcLogs, ProcEnds, Cancel, CancelGet, CancelSignal, CancelFlag
  <2>3. QED
    BY <1>1, <2>1, <2>2, StreamKept
<1>4. CASE Streams
  <2>1. PICK k \in Watched : Stream(k)
    BY <1>4 DEF Streams
  <2>2. UNCHANGED <<proc, log, exec>> /\ k \in Jobs
    BY <1>1, <1>4 DEF Streams, world
  <2>7. Sent(k) \in 0 .. 1 /\ (k \in gone) \in BOOLEAN /\ (k \notin gone => Sent(k) = log[k])
    BY <1>1, <2>2 DEF Sent, StreamInv, StreamRecs
  <2>8. StreamLast(k) => \E cut \in BOOLEAN, sent \in 0 .. 1 :
          /\ stream[k].at = "last" /\ stream' = [stream EXCEPT ![k] = [at |-> "complete", sent |-> sent, cut |-> cut]]
          /\ cut \/ sent = log[k]
    <3>1. CASE StreamLast(k) /\ stream' = [stream EXCEPT ![k] = [at |-> "complete", sent |-> Sent(k), cut |-> k \in gone]]
      <4>1. PICK cut \in BOOLEAN : cut = (k \in gone)
        BY <2>7
      <4>2. stream' = [stream EXCEPT ![k] = [at |-> "complete", sent |-> Sent(k), cut |-> cut]]
        BY <3>1, <4>1
      <4>3. stream[k].at = "last" /\ (cut \/ Sent(k) = log[k])
        BY <2>7, <3>1, <4>1 DEF StreamLast
      <4>4. QED
        BY <2>7, <4>2, <4>3
    <3>2. CASE StreamLast(k) /\ stream' = [stream EXCEPT ![k] = [at |-> "complete", sent |-> stream[k].sent, cut |-> TRUE]]
      BY <3>2 DEF StreamLast, StreamInv, StreamRecs
    <3>3. QED
      BY <3>1, <3>2 DEF StreamLast
  <2>3. stream' \in [Watched -> StreamRecs]
    <3>1. CASE StreamOpen(k) \/ StreamRead(k) \/ StreamPoll(k)
      BY <1>1, <2>7, <3>1 DEF StreamOpen, StreamRead, StreamPoll, StreamInv, StreamRecs
    <3>2. CASE StreamLast(k)
      BY <2>8, <3>2 DEF StreamInv, StreamRecs
    <3>3. QED
      BY <2>1, <3>1, <3>2 DEF Stream
  <2>4. \A j \in Watched \ {k} : stream'[j] = stream[j]
    BY <2>1 DEF Stream, StreamOpen, StreamRead, StreamPoll, StreamLast, StreamInv
  <2>5. stream'[k].at \in {"last", "complete"} =>
          /\ proc[k] # "running" /\ exec[k] \notin Unfinished
          /\ stream'[k].at = "complete" /\ ~stream'[k].cut => stream'[k].sent = log[k]
    <3>1. CASE StreamOpen(k) \/ StreamRead(k)
      BY <2>1, <3>1 DEF StreamOpen, StreamRead, StreamInv, StreamRecs
    <3>2. CASE StreamPoll(k)
      <4>1. stream'[k].at = IF obj[k] = NoJob THEN "lost" ELSE IF obj[k].status \in Ended THEN "last" ELSE "read"
        BY <3>2 DEF StreamPoll, StreamInv, StreamRecs
      <4>2. IsEnd(obj[k]) => proc[k] # "running" /\ exec[k] \notin Unfinished
        BY <2>2 DEF FileInv, CopiesInv, Recs, Honest, IsEnd
      <4>3. obj[k] # NoJob => obj[k] \in JobRecs
        BY <1>1, <2>2
      <4>4. QED
        BY <4>1, <4>2, <4>3 DEF IsEnd
    <3>3. CASE StreamLast(k)
      <4>1. stream[k].at = "last" /\ (stream'[k].cut \/ stream'[k].sent = log[k])
        BY <2>8, <3>3 DEF StreamInv
      <4>2. QED
        BY <4>1 DEF StreamInv
    <3>4. QED
      BY <2>1, <3>1, <3>2, <3>3 DEF Stream
  <2>6. QED
    BY <2>2, <2>3, <2>4, <2>5 DEF StreamInv
<1>5. CASE Exit \/ KillAll
  <2>1. stream' = [j \in Watched |-> NotStreaming]
    BY <1>5 DEF Exit, KillAll, Gone
  <2>2. QED
    BY <2>1 DEF StreamInv, StreamRecs, NotStreaming
<1>6. CASE SaveJob \/ Clean \/ StatusRefresh \/ IntervalPasses \/ Drain \/ Start \/ UNCHANGED vars
  <2>1. UNCHANGED <<exec, proc, log, stream>>
    BY <1>6 DEF SaveJob, Clean, StatusRefresh, IntervalPasses, Drain, Start, vars, world
  <2>2. QED
    BY <2>1, StreamKept
<1>7. QED
  BY <1>2, <1>3, <1>4, <1>5, <1>6 DEF Next

(* Whenever the end is noticed between two reads, and however the job came *)
(* to it, a stream that ends with the event complete has sent all of the   *)
(* log, unless its last read failed or the cleaner had taken the log; and  *)
(* nothing is written after it.                                            *)
THEOREM CompleteStreamsAreWhole == Spec => []CompleteStreamIsWhole
<1>1. StreamInv => CompleteStreamIsWhole
  BY DEF StreamInv, CompleteStreamIsWhole
<1>2. QED
  BY <1>1, FileInit, FileStep, StreamInit, StreamStep, PTL DEF Spec

=============================================================================
