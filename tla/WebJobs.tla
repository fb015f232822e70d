------------------------------ MODULE WebJobs ------------------------------
(***************************************************************************)
(* The job queue of the web UI server (cli/cmd/v1/cmdWebUIJobs.go, the job *)
(* handlers of cmdWebUI.go and cmdWebUIInventory.go).  A request creates a *)
(* job; a goroutine waits for a slot, runs the command as a subprocess and *)
(* records how it ended; a second request may cancel it; a third streams   *)
(* its log; a ticker removes old jobs.  All of them share one Job struct   *)
(* and one command.json, which SaveJob replaces by way of a temporary      *)
(* file.  The server may be told to stop, or die, and be started again     *)
(* over the same directory while the subprocesses live on.                 *)
(*                                                                         *)
(* One JobManager map entry is one Job: GetJob's disk lookup can only miss *)
(* once loadExistingJobs has run.  Process ids are never reused.           *)
(***************************************************************************)
EXTENDS Integers, FiniteSets

CONSTANTS Jobs,          \* job ids
          InvJobs,       \* the jobs that handleInventoryAction creates
          RefreshJobs,   \* the jobs with RefreshInventory
          Watched,       \* bound: the jobs whose log somebody streams
          Cancellable,   \* bound: the jobs somebody cancels, once in a life of the server
          MaxConcurrent, \* --max-concurrent-job
          MaxQueued,     \* --max-queued-job
          MaxRestarts,   \* bound: server lives after the first
          StatusPage,    \* whether somebody has the AGI status page open
          NoJob, Empty, Torn, NoOne, AgiStatus   \* model values

ASSUME JobsAssumption == IsFiniteSet(Jobs) /\ InvJobs \subseteq RefreshJobs /\ RefreshJobs \subseteq Jobs /\ Watched \cup Cancellable \subseteq Jobs
ASSUME LimitAssumption == MaxConcurrent \in Nat \ {0} /\ MaxQueued \in Nat \ {0} /\ MaxRestarts \in Nat /\ StatusPage \in BOOLEAN

VARIABLES
  server,     \* up, draining (shuttingDown), or down
  restarts,   \* times it was started again
  obj,        \* jm.jobs: the shared Job
  file,       \* command.json
  tmp,        \* command.json.tmp
  save,       \* SaveJob as the job's executor and its canceller call it
  exec,       \* executeCommand and then executeJobAsync
  slots,      \* jobs that hold the semaphore
  pending,    \* c.pendingJobs
  proc,       \* the subprocess
  log,        \* chunks written to command.log
  gone,       \* the watched jobs whose command.log was removed
  deadline,   \* jobs whose context has timed out
  cancel,     \* handleCancelJob
  signalled,  \* jobs whose process was sent a signal by it
  cleaner,    \* CleanupOldJobs: the job whose directory it has just removed
  stream,     \* handleJobLogsStream: where it is, the chunks it has sent, and whether its
              \* last read failed or found no file
  refresh,    \* who holds lastInventoryRefreshMu and the jobs its poll has seen
  recent,     \* less than the minimum interval since the last refresh
  seen,       \* the jobs whose effect the server's inventory shows
  skipped     \* jobs that ended with their refresh skipped or failed

disk  == <<file, tmp>>
inv   == <<refresh, recent, seen, skipped>>
world == <<proc, log, gone, deadline, signalled>>
queue == <<slots, pending>>
vars  == <<server, restarts, obj, disk, save, exec, queue, world, cancel, cleaner, stream, inv>>

Writers  == {"exec", "cancel"}
Ended    == {"completed", "failed", "error"}
JobRecs  == [status : {"pending", "running"} \cup Ended,
             why : {"", "full", "timeout", "cancel", "exit"},
             pid : BOOLEAN, cancelled : BOOLEAN]
ASSUME ValuesAssumption == {NoOne, AgiStatus} \cap Jobs = {} /\ NoOne # AgiStatus /\ {NoJob, Empty, Torn} \cap JobRecs = {}
NotSaving == [at |-> "idle", rec |-> NoJob, fd |-> "tmp"]
NotStreaming == [at |-> "off", sent |-> 0, cut |-> FALSE]
ExecStates == {"new", "created", "checked", "refused", "queued", "start", "spawn", "wait",
               "refresh", "final", "release", "ended"}

Alive   == server # "down"
Over(j) == proc[j] \in {"ok", "bad"}
\* The executor's last SaveJob has returned.
Ready(j, w) == Alive /\ save[j][w].at = "idle"
\* Call SaveJob.
Saving(j, w) == [save EXCEPT ![j][w] = [at |-> "open", rec |-> NoJob, fd |-> "tmp"]]

Init ==
  /\ server = "up" /\ restarts = 0
  /\ obj = [j \in Jobs |-> NoJob]
  /\ file = [j \in Jobs |-> NoJob] /\ tmp = [j \in Jobs |-> NoJob]
  /\ save = [j \in Jobs |-> [w \in Writers |-> NotSaving]]
  /\ exec = [j \in Jobs |-> "new"] /\ slots = {} /\ pending = 0
  /\ proc = [j \in Jobs |-> "none"] /\ log = [j \in Jobs |-> 0]
  /\ deadline = {} /\ signalled = {}
  /\ cancel = [j \in Jobs |-> "idle"] /\ cleaner = NoOne
  /\ stream = [j \in Watched |-> NotStreaming] /\ gone = {}
  /\ refresh = [by |-> NoOne, snap |-> {}] /\ recent = FALSE
  /\ seen = {} /\ skipped = {}

-----------------------------------------------------------------------------
(*                                 SaveJob                                 *)

(* Marshal the job, and let WriteFile create or truncate the temporary.    *)
SaveOpen(j, w) ==
  /\ Alive /\ save[j][w].at = "open"
  /\ save' = [save EXCEPT ![j][w] = [at |-> "write", rec |-> obj[j], fd |-> "tmp"]]
  /\ tmp' = [tmp EXCEPT ![j] = Empty]
  /\ UNCHANGED file

\* What a file holds once rec is written from offset 0 after old: two records
\* that differ differ in length.
Over0(old, rec) == IF old \in {Empty, rec} THEN rec ELSE Torn

(* The descriptor follows the file that a concurrent save renamed.         *)
SaveWrite(j, w) ==
  LET s == save[j][w] IN
  /\ Alive /\ s.at = "write"
  /\ save' = [save EXCEPT ![j][w] = [NotSaving EXCEPT !.at = "rename"]]
  /\ tmp'  = IF s.fd = "tmp" THEN [tmp EXCEPT ![j] = Over0(@, s.rec)] ELSE tmp
  /\ file' = IF s.fd = "json" THEN [file EXCEPT ![j] = Over0(@, s.rec)] ELSE file

\* The descriptors of the pending writes once what fd names is called to[fd].
Moved(s, to) == [w \in Writers |-> IF s[w].at = "write" THEN [s[w] EXCEPT !.fd = to[@]] ELSE s[w]]

SaveRename(j, w) ==
  /\ Alive /\ save[j][w].at = "rename" /\ tmp[j] # NoJob
  /\ file' = [file EXCEPT ![j] = tmp[j]]
  /\ tmp' = [tmp EXCEPT ![j] = NoJob]
  /\ save' = [save EXCEPT ![j] = Moved([@ EXCEPT ![w] = NotSaving],
                                       [tmp |-> "json", json |-> "gone", gone |-> "gone"])]

\* The rename failed: remove the temporary file, whoever made it since.
SaveRemove(j, w) ==
  /\ Alive
  /\ \/ /\ save[j][w].at = "rename" /\ tmp[j] = NoJob
        /\ save' = [save EXCEPT ![j][w].at = "remove"]
        /\ tmp' = tmp
     \/ /\ save[j][w].at = "remove"
        /\ save' = [save EXCEPT ![j] = Moved([@ EXCEPT ![w] = NotSaving],
                                             [tmp |-> "gone", json |-> "json", gone |-> "gone"])]
        /\ tmp' = [tmp EXCEPT ![j] = NoJob]
  /\ UNCHANGED file

SaveJob == \E j \in Jobs, w \in Writers :
  /\ SaveOpen(j, w) \/ SaveWrite(j, w) \/ SaveRename(j, w) \/ SaveRemove(j, w)
  /\ UNCHANGED <<server, restarts, obj, exec, queue, world, cancel, cleaner, stream, inv>>

-----------------------------------------------------------------------------
(*                     executeCommand, executeJobAsync                     *)

\* exec[j] goes to pc and nothing is saved.
Step(j, pc) == exec' = [exec EXCEPT ![j] = pc] /\ UNCHANGED <<obj, save>>

\* UpdateJobStatus: the shared job is changed to rec and saved; exec[j] goes on
\* from pc when the save has returned.
Update(j, rec, pc) ==
  /\ exec' = [exec EXCEPT ![j] = pc]
  /\ obj' = [obj EXCEPT ![j] = rec]
  /\ save' = Saving(j, "exec")

(* CreateJob.  executeCommand asks shuttingDown first; handleInventoryAction *)
(* does not, and may be called until the last connection is drained.         *)
CreateJob(j) ==
  /\ exec[j] = "new" /\ server \in {"up"} \cup (IF j \in InvJobs THEN {"draining"} ELSE {})
  /\ Update(j, [status |-> "pending", why |-> "", pid |-> FALSE, cancelled |-> FALSE], "created")
  /\ UNCHANGED <<queue, proc, deadline, inv>>

(* The queue limit is read here and counted against in Enqueue.            *)
CheckQueue(j) ==
  /\ exec[j] = "created" /\ Ready(j, "exec") /\ j \notin InvJobs
  /\ IF pending >= MaxConcurrent + MaxQueued
     THEN Update(j, [obj[j] EXCEPT !.status = "failed", !.why = "full"], "refused")
     ELSE Step(j, "checked")
  /\ UNCHANGED <<queue, proc, deadline, inv>>

Refuse(j) ==
  /\ exec[j] = "refused" /\ Ready(j, "exec")
  /\ Step(j, "ended")
  /\ UNCHANGED <<queue, proc, deadline, inv>>

Enqueue(j) ==
  /\ exec[j] = "checked" /\ Alive
  /\ pending' = pending + 1
  /\ Step(j, "queued")
  /\ UNCHANGED <<slots, proc, deadline, inv>>

TakeSlot(j) ==
  /\ exec[j] = "queued" /\ Alive /\ Cardinality(slots) < MaxConcurrent
  /\ slots' = slots \cup {j}
  /\ Step(j, "start")
  /\ UNCHANGED <<pending, proc, deadline, inv>>

\* handleInventoryAction starts executeJobAsync outright.
StartInv(j) ==
  /\ exec[j] = "created" /\ Ready(j, "exec") /\ j \in InvJobs
  /\ Step(j, "start")
  /\ UNCHANGED <<queue, proc, deadline, inv>>

SetRunning(j) ==
  /\ exec[j] = "start" /\ Alive
  /\ Update(j, [obj[j] EXCEPT !.status = "running"], "spawn")
  /\ UNCHANGED <<queue, proc, deadline, inv>>

\* Bug: a command that cannot be started keeps its slot.
Spawn_Leak(j) ==
  /\ exec[j] = "spawn" /\ Ready(j, "exec")
  /\ \/ /\ Update(j, [obj[j] EXCEPT !.pid = TRUE], "wait")
        /\ proc' = [proc EXCEPT ![j] = "running"]
     \/ /\ Update(j, [obj[j] EXCEPT !.status = "error"], "ended")
        /\ UNCHANGED proc
  /\ UNCHANGED <<queue, deadline, inv>>

\* cmd.Start, and the save of the process id.
Spawn(j) ==
  /\ exec[j] = "spawn" /\ Ready(j, "exec")
  /\ \/ /\ Update(j, [obj[j] EXCEPT !.pid = TRUE], "wait")
        /\ proc' = [proc EXCEPT ![j] = "running"]
     \/ /\ Update(j, [obj[j] EXCEPT !.status = "error"], "release")
        /\ UNCHANGED proc
  /\ UNCHANGED <<queue, deadline, inv>>

\* Bug: the status is set and then the inventory is refreshed, by nobody.
Wait_NoRefresh(j) ==
  /\ exec[j] = "wait" /\ Ready(j, "exec") /\ Over(j)
  /\ Step(j, "final")
  /\ UNCHANGED <<queue, proc, deadline, inv>>

\* cmd.Wait reaps the process.
Wait(j) ==
  /\ exec[j] = "wait" /\ Ready(j, "exec") /\ Over(j)
  /\ Step(j, IF j \in RefreshJobs THEN "refresh" ELSE "final")
  /\ UNCHANGED <<queue, proc, deadline, inv>>

(* forceRefreshInventoryIfAllowed under its mutex: skip when the last one  *)
(* is recent, else poll the cloud.  Three failures in a row are one step.  *)
SkipRefresh(j) ==
  /\ exec[j] = "refresh" /\ Alive /\ refresh.by = NoOne
  /\ skipped' = skipped \cup {j}
  /\ Step(j, "final")
  /\ UNCHANGED <<queue, proc, deadline, refresh, recent, seen>>

BeginRefresh(j) ==
  /\ exec[j] = "refresh" /\ Alive /\ refresh.by = NoOne /\ ~recent
  /\ refresh' = [by |-> j, snap |-> {k \in Jobs : Over(k)}]
  /\ UNCHANGED <<obj, save, exec, queue, proc, deadline, recent, seen, skipped>>

EndRefresh(j) ==
  /\ exec[j] = "refresh" /\ Alive /\ refresh.by = j
  /\ refresh' = [by |-> NoOne, snap |-> {}]
  /\ seen' = refresh.snap /\ recent' = TRUE
  /\ Step(j, "final")
  /\ UNCHANGED <<queue, proc, deadline, skipped>>

\* How the job is reported: the deadline first, then the cancellation, and
\* only then what the process did.
Outcome(j) ==
  LET failed(why) == [obj[j] EXCEPT !.status = "failed", !.why = why] IN
  IF j \in deadline THEN failed("timeout")
  ELSE IF obj[j].cancelled THEN failed("cancel")
  ELSE IF proc[j] = "bad" THEN failed("exit")
  ELSE [obj[j] EXCEPT !.status = "completed"]

Finish(j) ==
  /\ exec[j] = "final" /\ Alive
  /\ Update(j, Outcome(j), "release")
  /\ UNCHANGED <<queue, proc, deadline, inv>>

\* The deferred calls: the semaphore, then pendingJobs.
Release(j) ==
  /\ exec[j] = "release" /\ Ready(j, "exec")
  /\ slots' = slots \ {j}
  /\ pending' = IF j \in InvJobs THEN pending ELSE pending - 1
  /\ Step(j, "ended")
  /\ UNCHANGED <<proc, deadline, inv>>

\* The context's timer, at any time before Finish asks ctx.Err.
Deadline(j) ==
  /\ exec[j] \in {"wait", "refresh", "final"} /\ Alive /\ j \notin deadline
  /\ deadline' = deadline \cup {j}
  /\ proc' = [proc EXCEPT ![j] = IF @ = "running" THEN "bad" ELSE @]
  /\ UNCHANGED <<obj, save, exec, queue, inv>>

Execute(j) ==
  \/ CreateJob(j) \/ CheckQueue(j) \/ Refuse(j) \/ Enqueue(j) \/ TakeSlot(j) \/ StartInv(j)
  \/ SetRunning(j) \/ Spawn(j) \/ Wait(j) \/ SkipRefresh(j) \/ BeginRefresh(j) \/ EndRefresh(j)
  \/ Finish(j) \/ Release(j) \/ Deadline(j)

Executor == \E j \in Jobs :
  /\ Execute(j)
  /\ UNCHANGED <<server, restarts, disk, log, gone, signalled, cancel, cleaner, stream>>

-----------------------------------------------------------------------------
(*       The subprocess, cancellation, the log stream and the cleaner      *)

\* What nobody streams need not be written.
ProcLogs(j) == j \in Watched /\ proc[j] = "running" /\ log[j] = 0 /\ log' = [log EXCEPT ![j] = 1] /\ UNCHANGED proc
ProcEnds(j) ==
  /\ proc[j] = "running" /\ UNCHANGED log
  /\ \E how \in {"ok", "bad"} : proc' = [proc EXCEPT ![j] = how]

Process == \E j \in Jobs :
  /\ ProcLogs(j) \/ ProcEnds(j)
  /\ UNCHANGED <<server, restarts, obj, disk, save, exec, queue, gone, deadline, signalled, cancel, cleaner, stream, inv>>

\* handleCancelJob up to the checks.
CancelGet(j) ==
  /\ cancel[j] = "idle" /\ Alive /\ obj[j] # NoJob
  /\ obj[j].status = "running" /\ obj[j].pid
  /\ cancel' = [cancel EXCEPT ![j] = "signal"]
  /\ UNCHANGED <<obj, save, proc, signalled>>

\* Bug: a process that is gone is taken for one that was signalled.
CancelSignal_Gone(j) ==
  /\ cancel[j] = "signal" /\ Alive
  /\ cancel' = [cancel EXCEPT ![j] = "flag"]
  /\ IF Over(j) /\ exec[j] # "wait" THEN UNCHANGED <<proc, signalled>>
     ELSE /\ signalled' = signalled \cup {j}
          /\ \E how \in {"running", "bad"} : proc' = [proc EXCEPT ![j] = IF @ = "running" THEN how ELSE @]
  /\ UNCHANGED <<obj, save>>

\* A process that was reaped answers 410; one that was not gets the signal.
CancelSignal(j) ==
  /\ cancel[j] = "signal" /\ Alive
  /\ IF Over(j) /\ exec[j] # "wait"
     THEN /\ cancel' = [cancel EXCEPT ![j] = "done"] /\ UNCHANGED <<proc, signalled>>
     ELSE /\ cancel' = [cancel EXCEPT ![j] = "flag"]
          /\ signalled' = signalled \cup {j}
          /\ \E how \in {"running", "bad"} : proc' = [proc EXCEPT ![j] = IF @ = "running" THEN how ELSE @]
  /\ UNCHANGED <<obj, save>>

\* Bug: the handler sets the final status itself.
CancelFlag_Ends(j) ==
  /\ cancel[j] = "flag" /\ Alive
  /\ obj' = [obj EXCEPT ![j] = [@ EXCEPT !.cancelled = TRUE, !.status = "failed", !.why = "cancel"]]
  /\ save' = Saving(j, "cancel")
  /\ cancel' = [cancel EXCEPT ![j] = "done"]
  /\ UNCHANGED <<proc, signalled>>

\* job.Cancelled = true, and SaveJob.
CancelFlag(j) ==
  /\ cancel[j] = "flag" /\ Alive
  /\ obj' = [obj EXCEPT ![j].cancelled = TRUE]
  /\ save' = Saving(j, "cancel")
  /\ cancel' = [cancel EXCEPT ![j] = "done"]
  /\ UNCHANGED <<proc, signalled>>

Cancel == \E j \in Cancellable :
  /\ CancelGet(j) \/ CancelSignal(j) \/ CancelFlag(j)
  /\ UNCHANGED <<server, restarts, disk, exec, queue, log, gone, deadline, cleaner, stream, inv>>

StreamOpen(j) == stream[j].at = "off" /\ obj[j] # NoJob /\ stream' = [stream EXCEPT ![j].at = "read"]

\* ReadLogsFromOffset, once it can read: there is nothing in a file that is not there.
Sent(j) == IF j \in gone THEN stream[j].sent ELSE log[j]

\* A read that fails ends the stream with the event error.
StreamRead(j) ==
  /\ stream[j].at = "read"
  /\ \/ stream' = [stream EXCEPT ![j].at = "poll", ![j].sent = Sent(j)]
     \/ stream' = [stream EXCEPT ![j].at = "lost"]

\* Bug: only a job that completed ends the stream.
StreamPoll_Completed(j) ==
  /\ stream[j].at = "poll"
  /\ stream' = [stream EXCEPT ![j].at = IF obj[j] = NoJob THEN "lost"
                                        ELSE IF obj[j].status = "completed" THEN "last" ELSE "read"]
\* GetJob again; a job that has ended has its last logs sent next.
StreamPoll(j) ==
  /\ stream[j].at = "poll"
  /\ stream' = [stream EXCEPT ![j].at = IF obj[j] = NoJob THEN "lost"
                                        ELSE IF obj[j].status \in Ended THEN "last" ELSE "read"]

\* Bug: the remaining logs are not read again.
StreamLast_NoRead(j) ==
  /\ stream[j].at = "last" /\ stream' = [stream EXCEPT ![j].at = "complete"]

\* sendRemainingLogs, and the event complete, whether or not they could be read.
StreamLast(j) ==
  /\ stream[j].at = "last"
  /\ \/ stream' = [stream EXCEPT ![j] = [at |-> "complete", sent |-> Sent(j), cut |-> j \in gone]]
     \/ stream' = [stream EXCEPT ![j] = [at |-> "complete", sent |-> stream[j].sent, cut |-> TRUE]]

Stream(j) == Alive /\ (StreamOpen(j) \/ StreamRead(j) \/ StreamPoll(j) \/ StreamLast(j))
Streams == \E j \in Watched :
  Stream(j) /\ UNCHANGED <<server, restarts, obj, disk, save, exec, queue, world, cancel, cleaner, inv>>

(* CleanupOldJobs goes by the status in the file.  Jobs are old enough only *)
(* hours after they ended: every request that found them has been answered. *)
(* A RemoveAll that fails has removed some of the files, and the job stays. *)
CleanFile(j) ==
  /\ server = "up" /\ cleaner = NoOne
  /\ file[j] \in JobRecs /\ file[j].status \in Ended
  /\ exec[j] = "ended" /\ cancel[j] \in {"idle", "done"} /\ \A w \in Writers : save[j][w] = NotSaving
  /\ \/ /\ file' = [file EXCEPT ![j] = NoJob] /\ tmp' = [tmp EXCEPT ![j] = NoJob]
        /\ gone' = gone \cup ({j} \cap Watched) /\ cleaner' = j
     \/ /\ file' \in {file, [file EXCEPT ![j] = NoJob]} /\ tmp' \in {tmp, [tmp EXCEPT ![j] = NoJob]}
        /\ gone' \in {gone, gone \cup ({j} \cap Watched)} /\ cleaner' = cleaner
  /\ UNCHANGED obj
CleanMap ==
  /\ Alive /\ cleaner # NoOne
  /\ obj' = [obj EXCEPT ![cleaner] = NoJob]
  /\ cleaner' = NoOne
  /\ UNCHANGED <<disk, gone>>

Clean ==
  /\ CleanMap \/ \E j \in Jobs : CleanFile(j)
  /\ UNCHANGED <<server, restarts, save, exec, queue, proc, log, deadline, signalled, cancel, stream, inv>>

(* The AGI status poller refreshes too, when an instance does not answer.  *)
StatusRefresh ==
  /\ Alive
  /\ \/ /\ StatusPage /\ refresh.by = NoOne /\ ~recent
        /\ refresh' = [by |-> AgiStatus, snap |-> {k \in Jobs : Over(k)}]
        /\ UNCHANGED <<recent, seen>>
     \/ /\ refresh.by = AgiStatus
        /\ refresh' = [by |-> NoOne, snap |-> {}]
        /\ seen' = refresh.snap /\ recent' = TRUE
  /\ UNCHANGED <<server, restarts, obj, disk, save, exec, queue, world, cancel, cleaner, stream, skipped>>

IntervalPasses ==
  /\ recent /\ recent' = FALSE
  /\ UNCHANGED <<server, restarts, obj, disk, save, exec, queue, world, cancel, cleaner, stream, refresh, seen, skipped>>

-----------------------------------------------------------------------------
(*                     Signals, death and the next life                    *)

\* The first SIGTERM: no more commands; ListenAndServe returns at once.
Drain ==
  /\ server = "up" /\ server' = "draining"
  /\ UNCHANGED <<restarts, obj, disk, save, exec, queue, world, cancel, cleaner, stream, inv>>

\* What is left of a server that is gone: its files and its subprocesses.
Gone ==
  /\ server' = "down"
  /\ obj' = [j \in Jobs |-> NoJob]
  /\ save' = [j \in Jobs |-> [w \in Writers |-> NotSaving]]
  /\ exec' = [j \in Jobs |-> IF exec[j] = "new" THEN "new" ELSE "ended"]
  /\ slots' = {} /\ pending' = 0 /\ deadline' = {}
  /\ cancel' = [j \in Jobs |-> "idle"] /\ cleaner' = NoOne
  /\ stream' = [j \in Watched |-> NotStreaming]
  /\ refresh' = [by |-> NoOne, snap |-> {}] /\ recent' = FALSE /\ seen' = {} /\ skipped' = {}
  /\ UNCHANGED <<restarts, disk, log, gone, signalled>>

\* main returns without waiting for jobWg, or the process is killed.
Exit == Alive /\ Gone /\ UNCHANGED proc

\* The second SIGTERM: KillAllRunningJobs, and exit.
KillAll ==
  /\ server = "draining" /\ Gone
  /\ proc' = [j \in Jobs |-> IF obj[j] # NoJob /\ obj[j].status = "running" /\ obj[j].pid /\ proc[j] = "running"
                              THEN "bad" ELSE proc[j]]

\* NewJobManager loads what it can parse; the inventory is read afresh.
Start ==
  /\ server = "down" /\ restarts < MaxRestarts
  /\ server' = "up" /\ restarts' = restarts + 1
  /\ obj' = [j \in Jobs |-> IF file[j] \in JobRecs THEN file[j] ELSE NoJob]
  /\ seen' = {j \in Jobs : Over(j)}
  /\ UNCHANGED <<disk, save, exec, queue, world, cancel, cleaner, stream, refresh, recent, skipped>>

Next == SaveJob \/ Executor \/ Process \/ Cancel \/ Streams \/ Clean \/ StatusRefresh \/ IntervalPasses
        \/ Drain \/ Exit \/ KillAll \/ Start

Spec == Init /\ [][Next]_vars

Frame(j) == UNCHANGED <<server, restarts, disk, log, gone, signalled, cancel, cleaner, stream>>
SaveFrame == UNCHANGED <<server, restarts, obj, exec, queue, world, cancel, cleaner, stream, inv>>
ExecFair(j) == exec[j] # "new" /\ Execute(j) /\ deadline' = deadline /\ Frame(j)
SaveFair(j) == SaveFrame /\ \E w \in Writers :
  SaveOpen(j, w) \/ SaveWrite(j, w) \/ SaveRename(j, w) \/ SaveRemove(j, w)
ProcFair(j) == ProcEnds(j) /\ UNCHANGED <<server, restarts, obj, disk, save, exec, queue, gone, deadline, signalled, cancel, cleaner, stream, inv>>
StreamFair(j) == stream[j].at # "off" /\ Stream(j) /\ UNCHANGED <<server, restarts, obj, disk, save, exec, queue, world, cancel, cleaner, inv>>

(* Goroutines run on and are not starved of a mutex or a channel, a poll   *)
(* answers, a save returns, and every command ends or is ended by          *)
(* --max-job-runtime.  Nobody has to send a request or a signal.           *)
FairSpec ==
  /\ Spec
  /\ \A j \in Jobs : SF_vars(ExecFair(j)) /\ WF_vars(SaveFair(j)) /\ WF_vars(ProcFair(j))
  /\ \A j \in Watched : WF_vars(StreamFair(j))
  /\ WF_vars(refresh.by = AgiStatus /\ StatusRefresh)

-----------------------------------------------------------------------------
(*                               Properties                                *)

TypeOK ==
  /\ server \in {"up", "draining", "down"} /\ restarts \in 0 .. MaxRestarts
  /\ \A j \in Jobs : /\ obj[j] \in JobRecs \cup {NoJob}
                     /\ file[j] \in JobRecs \cup {NoJob, Empty, Torn}
                     /\ tmp[j] \in JobRecs \cup {NoJob, Empty, Torn}
  /\ exec \in [Jobs -> ExecStates] /\ cancel \in [Jobs -> {"idle", "signal", "flag", "done"}]
  /\ proc \in [Jobs -> {"none", "running", "ok", "bad"}] /\ log \in [Jobs -> 0 .. 1]
  /\ slots \cup deadline \cup signalled \cup seen \cup skipped \subseteq Jobs
  /\ gone \subseteq Watched /\ cleaner \in Jobs \cup {NoOne} /\ refresh.by \in Jobs \cup {NoOne, AgiStatus}

\* The queue's goroutines in one of the states S.
At(S)   == {j \in Jobs \ InvJobs : exec[j] \in S}
Holding == {"start", "spawn", "wait", "refresh", "final", "release"}

(* Every slot and every unit of pendingJobs belongs to a job on its way,   *)
(* and no more than MaxConcurrent jobs hold a slot: no early return keeps  *)
(* one, and the counter that requests are refused by does not drift.       *)
QueueAccounted ==
  /\ slots = At(Holding)
  /\ pending = Cardinality(slots) + Cardinality(At({"queued"}))
  /\ Cardinality(slots) <= MaxConcurrent

(* "Max number of jobs to run concurrently", "Max number of jobs to queue  *)
(* for execution": requests that are not refused stay within their sum.     *)
QueueLimitHolds == pending <= MaxConcurrent + MaxQueued

(* What command.json says of an end is true, in this life of the server or *)
(* a later one: a job reads completed only when its command succeeded, and *)
(* cancelled only when its process was sent a signal; and a directory is   *)
(* never taken from a running command.                                     *)
FileTellsTheTruth ==
  /\ TypeOK
  /\ \A j \in Jobs : file[j] \in JobRecs =>
       /\ file[j].status = "completed" => proc[j] = "ok"
       /\ file[j].why = "cancel" => j \in signalled
       /\ file[j].status \in Ended => proc[j] # "running"

(* "SaveJob saves a job to disk atomically": with no save under way, the   *)
(* file is what the memory says, cancelled or not.                         *)
SaveIsAtomic ==
  \A j \in Jobs : /\ Alive /\ obj[j] # NoJob /\ cleaner # j
                  /\ \A w \in Writers : save[j][w] = NotSaving
                  => file[j] = obj[j]

(* A stream that ends with the event complete is that of a command that is *)
(* over, and has sent the whole log, unless its last read failed or the    *)
(* cleaner had taken the log.                                              *)
CompleteStreamIsWhole ==
  \A j \in Watched : stream[j].at = "complete" =>
    proc[j] # "running" /\ (stream[j].cut \/ stream[j].sent = log[j])

(* "Read any final logs that may have been written between last read and   *)
(* status change": what a stream has sent by the event complete is all.    *)
FinalLogsAreRead ==
  \A j \in Watched : stream[j].at = "complete" => stream[j].sent = log[j]

(* When a job that changes the cloud is reported ended, the server's       *)
(* inventory shows what its command did, unless the refresh was skipped.   *)
EndShowsInInventory ==
  \A j \in RefreshJobs : Alive /\ obj[j] # NoJob /\ obj[j].status \in Ended /\ proc[j] # "none"
                         => j \in seen \cup skipped

(* Within one life of the server a reported end is final.                  *)
EndsAreFinal ==
  [][\A j \in Jobs : (Alive /\ obj[j] # NoJob /\ obj[j].status \in Ended /\ Alive')
       => obj'[j] = NoJob \/ (obj'[j].status = obj[j].status /\ obj'[j].why = obj[j].why)]_vars

(* While the server lives, every job that was accepted is given its end,   *)
(* and whoever streams its log is told.                                    *)
JobsEnd ==
  /\ \A j \in Jobs : exec[j] \notin {"new", "ended"} ~> exec[j] = "ended"
  /\ \A j \in Watched : (exec[j] # "ended" /\ stream[j].at # "off")
                        ~> stream[j].at \in {"off", "complete", "lost"}

=============================================================================
