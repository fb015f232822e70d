----------------------------- MODULE AgiMonitor ----------------------------
(***************************************************************************)
(* The AGI monitor (cli/cmd/v1/cmdAgiMonitorListen.go).  An instance posts  *)
(* events; the handler decides at once, from the event and the type of the  *)
(* sender, whether to grow the disk, to move to a larger instance, or to    *)
(* leave a spot instance for an on-demand one, answers, and starts a        *)
(* goroutine.  These tasks take execLock in turn and are not looked at      *)
(* again: by then the instance of the name may be another one.  A CLI user  *)
(* works on the same name all the while.                                   *)
(***************************************************************************)
EXTENDS AgiCreate

CONSTANTS Tasks,      \* bound: accepted events, 1 .. n in order
          MaxOthers,  \* bound: commands of the user after the first, and halts
          MaxRam,     \* --sizing-max-ram-gb
          MaxDisk,    \* --sizing-max-disk-gb, in steps of --gcp-disk-grow-gb
          NoTask      \* model value

ASSUME MonitorAssumption == {"monitor", "user"} \subseteq Makers /\ MaxRam \in Nat /\ MaxDisk \in Nat

VARIABLES
  task,    \* the goroutines: what was decided, where each is, what it has reported
  lock,    \* execLock: the task that holds it, or 0
  others,  \* commands of the user and halts so far
  raced,   \* a command of the user overlapped a rotation
  moved    \* a rotation to on-demand was reported done since the volume was made

vars == <<cloudVars, task, lock, others, raced, moved>>

TaskRecs == [kind : {"capacity", "ram", "disk", "diskram", "none"}, size : Sizes \cup {0}, disk : Nat,
             from : Insts \cup {0}, at : {"queued", "disk", "fs", "destroy", "start", "create", "end", "over"},
             err : BOOLEAN, note : {"none", "start", "done", "error"}]

ASSUME TasksAssumption == Tasks \subseteq Nat \ {0} /\ NoTask \notin TaskRecs

Init ==
  /\ CloudInit
  /\ task = [t \in Tasks |-> NoTask]
  /\ lock = 0 /\ others = 0 /\ raced = FALSE /\ moved = FALSE

Rotating == lock # 0 /\ task[lock].kind # "disk"
\* A user's call in flight while the monitor rotates, now or after this step.
Races == raced' = (raced \/ (~Idle("user") /\ Rotating) \/ (~Idle("user") /\ Rotating)')

-----------------------------------------------------------------------------
(*                    The handler: what an event leads to                  *)

(* sizeInstanceType: the smallest type of the family with the memory; else  *)
(* the largest that is allowed, with an error.                             *)
SizeInstanceType(cur, required) ==
  LET allowed == {s \in Sizes : s <= MaxRam}
      fits == {s \in allowed : s >= required} IN
  IF fits # {} THEN [to |-> CHOOSE s \in fits : \A r \in fits : s <= r, ok |-> TRUE]
  ELSE IF allowed # {} THEN [to |-> CHOOSE s \in allowed : \A r \in allowed : r <= s, ok |-> FALSE]
  ELSE [to |-> cur, ok |-> FALSE]

(* checkRAMSizing: 0 for no.  Service down and low memory want more than    *)
(* the sender has; the end of preprocessing knows what it wants, and then   *)
(* the largest type is better than none.                                   *)
MoreRam(cur) == LET r == SizeInstanceType(cur, cur + 1) IN IF r.ok THEN r.to ELSE 0
EnoughRam(cur, required) ==
  LET r == SizeInstanceType(cur, required) IN
  IF cur >= required \/ (~r.ok /\ r.to = cur) THEN 0 ELSE r.to

\* getDeploymentJSON passed, 418 was answered and the goroutine started.
Accept(kind, size, disk, i) ==
  \E t \in Tasks :
    /\ task[t] = NoTask /\ \A u \in Tasks : task[u] = NoTask => t <= u
    /\ task' = [task EXCEPT ![t] = [kind |-> kind, size |-> size, disk |-> disk, from |-> i,
                                    at |-> "queued", err |-> FALSE, note |-> "none"]]

CapacityEvent(i) ==
  /\ inst[i].spot /\ inst[i].notice
  /\ Accept("capacity", 0, 0, i)

\* handleCheckSizing, with what the event says of disk and memory.
SizingEvent(i) ==
  \E full \in BOOLEAN, size \in {0, MoreRam(inst[i].size)} \cup {EnoughRam(inst[i].size, r) : r \in Sizes} :
    LET grow == full /\ cloud = "gcp" /\ vol # NoVol /\ vol.fs < MaxDisk
        disk == IF grow THEN vol.fs + 1 ELSE 0
    IN  \/ disk # 0 /\ size = 0 /\ Accept("disk", 0, disk, i)
        \/ disk = 0 /\ size # 0 /\ Accept("ram", size, 0, i)
        \/ disk # 0 /\ size # 0 /\ Accept("diskram", size, disk, i)

Event == \E i \in Up :
  /\ inst[i].ready /\ inst[i].attached
  /\ CapacityEvent(i) \/ SizingEvent(i)
  /\ UNCHANGED <<cloudVars, lock, others, raced, moved>>

-----------------------------------------------------------------------------
(*                                The tasks                                *)

Advance(t, at, err) == task' = [task EXCEPT ![t].at = at, ![t].err = @ \/ err]
Kept == UNCHANGED <<others, moved>>

Lock(t) ==
  /\ task[t] # NoTask /\ task[t].at = "queued" /\ lock = 0
  /\ lock' = t
  /\ task' = [task EXCEPT ![t].at = IF task[t].kind \in {"disk", "diskram"} THEN "disk" ELSE "destroy",
                          ![t].note = "start"]
  /\ UNCHANGED cloudVars /\ Races /\ Kept

AfterDisk(t) == IF task[t].kind = "disk" THEN "end" ELSE "destroy"

\* ResizeVolumes refuses a volume that is as large already.
ResizeVolumes(disk) == vol # NoVol /\ vol.disk < disk /\ vol' = [vol EXCEPT !.disk = disk]

Disk(t) ==
  /\ lock = t /\ task[t].at = "disk"
  /\ \/ /\ ResizeVolumes(task[t].disk)
        /\ Advance(t, "fs", FALSE)
     \/ Advance(t, AfterDisk(t), TRUE) /\ UNCHANGED vol
  /\ UNCHANGED <<cloud, inst, call, left, lost, lock>> /\ Races /\ Kept

\* callResizeFilesystem, to the address of the sender.
Filesystem(t) ==
  /\ lock = t /\ task[t].at = "fs"
  /\ \/ /\ task[t].from \in Up /\ vol # NoVol
        /\ vol' = [vol EXCEPT !.fs = vol.disk]
        /\ Advance(t, AfterDisk(t), FALSE)
     \/ Advance(t, AfterDisk(t), TRUE) /\ UNCHANGED vol
  /\ UNCHANGED <<cloud, inst, call, left, lost, lock>> /\ Races /\ Kept

\* DestroyInstances of the name; nothing to destroy is an error too, and so is
\* giving up the wait for one that goes after all.
DestroyOld(t) ==
  /\ lock = t /\ task[t].at = "destroy"
  /\ \/ Live # {} /\ inst' = Terminated(Live) /\ Advance(t, "start", FALSE)
     \/ inst' \in {inst, Terminated(Live)} /\ Advance(t, "end", TRUE)
  /\ UNCHANGED <<cloud, vol, call, left, lost, lock>> /\ Races /\ Kept

StartNew(t) ==
  /\ lock = t /\ task[t].at = "start"
  /\ BeginStart("monitor", task[t].size, task[t].kind = "capacity")
  /\ Advance(t, "create", FALSE)
  /\ UNCHANGED lock /\ Races /\ Kept

Started(t) ==
  /\ lock = t /\ task[t].at = "create" /\ Idle("monitor")
  /\ Advance(t, "end", call["monitor"].at = "error")
  /\ UNCHANGED <<cloudVars, lock>> /\ Races /\ Kept

\* What is left of a task that has sent its last notification.
Over(err) == [kind |-> "none", size |-> 0, disk |-> 0, from |-> 0, at |-> "over", err |-> err,
              note |-> IF err THEN "error" ELSE "done"]

\* Bug: a task that failed returns without the deferred unlock.
Report_KeepsLock(t) ==
  /\ lock = t /\ task[t].at = "end"
  /\ task' = [task EXCEPT ![t] = Over(task[t].err)]
  /\ lock' = IF task[t].err THEN lock ELSE 0
  /\ moved' = (moved \/ (task[t].kind = "capacity" /\ ~task[t].err))
  /\ UNCHANGED <<cloudVars, others>> /\ Races

\* The last notification, and the deferred unlock.
Report(t) ==
  /\ lock = t /\ task[t].at = "end"
  /\ task' = [task EXCEPT ![t] = Over(task[t].err)]
  /\ lock' = 0
  /\ moved' = (moved \/ (task[t].kind = "capacity" /\ ~task[t].err))
  /\ UNCHANGED <<cloudVars, others>> /\ Races

Run(t) == Lock(t) \/ Disk(t) \/ Filesystem(t) \/ DestroyOld(t) \/ StartNew(t) \/ Started(t) \/ Report(t)
Task == \E t \in Tasks : Run(t)

Making(m) == Make(m) /\ UNCHANGED <<task, lock>> /\ Races /\ Kept

-----------------------------------------------------------------------------
(*                           The user and the cloud                        *)

UserMakes ==
  /\ others <= MaxOthers /\ others' = others + 1
  /\ \/ \E size \in Sizes \cup (IF cloud = "aws" THEN {0} ELSE {}), spot \in BOOLEAN :
          /\ BeginCreate("user", size, spot)
          /\ moved' = (moved /\ vol # NoVol)
     \/ others # 0 /\ BeginStart("user", 0, FALSE) /\ UNCHANGED moved
  /\ UNCHANGED <<task, lock>> /\ Races

UserDestroys ==
  /\ others <= MaxOthers /\ others' = others + 1
  /\ Destroy
  /\ UNCHANGED <<task, lock, moved>> /\ Races

Halts == \E i \in Up :
  /\ others <= MaxOthers /\ others' = others + 1
  /\ Halt(i)
  /\ UNCHANGED <<task, lock, moved>> /\ Races

Notices == \E i \in Up : Notice(i) /\ UNCHANGED <<task, lock, others, raced, moved>>

Next == Event \/ Task \/ Making("monitor") \/ Making("user") \/ UserMakes \/ UserDestroys \/ Halts \/ Notices

Spec == Init /\ [][Next]_vars

(* The monitor's goroutines run on, and every call to the cloud returns:    *)
(* with what, nothing says.  No user has to do anything.                   *)
FairSpec == Spec /\ WF_vars(Making("monitor")) /\ WF_vars(Task)

-----------------------------------------------------------------------------
(*                               Properties                                *)

TypeOK ==
  /\ CloudTypeOK
  /\ task \in [Tasks -> TaskRecs \cup {NoTask}]
  /\ lock \in Tasks \cup {0} /\ (lock # 0 => task[lock] # NoTask)
  /\ raced \in BOOLEAN /\ moved \in BOOLEAN

(* No maker ever has two live instances of its own under one name, and as   *)
(* long as no command of the user overlaps a rotation there is one in all:  *)
(* a volume is not handed to two.  A failed terminate excuses nothing: the  *)
(* task that comes next has to destroy what is left.                       *)
OneInstance ==
  /\ TypeOK
  /\ \A m \in Makers : Cardinality({i \in Live : inst[i].by = m}) <= 1
  /\ ~raced => Cardinality(Live) <= 1

(* The tags say what the next reattach needs to know: with no call in       *)
(* flight, no overlap and no tag write lost, they give the type of the      *)
(* live instance that has the volume, and spot only falls short of them by  *)
(* the fallback.  Of an instance that a failed call has left with the       *)
(* volume they may still hold the type as it was asked for: none.           *)
TagsDescribeInstance ==
  (\A m \in Makers : Idle(m)) /\ ~raced /\ "tags" \notin lost =>
    \A i \in Live : inst[i].attached =>
      /\ vol # NoVol /\ vol.size \in {inst[i].size} \cup {0 : j \in left \cap {i}}
      /\ inst[i].spot => vol.spot

(* Once a rotation to on-demand was reported done, no task puts the name    *)
(* back on a spot instance, by way of its tags or of an old decision.       *)
OnDemandSticks ==
  moved /\ ~raced /\ "tags" \notin lost => \A i \in Live : ~inst[i].spot

(* What a task reports is so.  A rotation that reports done has left an     *)
(* instance that runs, serves the volume and is what was decided, unless    *)
(* somebody interfered; and when the tasks have left nothing running and    *)
(* nobody else took it away, one of them has reported an error.            *)
ReportsAreTrue ==
  /\ \A t \in Tasks :
       (lock = t /\ task[t].at = "end" /\ ~task[t].err /\ task[t].kind # "disk" /\ ~raced /\ "instance" \notin lost) =>
         \E i \in Up : /\ inst[i].ready /\ inst[i].attached
                       /\ task[t].size \in {0, inst[i].size}
                       /\ task[t].kind = "capacity" => ~inst[i].spot
  /\ (lock = 0 /\ "instance" \notin lost /\ Up = {} /\ Idle("user")) =>
       \A t \in Tasks : (task[t] # NoTask /\ task[t].at = "over") =>
         \E u \in Tasks : task[u] # NoTask /\ task[u].note = "error"

(* "Defer cleanup on failure": an agi create that returned an error has no  *)
(* live instance, unless an attempt to terminate it failed.                *)
FailedCreateLeavesNothing ==
  \A m \in Makers : call[m].at = "error" => call[m].id \notin Live

(* "For GCP with monitor, disk will auto-expand": a task whose sizes are    *)
(* still right is not refused for the size of the disk.                     *)
DiskCanGrow ==
  \A t \in Tasks : (lock = t /\ task[t].at = "disk" /\ vol # NoVol /\ task[t].disk = vol.fs + 1)
                   => vol.disk < task[t].disk

(* "Destroy the spot instance": what a rotation destroys is the instance    *)
(* whose event asked for it.                                               *)
DestroysTheSender ==
  [][\A t \in Tasks : (lock = t /\ task[t].at = "destroy") =>
       \A i \in Live \ Live' : i = task[t].from]_vars

(* Every accepted event is worked off, with a last notification for each:   *)
(* no failure on the way keeps execLock from the others.                    *)
EveryTaskReports ==
  (\E t \in Tasks : task[t] # NoTask /\ task[t].at # "over") ~> (\A t \in Tasks : task[t] = NoTask \/ task[t].at = "over")

=============================================================================
