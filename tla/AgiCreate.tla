----------------------------- MODULE AgiCreate -----------------------------
(***************************************************************************)
(* How an AGI instance comes and goes (cli/cmd/v1/cmdAgiCreate.go,         *)
(* cmdAgiStart.go, cmdInstancesDestroy.go): one AGI name, its volume, whose *)
(* tags hold the settings for the next instance, and the processes that    *)
(* create or start instances of that name: a CLI user, and the AGI monitor. *)
(* They share nothing but the cloud.  CreateAGI runs for minutes; every     *)
(* call to the cloud may fail, and what it does then is part of its step.   *)
(*                                                                         *)
(* Reading the inventory and deciding on it is one step; what follows uses  *)
(* what was decided then.  Instance types are the memory sizes of a family. *)
(***************************************************************************)
EXTENDS Integers, FiniteSets

CONSTANTS Makers,   \* processes that run StartAGI or CreateAGI
          Insts,    \* bound: instance ids, 1 .. n in the order of launching
          Sizes,    \* memory of the instance types, in GiB; 0 is a type not given
          NoInst, Gone, NoVol   \* model values: never launched, terminated; no volume

ASSUME SizesAssumption == Sizes \subseteq Nat \ {0} /\ Sizes # {} /\ IsFiniteSet(Sizes)
ASSUME InstsAssumption == Insts \subseteq Nat \ {0} /\ IsFiniteSet(Insts)

VARIABLES
  cloud,  \* the backend type: "aws" (a shared EFS volume) or "gcp" (an attached disk)
  inst,   \* the instances of the AGI name
  vol,    \* its volume: the agiinstance and isspot tags, the disk and its filesystem
  call,   \* the StartAGI or CreateAGI each maker is in, or its result
  left,   \* instances that a failed call has left with the volume, before it wrote the tags
  lost    \* what went wrong elsewhere: tags not written, instances halted or removed by hand

cloudVars == <<cloud, inst, vol, call, left, lost>>

InstRecs == [st : {"up", "stopped"}, size : Sizes, spot : BOOLEAN, by : Makers,
             attached : BOOLEAN, ready : BOOLEAN, notice : BOOLEAN]
VolRecs == [size : Sizes \cup {0}, spot : BOOLEAN, disk : Nat, fs : Nat]
CallRecs == [at : {"idle", "boot", "volume", "launch", "attach", "restore", "tags", "configure", "upload",
                    "ok", "error"},
             size : Sizes \cup {0}, spot : BOOLEAN, made : BOOLEAN, id : Insts \cup {0}]

ASSUME CloudNoneAssumption ==
  NoInst # Gone /\ {NoInst, Gone} \cap InstRecs = {} /\ NoVol \notin VolRecs

Live    == {i \in Insts : inst[i] \notin {NoInst, Gone}}
Up      == {i \in Live : inst[i].st = "up"}
Stopped == Live \ Up
Fresh   == {i \in Insts : inst[i] = NoInst}

NotCalling == [at |-> "idle", size |-> 0, spot |-> FALSE, made |-> FALSE, id |-> 0]
Idle(m)    == call[m].at \in {"idle", "ok", "error"}
Goto(m, at) == call' = [call EXCEPT ![m].at = at]
\* The call returns; kept: the instance it has launched, if it fails without trying to terminate it.
Return(m, how, kept) == call' = [call EXCEPT ![m] = [NotCalling EXCEPT !.at = how, !.id = kept]]
Default    == CHOOSE s \in Sizes : \A t \in Sizes : s <= t
Resolved(size) == IF size = 0 THEN Default ELSE size

CloudInit ==
  /\ cloud \in {"aws", "gcp"}
  /\ inst = [i \in Insts |-> NoInst]
  /\ vol = NoVol
  /\ call = [m \in Makers |-> NotCalling]
  /\ left = {} /\ lost = {}

-----------------------------------------------------------------------------
(*                          StartAGI and CreateAGI                         *)

\* Where a call goes once it has read the inventory, and the settings it goes by.
Enter(m, at, size, spot) ==
  call' = [call EXCEPT ![m] = IF at = "volume" THEN [NotCalling EXCEPT !.at = at, !.size = size, !.spot = spot]
                              ELSE [NotCalling EXCEPT !.at = at]]

(* agi create: no other instance of the name, and no volume without --force. *)
BeginCreate(m, size, spot) ==
  /\ Idle(m)
  /\ Enter(m, IF Live = {} /\ vol = NoVol THEN "volume" ELSE "error", size, spot)
  /\ UNCHANGED <<cloud, inst, vol, left, lost>>

\* Bug: CreateAGI restores the settings from the tags under --force as well.
BeginStart_Restores(m, size, demand) ==
  /\ Idle(m)
  /\ Enter(m, IF Stopped # {} THEN "boot"
              ELSE IF Up # {} \/ vol = NoVol THEN "error"
              ELSE IF size = 0 /\ vol.size = 0 THEN "error" ELSE "volume",
           IF size # 0 \/ vol = NoVol THEN size ELSE vol.size,
           vol # NoVol /\ vol.spot)
  /\ UNCHANGED <<cloud, inst, vol, left, lost>>

\* Bug: a running instance is not asked for.
BeginStart_Anyway(m, size, demand) ==
  /\ Idle(m)
  /\ Enter(m, IF Stopped # {} THEN "boot"
              ELSE IF vol = NoVol THEN "error"
              ELSE IF size = 0 /\ vol.size = 0 THEN "error" ELSE "volume",
           IF size # 0 \/ vol = NoVol THEN size ELSE vol.size,
           vol # NoVol /\ vol.spot /\ ~demand)
  /\ UNCHANGED <<cloud, inst, vol, left, lost>>

(* agi start: boot what is stopped; else create with the volume's settings  *)
(* (--force), size and demand being the monitor's overrides.                *)
BeginStart(m, size, demand) ==
  /\ Idle(m)
  /\ Enter(m, IF Stopped # {} THEN "boot"
              ELSE IF Up # {} \/ vol = NoVol THEN "error"
              ELSE IF size = 0 /\ vol.size = 0 THEN "error" ELSE "volume",
           IF size # 0 \/ vol = NoVol THEN size ELSE vol.size,
           vol # NoVol /\ vol.spot /\ ~demand)
  /\ UNCHANGED <<cloud, inst, vol, left, lost>>

Boot(m) ==
  /\ call[m].at = "boot"
  /\ \/ /\ Stopped # {}
        /\ \E serving \in BOOLEAN :
             inst' = [i \in Insts |-> IF i \in Stopped THEN [inst[i] EXCEPT !.st = "up", !.ready = serving] ELSE inst[i]]
        /\ Return(m, "ok", 0)
     \/ Return(m, "error", 0) /\ UNCHANGED inst
  /\ UNCHANGED <<cloud, vol, left, lost>>

(* The template, the firewall, and then the volume: made, or its tags      *)
(* renewed.  One that was made stays when the inventory cannot be read.    *)
Volume(m) ==
  LET c == call[m] IN
  /\ c.at = "volume"
  /\ \/ /\ vol = NoVol
        /\ vol' = [size |-> c.size, spot |-> c.spot, disk |-> 1, fs |-> 1]
        /\ call' = [call EXCEPT ![m].at = "launch", ![m].made = TRUE] \/ Return(m, "error", 0)
        /\ UNCHANGED lost
     \/ /\ vol # NoVol /\ Goto(m, "launch")
        /\ \/ vol' = [vol EXCEPT !.size = c.size, !.spot = c.spot] /\ UNCHANGED lost
           \/ lost' = lost \cup {"tags"} /\ UNCHANGED vol
     \/ Return(m, "error", 0) /\ UNCHANGED <<vol, lost>>
  /\ UNCHANGED <<cloud, inst, left>>

\* What DeleteVolumes may leave of the volume that m made.
Cleaned(m, held) == {vol} \cup (IF call[m].made /\ ~\E i \in held : inst[i].attached THEN {NoVol} ELSE {})

(* On AWS a spot request may fall back to an on-demand instance.  A launch   *)
(* that fails may have made one, which nobody terminates then.             *)
Launch(m) ==
  LET c == call[m] IN
  /\ c.at = "launch"
  /\ \/ \E i \in Fresh, spot \in {c.spot} \cup (IF cloud = "aws" THEN {FALSE} ELSE {}) :
          /\ \A k \in Fresh : i <= k
          /\ inst' = [inst EXCEPT ![i] = [st |-> "up", size |-> Resolved(c.size), spot |-> spot, by |-> m,
                                          attached |-> FALSE, ready |-> FALSE, notice |-> FALSE]]
          /\ \/ call' = [call EXCEPT ![m].at = "attach", ![m].id = i] /\ UNCHANGED vol
             \/ Return(m, "error", 0) /\ vol' \in Cleaned(m, Live)
     \/ Return(m, "error", 0) /\ vol' \in Cleaned(m, Live) /\ UNCHANGED inst
  /\ UNCHANGED <<cloud, left, lost>>

(* The call ends in an error and its instance is terminated, if that        *)
(* succeeds.  It stays too where the volume is no longer found, and under   *)
(* AEROLAB_DEBUG.                                                          *)
GiveUp(m) ==
  /\ inst' \in {[inst EXCEPT ![call[m].id] = Gone]} \cup (IF call[m].id \in Live THEN {inst} ELSE {})
  /\ Return(m, "error", 0)

\* Attach and mount the volume.
Attach(m) ==
  LET id == call[m].id IN
  /\ call[m].at = "attach"
  /\ \/ /\ id \in Up /\ vol # NoVol
        /\ cloud = "aws" \/ \A i \in Live : ~inst[i].attached
        /\ inst' = [inst EXCEPT ![id].attached = TRUE]
        /\ Goto(m, "restore") /\ UNCHANGED vol
     \/ GiveUp(m) /\ vol' \in Cleaned(m, Live \ {id})
  /\ UNCHANGED <<cloud, left, lost>>

(* Copy the template's files over the volume.  A failure, or an attach that *)
(* failed half-way, gives up an instance that has the volume.              *)
Restore(m) ==
  /\ call[m].at = "restore"
  /\ \/ Goto(m, "tags") /\ UNCHANGED <<inst, vol, left>>
     \/ /\ GiveUp(m) /\ vol' \in Cleaned(m, Live')
        /\ left' = left \cup (Live' \cap {call[m].id})
  /\ UNCHANGED <<cloud, lost>>

\* Bug: the tags get the type that was asked for, not the one that was used.
Tag_Asked(m) ==
  LET c == call[m] IN
  /\ c.at = "tags" /\ Goto(m, "configure")
  /\ \/ vol # NoVol /\ vol' = [vol EXCEPT !.size = c.size, !.spot = c.spot] /\ UNCHANGED lost
     \/ lost' = lost \cup {"tags"} /\ UNCHANGED vol
  /\ UNCHANGED <<cloud, inst, left>>

\* updateVolumeTagsWithResolvedValues; a failure is a warning.
Tag(m) ==
  LET c == call[m] IN
  /\ c.at = "tags" /\ Goto(m, "configure")
  /\ \/ vol # NoVol /\ vol' = [vol EXCEPT !.size = Resolved(c.size), !.spot = c.spot] /\ UNCHANGED lost
     \/ lost' = lost \cup {"tags"} /\ UNCHANGED vol
  /\ UNCHANGED <<cloud, inst, left>>

\* Memory and configuration: err is the variable that the deferred cleanup reads.
Configure(m) ==
  /\ call[m].at = "configure"
  /\ \/ call[m].id \in Up /\ Goto(m, "upload") /\ UNCHANGED inst
     \/ GiveUp(m)
  /\ UNCHANGED <<cloud, vol, left, lost>>

\* Bug: services that do not start are a warning.
Upload_Warns(m) ==
  /\ call[m].at = "upload"
  /\ \E serving \in BOOLEAN :
       inst' = IF call[m].id \in Up THEN [inst EXCEPT ![call[m].id].ready = serving] ELSE inst
  /\ Return(m, "ok", 0)
  /\ UNCHANGED <<cloud, vol, left, lost>>

(* Uploads and the services: each err is a new variable, which the deferred *)
(* cleanup does not see.                                                    *)
Upload(m) ==
  /\ call[m].at = "upload"
  /\ \/ /\ call[m].id \in Up
        /\ inst' = [inst EXCEPT ![call[m].id].ready = TRUE]
        /\ Return(m, "ok", 0)
     \/ Return(m, "error", call[m].id) /\ UNCHANGED inst
  /\ UNCHANGED <<cloud, vol, left, lost>>

Make(m) == Boot(m) \/ Volume(m) \/ Launch(m) \/ Attach(m) \/ Restore(m) \/ Tag(m) \/ Configure(m) \/ Upload(m)

-----------------------------------------------------------------------------
(*                      What else happens to instances                     *)

\* Terminate the instances of the set.
Terminated(S) == [i \in Insts |-> IF i \in S THEN Gone ELSE inst[i]]

\* agi destroy, by a user.
Destroy ==
  /\ Live # {}
  /\ inst' = Terminated(Live) /\ lost' = lost \cup {"instance"}
  /\ UNCHANGED <<cloud, vol, call, left>>

(* A stop or poweroff, which terminates an instance made with               *)
(* --terminate-on-poweroff; an expiry; the cloud taking a spot instance.    *)
Halt(i) ==
  /\ i \in Up
  /\ \/ inst' = [inst EXCEPT ![i].st = "stopped", ![i].ready = FALSE, ![i].notice = FALSE]
     \/ inst' = [inst EXCEPT ![i] = Gone]
  /\ lost' = lost \cup {"instance"}
  /\ UNCHANGED <<cloud, vol, call, left>>

\* The cloud tells a spot instance that it will be taken.
Notice(i) ==
  /\ i \in Up /\ inst[i].spot /\ inst[i].ready /\ ~inst[i].notice
  /\ inst' = [inst EXCEPT ![i].notice = TRUE]
  /\ UNCHANGED <<cloud, vol, call, left, lost>>

CloudTypeOK ==
  /\ cloud \in {"aws", "gcp"}
  /\ inst \in [Insts -> InstRecs \cup {NoInst, Gone}]
  /\ vol \in VolRecs \cup {NoVol} /\ (vol # NoVol => vol.fs <= vol.disk)
  /\ call \in [Makers -> CallRecs]
  /\ left \subseteq Insts /\ lost \subseteq {"tags", "instance"}

=============================================================================
