-------------------------- MODULE AgiMonitor_proofs --------------------------
(***************************************************************************)
(* Proofs about the monitor, the user and the cloud, for any instances,    *)
(* sizes, tasks and limits.                                                *)
(***************************************************************************)
EXTENDS AgiMonitor, TLAPS, FiniteSetTheorems, WellFoundedInduction

InFlight == {"attach", "restore", "tags", "configure", "upload"}

\* execLock is held by a task that works, and nobody else's works.
LockInv ==
  /\ lock # 0 =>
       /\ task[lock].kind # "none" /\ task[lock].at \notin {"queued", "over"}
       /\ task[lock].at \in {"disk", "fs"} => task[lock].kind \in {"disk", "diskram"}
       /\ task[lock].at \in {"destroy", "start", "create"} => task[lock].kind # "disk"
  /\ \A t \in Tasks : task[t] # NoTask /\ t # lock => task[t].at \in {"queued", "over"}
  /\ \A t \in Tasks : task[t] # NoTask /\ task[t].at = "queued" => task[t].kind # "none" /\ ~task[t].err

\* An error is reported last.
NoteInv == \A t \in Tasks : task[t] # NoTask /\ task[t].note = "error" => task[t].at = "over"

\* Who is in a call.
CallInv ==
  /\ ~Idle("monitor") => lock # 0 /\ task[lock].at = "create"
  /\ lock # 0 /\ task[lock].at = "create" => call["monitor"].at # "idle"
  /\ \A m \in Makers \ {"monitor", "user"} : Idle(m)
  /\ ~raced => Idle("user") \/ ~Rotating
  /\ \A m \in Makers : call[m].at \notin InFlight \cup {"volume", "launch"} => ~call[m].spot

\* What a maker knows of the instance it has launched.
IdInv ==
  \A m \in Makers : call[m].at \in InFlight =>
    LET c == call[m] IN
    /\ c.id \in Insts /\ inst[c.id] # NoInst
    /\ c.id \in Live =>
         /\ inst[c.id].by = m /\ inst[c.id].size = Resolved(c.size)
         /\ inst[c.id].spot => c.spot
         /\ inst[c.id].attached <=> c.at # "attach"
         /\ "instance" \notin lost => ~inst[c.id].ready

\* One live instance for each maker, and for all as long as nobody raced.
OwnInv ==
  /\ \A i, j \in Live : inst[i].by = inst[j].by => i = j
  /\ \A m \in Makers : call[m].at \in {"volume", "launch"} => \A i \in Live : inst[i].by # m
AloneInv ==
  ~raced =>
    /\ \A i, j \in Live : i = j
    /\ \A m \in Makers : call[m].at \in {"volume", "launch"} => Live = {}
    /\ \A m \in Makers : call[m].at \in InFlight => Live \subseteq {call[m].id}
    /\ lock # 0 /\ task[lock].at = "start" => Live = {}
    /\ lock # 0 /\ task[lock].at = "create" => call["monitor"].at # "boot"

\* Until a call writes what it has resolved, the tags hold what it was asked for.
AskedInv ==
  ~raced /\ "tags" \notin lost =>
    \A m \in Makers : call[m].at \in {"launch", "attach", "restore"} /\ vol # NoVol =>
      vol.size = call[m].size /\ vol.spot = call[m].spot

TagsFit(i) == (vol.size = inst[i].size \/ (vol.size = 0 /\ i \in left)) /\ (inst[i].spot => vol.spot)
Tagging(i) == \E m \in Makers : call[m].at \in {"restore", "tags"} /\ call[m].id = i
TagInv ==
  /\ \A i \in Live : inst[i].attached => vol # NoVol
  /\ ~raced /\ "tags" \notin lost => \A i \in Live : inst[i].attached => TagsFit(i) \/ Tagging(i)

\* No spot is left, and none is asked for.
OnDemand == (\A i \in Live : ~inst[i].spot) /\ (vol # NoVol => ~vol.spot)
DemandInv ==
  /\ moved /\ ~raced /\ "tags" \notin lost => OnDemand /\ \A m \in Makers : ~call[m].spot
  /\ lock # 0 /\ task[lock].kind = "capacity" =>
       /\ task[lock].at = "create" => ~call["monitor"].spot
       /\ ~raced /\ "tags" \notin lost =>
            /\ task[lock].at = "create" /\ call["monitor"].at \notin {"volume", "error"} => OnDemand
            /\ task[lock].at = "end" /\ ~task[lock].err => OnDemand

\* The rotation has left what was decided.
Served(t) == \E i \in Up : /\ inst[i].ready /\ inst[i].attached
                           /\ task[t].size \in {0, inst[i].size}
                           /\ task[t].kind = "capacity" => ~inst[i].spot
RotationInv ==
  /\ lock # 0 /\ task[lock].at = "create" /\ call["monitor"].at \in InFlight \cup {"volume", "launch"} =>
       task[lock].size \in {0, call["monitor"].size}
  /\ \A t \in Tasks : lock = t /\ ~raced /\ "instance" \notin lost =>
       /\ task[t].at = "create" /\ call["monitor"].at = "ok" => Served(t)
       /\ task[t].at = "end" /\ ~task[t].err /\ task[t].kind # "disk" => Served(t)

\* There is service, or a rotation under way, or an error was reported.
Served0 == \E i \in Up : inst[i].ready
Rotates == lock # 0 /\ \/ task[lock].at = "start"
                       \/ task[lock].at = "create" /\ call["monitor"].at # "ok"
                       \/ task[lock].at = "end" /\ task[lock].err
Failed  == \E u \in Tasks : task[u] # NoTask /\ task[u].note = "error"
HaltInv == "instance" \notin lost => Stopped = {}
ServiceInv ==
  "instance" \notin lost /\ (\E t \in Tasks : task[t] # NoTask) => Served0 \/ Rotates \/ Failed

IInv == /\ TypeOK /\ LockInv /\ NoteInv /\ CallInv /\ IdInv /\ HaltInv /\ OwnInv /\ AloneInv
        /\ AskedInv /\ TagInv /\ DemandInv /\ RotationInv /\ ServiceInv

-----------------------------------------------------------------------------
(*                           Sizes and defaults                            *)

\* A set of numbers has a smallest one.
LEMMA SmallestOne ==
    ASSUME NEW S, S \subseteq Nat, S # {}
    PROVE  \E i \in S : \A j \in S : i <= j
<1> DEFINE R == {ss \in Nat \X Nat : ss[1] < ss[2]}
<1>1. IsWellFoundedOn(R, Nat)
  BY NatLessThanWellFounded DEF OpToRel
<1> HIDE DEF R
<1>2. PICK x \in S : \A y \in S : <<y, x>> \notin R
  BY <1>1, WFMin
<1>3. \A y \in S : ~(y < x)
  BY <1>2 DEF R
<1>4. QED
  BY <1>3

\* The default type is one of the types.
LEMMA DefaultIsASize == Default \in Sizes /\ \A s \in Sizes \cup {0} : Resolved(s) \in Sizes /\ (s # 0 => Resolved(s) = s)
<1>1. \E s \in Sizes : \A t \in Sizes : s <= t
  BY SmallestOne, SizesAssumption
<1>2. QED
  BY <1>1, SizesAssumption DEF Default, Resolved

\* sizeInstanceType picks one of the types, or stays.
LEMMA SizedIsASize ==
    ASSUME NEW cur \in Sizes, NEW r \in Int
    PROVE  SizeInstanceType(cur, r).to \in Sizes /\ SizeInstanceType(cur, r).ok \in BOOLEAN
<1> DEFINE allowed == {s \in Sizes : s <= MaxRam}
           fits == {s \in allowed : s >= r}
           over == {k \in Nat : \E s \in allowed : k = MaxRam - s}
<1>1. allowed \subseteq Nat /\ fits \subseteq Nat /\ allowed \subseteq Sizes
  BY SizesAssumption
<1>2. fits # {} => (CHOOSE s \in fits : \A t \in fits : s <= t) \in fits
  <2> HIDE DEF fits
  <2>1. fits # {} => \E s \in fits : \A t \in fits : s <= t
    BY <1>1, SmallestOne
  <2>2. QED
    BY <2>1
<1>3. allowed # {} => (CHOOSE s \in allowed : \A t \in allowed : t <= s) \in allowed
  <2>1. ASSUME allowed # {} PROVE \E s \in allowed : \A t \in allowed : t <= s
    <3>1. PICK s \in allowed : TRUE
      BY <2>1
    <3>2. MaxRam - s \in over
      BY <1>1, MonitorAssumption
    <3>3. over \subseteq Nat /\ over # {}
      BY <3>2
    <3>4. PICK k \in over : \A l \in over : k <= l
      <4> HIDE DEF over
      <4>1. QED
        BY <3>3, SmallestOne
    <3>5. PICK u \in allowed : k = MaxRam - u
      BY <3>4
    <3>6. ASSUME NEW t \in allowed PROVE t <= u
      <4>1. MaxRam - t \in over
        BY <1>1, MonitorAssumption
      <4>2. k <= MaxRam - t
        BY <3>4, <4>1
      <4>3. QED
        BY <1>1, <3>5, <4>2, MonitorAssumption
    <3>7. QED
      BY <3>6
  <2> HIDE DEF allowed
  <2>2. QED
    BY <2>1
<1> HIDE DEF over
<1>4. CASE fits # {}
  BY <1>1, <1>2, <1>4 DEF SizeInstanceType
<1>5. CASE fits = {} /\ allowed # {}
  BY <1>1, <1>3, <1>5 DEF SizeInstanceType
<1>6. CASE fits = {} /\ allowed = {}
  BY <1>6 DEF SizeInstanceType
<1>7. QED
  BY <1>4, <1>5, <1>6

LEMMA RamIsASize ==
    ASSUME NEW cur \in Sizes, NEW r \in Sizes
    PROVE  MoreRam(cur) \in Sizes \cup {0} /\ EnoughRam(cur, r) \in Sizes \cup {0}
<1>1. cur \in Int /\ cur + 1 \in Int /\ r \in Int
  BY SizesAssumption
<1>2. QED
  BY <1>1, SizedIsASize DEF MoreRam, EnoughRam

-----------------------------------------------------------------------------
(*                                  Types                                  *)

\* A live instance is a record.
LEMMA LiveFacts ==
    ASSUME TypeOK
    PROVE  /\ \A i \in Live : inst[i] \in InstRecs /\ i \in Insts /\ i # 0
           /\ \A i \in Insts : inst[i] \notin {NoInst, Gone} => inst[i] \in InstRecs
           /\ Up \subseteq Live /\ Stopped = {i \in Live : inst[i].st = "stopped"}
  BY InstsAssumption DEF TypeOK, CloudTypeOK, Live, Up, Stopped, InstRecs

\* An instance changed, one made or taken away, a call advanced or returned: the types stay.
LEMMA InstTypes ==
    ASSUME TypeOK, NEW i \in Live, NEW b \in BOOLEAN
    PROVE  /\ [inst[i] EXCEPT !.attached = b] \in InstRecs /\ [inst[i] EXCEPT !.ready = b] \in InstRecs
           /\ [inst[i] EXCEPT !.notice = b] \in InstRecs
           /\ [inst[i] EXCEPT !.st = "up", !.ready = b] \in InstRecs
           /\ [inst[i] EXCEPT !.st = "stopped", !.ready = FALSE, !.notice = FALSE] \in InstRecs
<1>1. inst[i] \in InstRecs
  BY LiveFacts
<1>2. QED
  BY <1>1 DEF InstRecs

LEMMA CallTypes ==
    ASSUME TypeOK, NEW m \in Makers
    PROVE  /\ call[m] \in CallRecs /\ NotCalling \in CallRecs
           /\ \A how \in {"ok", "error"}, kept \in Insts \cup {0} : Return(m, how, kept) => call' \in [Makers -> CallRecs]
           /\ \A at \in {"launch", "restore", "tags", "configure", "upload"} : Goto(m, at) => call' \in [Makers -> CallRecs]
<1>1. call[m] \in CallRecs /\ call \in [Makers -> CallRecs]
  BY DEF TypeOK, CloudTypeOK
<1>2. NotCalling \in CallRecs
  BY DEF NotCalling, CallRecs
<1>3. ASSUME NEW how \in {"ok", "error"}, NEW kept \in Insts \cup {0}, Return(m, how, kept)
      PROVE  call' \in [Makers -> CallRecs]
  <2>1. [NotCalling EXCEPT !.at = how, !.id = kept] \in CallRecs
    BY <1>1 DEF NotCalling, CallRecs
  <2>2. QED
    BY <1>1, <1>3, <2>1 DEF Return
<1>4. ASSUME NEW at \in {"launch", "restore", "tags", "configure", "upload"}, Goto(m, at)
      PROVE  call' \in [Makers -> CallRecs]
  <2>1. [call[m] EXCEPT !.at = at] \in CallRecs
    BY <1>1 DEF CallRecs
  <2>2. QED
    BY <1>1, <1>4, <2>1 DEF Goto
<1>5. QED
  BY <1>1, <1>2, <1>3, <1>4

\* Every step of a call keeps the types of the cloud.
LEMMA MakeTypes ==
    ASSUME TypeOK, NEW m \in Makers, Make(m)
    PROVE  CloudTypeOK'
<1> USE DEF CloudTypeOK
<1>1. TypeOK /\ CloudTypeOK /\ call[m] \in CallRecs
  BY CallTypes DEF TypeOK
<1>2. CASE Boot(m)
  <2>1. call' \in [Makers -> CallRecs] /\ UNCHANGED <<cloud, vol, left, lost>>
    BY <1>2, CallTypes DEF Boot
  <2>2. inst' \in [Insts -> InstRecs \cup {NoInst, Gone}]
    <3>1. ASSUME NEW serving \in BOOLEAN, NEW i \in Stopped
          PROVE  [inst[i] EXCEPT !.st = "up", !.ready = serving] \in InstRecs
      BY InstTypes DEF Stopped
    <3>2. ASSUME NEW serving \in BOOLEAN,
                 inst' = [i \in Insts |-> IF i \in Stopped THEN [inst[i] EXCEPT !.st = "up", !.ready = serving] ELSE inst[i]]
          PROVE  inst' \in [Insts -> InstRecs \cup {NoInst, Gone}]
      <4>1. ASSUME NEW i \in Insts
            PROVE  (IF i \in Stopped THEN [inst[i] EXCEPT !.st = "up", !.ready = serving] ELSE inst[i]) \in InstRecs \cup {NoInst, Gone}
        BY <1>1, <3>1
      <4>2. QED
        BY <3>2, <4>1
    <3>3. QED
      BY ZenonT(60), <1>1, <1>2, <3>2 DEF Boot
  <2>3. QED
    BY <1>1, <2>1, <2>2
<1>3. CASE Volume(m)
  <2>1. call' \in [Makers -> CallRecs] /\ UNCHANGED <<cloud, inst, left>>
    <3>1. [call[m] EXCEPT !.at = "launch", !.made = TRUE] \in CallRecs
      BY <1>1 DEF CallRecs
    <3>2. CASE call' = [call EXCEPT ![m].at = "launch", ![m].made = TRUE]
      BY <1>1, <3>1, <3>2, <1>3 DEF Volume
    <3>3. QED
      BY <1>3, <3>2, CallTypes DEF Volume
  <2>2. vol' \in VolRecs \cup {NoVol} /\ (vol' # NoVol => vol'.fs <= vol'.disk)
    <3>1. call[m].size \in Sizes \cup {0} /\ call[m].spot \in BOOLEAN
      BY <1>1 DEF CallRecs
    <3>2. [size |-> call[m].size, spot |-> call[m].spot, disk |-> 1, fs |-> 1] \in VolRecs
      BY <3>1 DEF VolRecs
    <3>3. vol # NoVol => [vol EXCEPT !.size = call[m].size, !.spot = call[m].spot] \in VolRecs
      BY <1>1, <3>1 DEF VolRecs
    <3>4. vol # NoVol => LET v == [vol EXCEPT !.size = call[m].size, !.spot = call[m].spot] IN v.fs = vol.fs /\ v.disk = vol.disk
      BY <1>1 DEF VolRecs
    <3>5. \/ vol' = [size |-> call[m].size, spot |-> call[m].spot, disk |-> 1, fs |-> 1]
          \/ vol # NoVol /\ vol' = [vol EXCEPT !.size = call[m].size, !.spot = call[m].spot]
          \/ vol' = vol
      BY Zenon, <1>3 DEF Volume
    <3>6. CASE vol' = [size |-> call[m].size, spot |-> call[m].spot, disk |-> 1, fs |-> 1]
      <4>1. vol'.fs = 1 /\ vol'.disk = 1
        BY <3>6
      <4>2. QED
        BY <3>2, <3>6, <4>1
    <3>7. CASE vol # NoVol /\ vol' = [vol EXCEPT !.size = call[m].size, !.spot = call[m].spot]
      BY <1>1, <3>3, <3>4, <3>7
    <3>8. QED
      BY <1>1, <3>5, <3>6, <3>7
  <2>3. lost' \subseteq {"tags", "instance"}
    BY <1>1, <1>3 DEF Volume
  <2>4. QED
    BY <1>1, <2>1, <2>2, <2>3
<1>4. CASE Launch(m)
  <2>1. ASSUME Return(m, "error", 0), vol' \in Cleaned(m, Live)
        PROVE  call' \in [Makers -> CallRecs] /\ vol' \in VolRecs \cup {NoVol} /\ (vol' # NoVol => vol'.fs <= vol'.disk)
    BY <1>1, <2>1, CallTypes DEF Cleaned
  <2>2. ASSUME NEW i \in Fresh, NEW spot \in {call[m].spot} \cup (IF cloud = "aws" THEN {FALSE} ELSE {}),
               inst' = [inst EXCEPT ![i] = [st |-> "up", size |-> Resolved(call[m].size), spot |-> spot, by |-> m,
                                            attached |-> FALSE, ready |-> FALSE, notice |-> FALSE]],
               \/ call' = [call EXCEPT ![m].at = "attach", ![m].id = i] /\ UNCHANGED vol
               \/ Return(m, "error", 0) /\ vol' \in Cleaned(m, Live)
        PROVE  CloudTypeOK'
    <3>1. call[m].size \in Sizes \cup {0} /\ spot \in BOOLEAN /\ i \in Insts
      BY <1>1, <2>2 DEF CallRecs, Fresh
    <3>2. [st |-> "up", size |-> Resolved(call[m].size), spot |-> spot, by |-> m,
           attached |-> FALSE, ready |-> FALSE, notice |-> FALSE] \in InstRecs
      BY <3>1, DefaultIsASize DEF InstRecs
    <3>3. [call[m] EXCEPT !.at = "attach", !.id = i] \in CallRecs
      BY <1>1, <3>1 DEF CallRecs
    <3>4. inst' \in [Insts -> InstRecs \cup {NoInst, Gone}] /\ UNCHANGED <<cloud, left, lost>>
      BY <1>1, <1>4, <2>2, <3>2 DEF Launch
    <3>5. CASE call' = [call EXCEPT ![m].at = "attach", ![m].id = i] /\ UNCHANGED vol
      BY <1>1, <3>3, <3>4, <3>5
    <3>6. QED
      BY <1>1, <2>1, <2>2, <3>4, <3>5
  <2>3. CASE Return(m, "error", 0) /\ vol' \in Cleaned(m, Live) /\ UNCHANGED inst
    BY <1>1, <1>4, <2>1, <2>3 DEF Launch
  <2>4. QED
    BY Zenon, <1>4, <2>2, <2>3 DEF Launch
<1>5. ASSUME GiveUp(m)
      PROVE  inst' \in [Insts -> InstRecs \cup {NoInst, Gone}] /\ call' \in [Makers -> CallRecs]
  BY <1>1, <1>5, CallTypes DEF GiveUp
<1>6. CASE Attach(m)
  <2>1. CASE GiveUp(m) /\ vol' \in Cleaned(m, Live \ {call[m].id})
    BY <1>1, <1>5, <1>6, <2>1 DEF Attach, Cleaned
  <2>2. CASE /\ call[m].id \in Up /\ inst' = [inst EXCEPT ![call[m].id].attached = TRUE]
             /\ Goto(m, "restore") /\ UNCHANGED vol
    <3>1. call' \in [Makers -> CallRecs]
      BY <2>2, CallTypes
    <3>2. call[m].id \in Live
      BY SMTT(60), <2>2 DEF Up
    <3>3. inst' \in [Insts -> InstRecs \cup {NoInst, Gone}]
      BY <1>1, <2>2, <3>2, InstTypes
    <3>4. QED
      BY <1>1, <1>6, <2>2, <3>1, <3>3 DEF Attach
  <2>3. QED
    BY <1>6, <2>1, <2>2 DEF Attach
<1>7. CASE Tag(m)
  <2>1. call' \in [Makers -> CallRecs]
    BY <1>7, CallTypes DEF Tag
  <2>2. Resolved(call[m].size) \in Sizes /\ call[m].spot \in BOOLEAN
    BY <1>1, DefaultIsASize DEF CallRecs
  <2>3. vol # NoVol => LET v == [vol EXCEPT !.size = Resolved(call[m].size), !.spot = call[m].spot]
                       IN  v \in VolRecs /\ v.fs = vol.fs /\ v.disk = vol.disk
    BY <1>1, <2>2 DEF VolRecs
  <2>4. QED
    BY <1>1, <1>7, <2>1, <2>3 DEF Tag
<1>8. CASE Configure(m)
  BY <1>1, <1>5, <1>8, CallTypes DEF Configure
<1>9. CASE Upload(m)
  <2>1. call' \in [Makers -> CallRecs]
    <3>1. call[m].id \in Insts \cup {0}
      BY <1>1 DEF CallRecs
    <3>2. QED
      BY <1>9, <3>1, CallTypes DEF Upload
  <2>2. inst' \in [Insts -> InstRecs \cup {NoInst, Gone}]
    BY <1>1, <1>9, InstTypes DEF Upload, Up
  <2>3. QED
    BY <1>1, <1>9, <2>1, <2>2 DEF Upload
<1>10. CASE Restore(m)
  <2>1. CASE Goto(m, "tags") /\ UNCHANGED <<inst, vol, left>>
    BY <1>1, <1>10, <2>1, CallTypes DEF Restore
  <2>2. CASE GiveUp(m) /\ vol' \in Cleaned(m, Live') /\ left' = left \cup (Live' \cap {call[m].id})
    BY <1>1, <1>5, <1>10, <2>2 DEF Restore, Cleaned, Live
  <2>3. QED
    BY <1>10, <2>1, <2>2 DEF Restore
<1>11. QED
  BY <1>2, <1>3, <1>4, <1>6, <1>7, <1>8, <1>9, <1>10 DEF Make

\* A call begun keeps the types of the calls.
LEMMA EnterTypes ==
    ASSUME TypeOK, NEW m \in Makers, NEW at \in {"boot", "volume", "error"},
           NEW size \in Sizes \cup {0}, NEW spot \in BOOLEAN, Enter(m, at, size, spot)
    PROVE  call' \in [Makers -> CallRecs]
<1>1. call \in [Makers -> CallRecs]
  BY DEF TypeOK, CloudTypeOK
<1>2. [NotCalling EXCEPT !.at = at, !.size = size, !.spot = spot] \in CallRecs /\ [NotCalling EXCEPT !.at = at] \in CallRecs
  BY DEF NotCalling, CallRecs
<1>3. QED
  BY <1>1, <1>2 DEF Enter

LEMMA BeginTypes ==
    ASSUME TypeOK, NEW m \in Makers, NEW size \in Sizes \cup {0}, NEW spot \in BOOLEAN,
           BeginCreate(m, size, spot) \/ BeginStart(m, size, spot)
    PROVE  CloudTypeOK'
<1>1. CASE BeginCreate(m, size, spot)
  <2>1. (IF Live = {} /\ vol = NoVol THEN "volume" ELSE "error") \in {"boot", "volume", "error"}
    OBVIOUS
  <2>2. call' \in [Makers -> CallRecs]
    BY <1>1, <2>1, EnterTypes DEF BeginCreate
  <2>3. QED
    BY <1>1, <2>2 DEF BeginCreate, TypeOK, CloudTypeOK
<1>2. CASE BeginStart(m, size, spot)
  <2> DEFINE at == IF Stopped # {} THEN "boot"
                   ELSE IF Up # {} \/ vol = NoVol THEN "error"
                   ELSE IF size = 0 /\ vol.size = 0 THEN "error" ELSE "volume"
             sz == IF size # 0 \/ vol = NoVol THEN size ELSE vol.size
             sp == vol # NoVol /\ vol.spot /\ ~spot
  <2>1. at \in {"boot", "volume", "error"}
    OBVIOUS
  <2>2. sz \in Sizes \cup {0}
    BY DEF TypeOK, CloudTypeOK, VolRecs
  <2>3. sp \in BOOLEAN
    OBVIOUS
  <2>4. Enter(m, at, sz, sp) /\ UNCHANGED <<cloud, inst, vol, left, lost>>
    BY <1>2 DEF BeginStart
  <2> HIDE DEF at, sz, sp
  <2>5. call' \in [Makers -> CallRecs]
    BY <2>1, <2>2, <2>3, <2>4, EnterTypes
  <2>6. QED
    BY <2>4, <2>5 DEF TypeOK, CloudTypeOK
<1>3. QED
  BY <1>1, <1>2

\* What the tasks are is typed.
TasksOK == task \in [Tasks -> TaskRecs \cup {NoTask}] /\ lock \in Tasks \cup {0} /\ (lock # 0 => task[lock] # NoTask)

LEMMA AdvanceTypes ==
    ASSUME TypeOK, NEW t \in Tasks, task[t] # NoTask, NEW err \in BOOLEAN,
           NEW at \in {"queued", "disk", "fs", "destroy", "start", "create", "end", "over"}
    PROVE  Advance(t, at, err) => /\ task' \in [Tasks -> TaskRecs \cup {NoTask}] /\ task'[t] # NoTask
                                  /\ task' = [task EXCEPT ![t] = [task[t] EXCEPT !.at = at, !.err = task[t].err \/ err]]
<1>1. task[t] \in TaskRecs /\ task \in [Tasks -> TaskRecs \cup {NoTask}]
  BY DEF TypeOK
<1>2. [task[t] EXCEPT !.at = at, !.err = task[t].err \/ err] \in TaskRecs
  BY ZenonT(60), <1>1 DEF TaskRecs
<1>3. ASSUME Advance(t, at, err)
      PROVE  task' = [task EXCEPT ![t] = [task[t] EXCEPT !.at = at, !.err = task[t].err \/ err]]
  BY <1>1, <1>3 DEF Advance, TaskRecs
<1>4. QED
  BY <1>1, <1>2, <1>3, TasksAssumption

LEMMA TaskTypes ==
    ASSUME TypeOK, NEW t \in Tasks, Run(t)
    PROVE  TasksOK' /\ CloudTypeOK'
<1> USE DEF TasksOK
<1>1. TypeOK /\ CloudTypeOK /\ TasksOK /\ t # 0 /\ TRUE \in BOOLEAN /\ FALSE \in BOOLEAN
  BY TasksAssumption DEF TypeOK
<1>2. task[t] \in TaskRecs /\ task[t] # NoTask
  <2>1. task[t] # NoTask
    BY <1>1, TasksAssumption DEF Run, Lock, Disk, Filesystem, DestroyOld, StartNew, Started, Report, TaskRecs
  <2>2. QED
    BY <1>1, <2>1
<1>3. CASE Lock(t)
  <2>1. [task[t] EXCEPT !.at = IF task[t].kind \in {"disk", "diskram"} THEN "disk" ELSE "destroy",
                        !.note = "start"] \in TaskRecs
    BY <1>2 DEF TaskRecs
  <2>2. QED
    BY <1>1, <1>2, <1>3, <2>1, TasksAssumption DEF Lock, cloudVars, CloudTypeOK
<1>4. CASE Disk(t)
  <2>1. AfterDisk(t) \in {"end", "destroy"}
    BY Zenon DEF AfterDisk
  <2>2. TasksOK'
    BY Zenon, <1>1, <1>2, <1>4, <2>1, AdvanceTypes DEF Disk
  <2>3. task[t].disk \in Nat
    BY <1>2 DEF TaskRecs
  <2>4. ASSUME ResizeVolumes(task[t].disk) PROVE CloudTypeOK'
    <3>1. vol \in VolRecs /\ vol.disk \in Nat /\ vol.fs \in Nat /\ vol.fs <= vol.disk /\ vol.disk < task[t].disk
      BY <1>1, <2>4 DEF ResizeVolumes, CloudTypeOK, VolRecs
    <3>2. vol' \in VolRecs /\ vol'.disk = task[t].disk /\ vol'.fs = vol.fs
      BY <2>3, <2>4, <3>1 DEF ResizeVolumes, VolRecs
    <3>3. QED
      BY <1>1, <1>4, <2>3, <3>1, <3>2 DEF Disk, CloudTypeOK
  <2>5. QED
    BY <1>1, <1>4, <2>2, <2>4 DEF Disk, CloudTypeOK
<1>5. CASE Filesystem(t)
  <2>1. AfterDisk(t) \in {"end", "destroy"}
    BY Zenon DEF AfterDisk
  <2>2. TasksOK'
    BY Zenon, <1>1, <1>2, <1>5, <2>1, AdvanceTypes DEF Filesystem
  <2>3. ASSUME vol # NoVol, vol' = [vol EXCEPT !.fs = vol.disk] PROVE CloudTypeOK'
    <3>1. vol' \in VolRecs /\ vol'.disk = vol.disk /\ vol'.fs = vol.disk /\ vol.disk \in Nat
      BY <1>1, <2>3 DEF VolRecs, CloudTypeOK
    <3>2. QED
      BY <1>1, <1>5, <3>1 DEF Filesystem, CloudTypeOK
  <2>4. QED
    BY Zenon, <1>1, <1>5, <2>2, <2>3 DEF Filesystem, CloudTypeOK
<1>6. CASE DestroyOld(t)
  <2>1. TasksOK'
    BY Zenon, <1>1, <1>2, <1>6, AdvanceTypes DEF DestroyOld
  <2>2. Terminated(Live) \in [Insts -> InstRecs \cup {NoInst, Gone}]
    BY <1>1 DEF Terminated, CloudTypeOK
  <2>3. QED
    BY <1>1, <1>6, <2>1, <2>2 DEF DestroyOld, CloudTypeOK
<1>7. CASE StartNew(t)
  <2>1. TasksOK'
    BY Zenon, <1>1, <1>2, <1>7, AdvanceTypes DEF StartNew
  <2>2. task[t].size \in Sizes \cup {0} /\ (task[t].kind = "capacity") \in BOOLEAN
    BY <1>2 DEF TaskRecs
  <2>3. QED
    BY Zenon, <1>7, <2>1, <2>2, BeginTypes, MonitorAssumption DEF StartNew
<1>8. CASE Started(t)
  <2>1. TasksOK'
    BY Zenon, <1>1, <1>2, <1>8, AdvanceTypes DEF Started
  <2>2. QED
    BY ZenonT(60), <1>1, <1>8, <2>1 DEF Started, cloudVars, CloudTypeOK
<1>9. CASE Report(t)
  <2>1. Over(task[t].err) \in TaskRecs
    BY <1>2, InstsAssumption DEF Over, TaskRecs
  <2>2. QED
    BY <1>1, <1>9, <2>1 DEF Report, cloudVars, CloudTypeOK
<1>10. QED
  BY <1>3, <1>4, <1>5, <1>6, <1>7, <1>8, <1>9 DEF Run

\* An event keeps the types.
LEMMA EventTypes ==
    ASSUME TypeOK, Event
    PROVE  TasksOK' /\ \E t \in Tasks, kind \in {"capacity", "ram", "disk", "diskram"}, size \in Sizes \cup {0}, disk \in Nat, i \in Up :
              /\ task[t] = NoTask /\ inst[i].ready
              /\ task' = [task EXCEPT ![t] = [kind |-> kind, size |-> size, disk |-> disk, from |-> i,
                                              at |-> "queued", err |-> FALSE, note |-> "none"]]
<1>1. PICK i \in Up : /\ inst[i].ready /\ inst[i].attached
                      /\ CapacityEvent(i) \/ SizingEvent(i)
                      /\ UNCHANGED <<cloudVars, lock, others, raced, moved>>
  BY Zenon DEF Event
<1>2. inst[i] \in InstRecs /\ i \in Insts /\ inst[i].size \in Sizes
  BY LiveFacts DEF Up, InstRecs
<1>3. 0 \in Sizes \cup {0} /\ 0 \in Nat /\ \A r \in Sizes : MoreRam(inst[i].size) \in Sizes \cup {0} /\ EnoughRam(inst[i].size, r) \in Sizes \cup {0}
  BY <1>2, RamIsASize
<1>4. \E kind \in {"capacity", "ram", "disk", "diskram"}, size \in Sizes \cup {0}, disk \in Nat : Accept(kind, size, disk, i)
  <2>1. CASE CapacityEvent(i)
    BY Zenon, <1>3, <2>1 DEF CapacityEvent
  <2>2. CASE SizingEvent(i)
    <3>1. PICK full \in BOOLEAN, size \in {0, MoreRam(inst[i].size)} \cup {EnoughRam(inst[i].size, r) : r \in Sizes} :
             LET grow == full /\ cloud = "gcp" /\ vol # NoVol /\ vol.fs < MaxDisk
                 disk == IF grow THEN vol.fs + 1 ELSE 0
             IN  \/ disk # 0 /\ size = 0 /\ Accept("disk", 0, disk, i)
                 \/ disk = 0 /\ size # 0 /\ Accept("ram", size, 0, i)
                 \/ disk # 0 /\ size # 0 /\ Accept("diskram", size, disk, i)
      BY <2>2 DEF SizingEvent
    <3> DEFINE disk == IF full /\ cloud = "gcp" /\ vol # NoVol /\ vol.fs < MaxDisk THEN vol.fs + 1 ELSE 0
    <3>2. size \in Sizes \cup {0}
      <4>1. CASE size \in {0, MoreRam(inst[i].size)}
        BY <1>3, <4>1, SizesAssumption
      <4>2. CASE size \in {EnoughRam(inst[i].size, r) : r \in Sizes}
        BY <1>3, <4>2
      <4>3. QED
        BY <3>1, <4>1, <4>2
    <3>3. disk \in Nat
      BY DEF TypeOK, CloudTypeOK, VolRecs
    <3>4. Accept("disk", 0, disk, i) \/ Accept("ram", size, 0, i) \/ Accept("diskram", size, disk, i)
      BY <3>1
    <3> HIDE DEF disk
    <3>5. QED
      BY Zenon, <1>3, <3>2, <3>3, <3>4
  <2>3. QED
    BY <1>1, <2>1, <2>2
<1>5. PICK kind \in {"capacity", "ram", "disk", "diskram"}, size \in Sizes \cup {0}, disk \in Nat, t \in Tasks :
         /\ task[t] = NoTask
         /\ task' = [task EXCEPT ![t] = [kind |-> kind, size |-> size, disk |-> disk, from |-> i,
                                         at |-> "queued", err |-> FALSE, note |-> "none"]]
  BY Zenon, <1>4 DEF Accept
<1>6. [kind |-> kind, size |-> size, disk |-> disk, from |-> i, at |-> "queued", err |-> FALSE, note |-> "none"] \in TaskRecs
  BY <1>2 DEF TaskRecs
<1>7. QED
  BY <1>1, <1>5, <1>6 DEF TypeOK, TasksOK

LEMMA TypeInit == Init => TypeOK
<1> SUFFICES ASSUME Init PROVE TypeOK
  OBVIOUS
<1>1. NotCalling \in CallRecs
  BY DEF NotCalling, CallRecs
<1>2. CloudTypeOK
  BY <1>1 DEF Init, CloudInit, CloudTypeOK
<1>3. QED
  BY <1>2 DEF Init, TypeOK

LEMMA TypeNext == TypeOK /\ [Next]_vars => TypeOK'
<1> SUFFICES ASSUME TypeOK, [Next]_vars PROVE TypeOK'
  OBVIOUS
<1>1. raced' \in BOOLEAN /\ moved' \in BOOLEAN
  BY DEF TypeOK, Next, Event, Task, Run, Lock, Disk, Filesystem, DestroyOld, StartNew, Started, Report, Making,
         UserMakes, UserDestroys, Halts, Notices, Races, Kept, vars
<1>2. CASE Event
  BY <1>1, <1>2, EventTypes DEF Event, TypeOK, TasksOK, CloudTypeOK, cloudVars
<1>3. ASSUME NEW t \in Tasks, Run(t) PROVE TypeOK'
  BY <1>1, <1>3, TaskTypes DEF TasksOK, TypeOK
<1>4. ASSUME NEW m \in {"monitor", "user"}, Making(m) PROVE TypeOK'
  BY <1>1, <1>4, MakeTypes, MonitorAssumption DEF Making, TypeOK
<1>5. CASE UserMakes
  <2>1. CloudTypeOK'
    <3>1. \/ \E size \in Sizes \cup {0}, spot \in BOOLEAN : BeginCreate("user", size, spot)
          \/ BeginStart("user", 0, FALSE)
      BY <1>5 DEF UserMakes
    <3>2. QED
      BY <3>1, BeginTypes, MonitorAssumption
  <2>2. QED
    BY <1>1, <1>5, <2>1 DEF UserMakes, TypeOK
<1>6. CASE UserDestroys \/ Halts \/ Notices
  <2>1. ASSUME NEW i \in Up PROVE i \in Live
    BY DEF Up
  <2>2. inst' \in [Insts -> InstRecs \cup {NoInst, Gone}]
    <3>1. CASE UserDestroys
      BY <3>1 DEF UserDestroys, Destroy, Terminated, TypeOK, CloudTypeOK
    <3>2. CASE Halts
      <4>1. PICK i \in Up : \/ inst' = [inst EXCEPT ![i].st = "stopped", ![i].ready = FALSE, ![i].notice = FALSE]
                          \/ inst' = [inst EXCEPT ![i] = Gone]
        BY ZenonT(60), <3>2 DEF Halts, Halt
      <4>2. i \in Insts /\ [inst[i] EXCEPT !.st = "stopped", !.ready = FALSE, !.notice = FALSE] \in InstRecs
        BY <2>1, InstTypes DEF Live
      <4>3. inst' = [inst EXCEPT ![i] = [inst[i] EXCEPT !.st = "stopped", !.ready = FALSE, !.notice = FALSE]]
            \/ inst' = [inst EXCEPT ![i] = Gone]
        BY <4>1
      <4>4. QED
        BY <4>2, <4>3 DEF TypeOK, CloudTypeOK
    <3>3. CASE Notices
      <4>1. PICK i \in Up : inst' = [inst EXCEPT ![i].notice = TRUE]
        BY <3>3 DEF Notices, Notice
      <4>2. i \in Insts /\ [inst[i] EXCEPT !.notice = TRUE] \in InstRecs
        BY <2>1, InstTypes DEF Live
      <4>3. QED
        BY <4>1, <4>2 DEF TypeOK, CloudTypeOK
    <3>4. QED
      BY <1>6, <3>1, <3>2, <3>3
  <2>3. QED
    BY <1>1, <1>6, <2>2 DEF UserDestroys, Destroy, Halts, Halt, Notices, Notice, TypeOK, CloudTypeOK
<1>7. CASE UNCHANGED vars
  BY <1>7 DEF vars, cloudVars, TypeOK, CloudTypeOK
<1>8. QED
  BY <1>2, <1>3, <1>4, <1>5, <1>6, <1>7 DEF Next, Task

-----------------------------------------------------------------------------
(*                      What the steps of a call do                        *)

\* Instance i of the next state has what a live instance never changes.
Kin(i) == i \in Live /\ inst'[i].size = inst[i].size /\ inst'[i].spot = inst[i].spot /\ inst'[i].by = inst[i].by
\* A call ends, with at.
Ends(m, at) == call'[m].at = at /\ ~call'[m].spot
\* A call goes on to at, with what it knows.
Goes(m, at) ==
  call'[m].at = at /\ call'[m].size = call[m].size /\ call'[m].spot = call[m].spot /\ call'[m].id = call[m].id
Others(m) == \A n \in Makers \ {m} : call'[n] = call[n]
\* The volume may be deleted, if none of the instances in S has it.
VolumeKept(S) == vol' = vol \/ (vol' = NoVol /\ \A i \in S : ~inst[i].attached)
\* Instance i is taken away, the others stay.
Taken(i) == Live' = Live \ {i} /\ (\A j \in Insts \ {i} : inst'[j] = inst[j]) /\ inst'[i] = Gone

LEMMA ReturnEffect ==
    ASSUME TypeOK, NEW m \in Makers, NEW how, NEW kept, Return(m, how, kept)
    PROVE  Ends(m, how) /\ Others(m)
  BY DEF Return, NotCalling, Ends, Others, TypeOK, CloudTypeOK

LEMMA GotoEffect ==
    ASSUME TypeOK, NEW m \in Makers, NEW at, Goto(m, at)
    PROVE  Goes(m, at) /\ Others(m)
<1>1. call \in [Makers -> CallRecs] /\ call[m] \in CallRecs
  BY CallTypes DEF TypeOK, CloudTypeOK
<1>2. QED
  BY <1>1 DEF Goto, Goes, Others, CallRecs

LEMMA BootEffect ==
    ASSUME TypeOK, NEW m \in Makers, Boot(m)
    PROVE  /\ call[m].at = "boot" /\ Others(m) /\ UNCHANGED <<cloud, vol, lost>>
           /\ Live' = Live /\ \A i \in Live : Kin(i) /\ inst'[i].attached = inst[i].attached
           /\ \A i \in Up : inst'[i] = inst[i]
           /\ \A i \in Insts : inst[i] # NoInst => inst'[i] # NoInst
           /\ (Ends(m, "ok") /\ Stopped # {}) \/ (Ends(m, "error") /\ inst' = inst)
           /\ Stopped' \subseteq Stopped
<1>1. call[m].at = "boot" /\ UNCHANGED <<cloud, vol, lost>>
  BY DEF Boot
<1>2. CASE Return(m, "error", 0) /\ UNCHANGED inst
  BY <1>1, <1>2, ReturnEffect, LiveFacts DEF Kin, Live, Up, Stopped
<1>3. ASSUME Stopped # {}, NEW serving \in BOOLEAN, Return(m, "ok", 0),
             inst' = [i \in Insts |-> IF i \in Stopped THEN [inst[i] EXCEPT !.st = "up", !.ready = serving] ELSE inst[i]]
      PROVE  /\ Live' = Live /\ \A i \in Live : Kin(i) /\ inst'[i].attached = inst[i].attached
             /\ \A i \in Up : inst'[i] = inst[i]
             /\ \A i \in Insts : inst[i] # NoInst => inst'[i] # NoInst
             /\ Stopped' \subseteq Stopped
  <2>1. ASSUME NEW i \in Stopped
        PROVE  /\ i \in Insts /\ i \in Live /\ inst'[i] \in InstRecs
               /\ inst'[i].size = inst[i].size /\ inst'[i].spot = inst[i].spot /\ inst'[i].by = inst[i].by
               /\ inst'[i].attached = inst[i].attached /\ inst'[i].st = "up"
    <3>1. i \in Live /\ i \in Insts /\ inst[i] \in InstRecs
      BY LiveFacts DEF Stopped
    <3>2. inst'[i] = [inst[i] EXCEPT !.st = "up", !.ready = serving]
      BY ZenonT(60), <1>3, <3>1
    <3>3. [inst[i] EXCEPT !.st = "up", !.ready = serving] \in InstRecs
      BY ZenonT(60), <3>1, InstTypes
    <3>4. inst'[i] \in InstRecs
      BY <3>2, <3>3
    <3>5. QED
      BY <3>1, <3>2, <3>4 DEF InstRecs
  <2>2. ASSUME NEW i \in Insts \ Stopped PROVE inst'[i] = inst[i]
    BY <1>3
  <2>3. inst' \in [Insts -> InstRecs \cup {NoInst, Gone}]
    BY <2>1, <2>2, <1>3 DEF TypeOK, CloudTypeOK
  <2>4. Live' = Live
    BY <2>1, <2>2, CloudNoneAssumption DEF Live
  <2>5. Up \cap Stopped = {} /\ Up \subseteq Insts
    BY DEF Up, Stopped, Live
  <2>6. Stopped' \subseteq Stopped
    BY <2>1, <2>2, <2>4 DEF Stopped, Up, Live
  <2>7. ASSUME NEW i \in Insts, inst[i] # NoInst PROVE inst'[i] # NoInst
    BY <2>1, <2>2, <2>7, CloudNoneAssumption
  <2>8. ASSUME NEW i \in Live PROVE Kin(i) /\ inst'[i].attached = inst[i].attached
    <3>1. i \in Insts
      BY DEF Live
    <3>2. QED
      BY <2>1, <2>2, <3>1 DEF Kin
  <2>9. ASSUME NEW i \in Up PROVE inst'[i] = inst[i]
    BY <2>2, <2>5
  <2>10. QED
    BY <2>4, <2>6, <2>7, <2>8, <2>9
<1>4. QED
  <2>1. CASE Return(m, "error", 0) /\ UNCHANGED inst
    BY <1>1, <1>2, <2>1, ReturnEffect
  <2>2. CASE Stopped # {} /\ Return(m, "ok", 0) /\ \E serving \in BOOLEAN :
             inst' = [i \in Insts |-> IF i \in Stopped THEN [inst[i] EXCEPT !.st = "up", !.ready = serving] ELSE inst[i]]
    <3>1. Ends(m, "ok") /\ Others(m)
      BY ZenonT(60), <2>2, ReturnEffect
    <3>2. PICK serving \in BOOLEAN :
             inst' = [i \in Insts |-> IF i \in Stopped THEN [inst[i] EXCEPT !.st = "up", !.ready = serving] ELSE inst[i]]
      BY ZenonT(60), <2>2
    <3>3. /\ Live' = Live /\ \A i \in Live : Kin(i) /\ inst'[i].attached = inst[i].attached
          /\ \A i \in Up : inst'[i] = inst[i]
          /\ \A i \in Insts : inst[i] # NoInst => inst'[i] # NoInst
          /\ Stopped' \subseteq Stopped
      BY Zenon, <1>3, <2>2, <3>2
    <3>4. Stopped # {}
      BY <2>2
    <3>5. QED
      BY <1>1, <3>1, <3>3, <3>4
  <2>3. QED
    BY Zenon, <2>1, <2>2 DEF Boot

LEMMA VolumeEffect ==
    ASSUME TypeOK, NEW m \in Makers, Volume(m)
    PROVE  /\ call[m].at = "volume" /\ Others(m) /\ UNCHANGED <<cloud, inst>>
           /\ \/ /\ Goes(m, "launch")
                 /\ \/ vol' # NoVol /\ vol'.size = call[m].size /\ vol'.spot = call[m].spot /\ lost' = lost
                    \/ vol # NoVol /\ vol' = vol /\ lost' = lost \cup {"tags"}
              \/ /\ Ends(m, "error") /\ lost' = lost
                 /\ vol' = vol \/ (vol = NoVol /\ vol' # NoVol /\ vol'.spot = call[m].spot)
<1>1. call[m] \in CallRecs /\ call \in [Makers -> CallRecs] /\ vol \in VolRecs \cup {NoVol}
  BY CallTypes DEF TypeOK, CloudTypeOK
<1>2. call[m].at = "volume" /\ UNCHANGED <<cloud, inst>>
  BY DEF Volume
<1>3. CASE vol = NoVol /\ vol' = [size |-> call[m].size, spot |-> call[m].spot, disk |-> 1, fs |-> 1]
           /\ (call' = [call EXCEPT ![m].at = "launch", ![m].made = TRUE] \/ Return(m, "error", 0)) /\ UNCHANGED lost
  <2>1. Others(m) /\ (Goes(m, "launch") \/ Ends(m, "error"))
    <3>1. CASE call' = [call EXCEPT ![m].at = "launch", ![m].made = TRUE]
      <4>1. call'[m] = [call[m] EXCEPT !.at = "launch", !.made = TRUE] /\ Others(m)
        BY <1>1, <3>1 DEF Others
      <4>2. QED
        BY <1>1, <4>1 DEF Goes, CallRecs
    <3>2. QED
      BY <1>3, <3>1, ReturnEffect
  <2>2. vol' \in VolRecs
    <3>1. call[m].size \in Sizes \cup {0} /\ call[m].spot \in BOOLEAN
      BY <1>1 DEF CallRecs
    <3>2. QED
      BY <1>3, <3>1 DEF VolRecs
  <2>3. vol'.size = call[m].size /\ vol'.spot = call[m].spot
    BY <1>3
  <2>4. QED
    BY <1>2, <1>3, <2>1, <2>2, <2>3, CloudNoneAssumption
<1>4. CASE vol # NoVol /\ Goto(m, "launch")
           /\ vol' = [vol EXCEPT !.size = call[m].size, !.spot = call[m].spot] /\ UNCHANGED lost
  <2>1. call[m].size \in Sizes \cup {0} /\ call[m].spot \in BOOLEAN
    BY <1>1 DEF CallRecs
  <2>2. vol' \in VolRecs /\ vol'.size = call[m].size /\ vol'.spot = call[m].spot
    BY <1>1, <1>4, <2>1 DEF VolRecs
  <2>3. QED
    BY <1>2, <1>4, <2>2, GotoEffect, CloudNoneAssumption
<1>5. CASE vol # NoVol /\ Goto(m, "launch") /\ lost' = lost \cup {"tags"} /\ UNCHANGED vol
  BY <1>2, <1>5, GotoEffect
<1>6. CASE Return(m, "error", 0) /\ UNCHANGED <<vol, lost>>
  BY <1>2, <1>6, ReturnEffect
<1>7. QED
  BY Zenon, <1>3, <1>4, <1>5, <1>6 DEF Volume

LEMMA LaunchEffect ==
    ASSUME TypeOK, NEW m \in Makers, Launch(m)
    PROVE  /\ call[m].at = "launch" /\ Others(m) /\ UNCHANGED <<cloud, lost>>
           /\ Ends(m, "error") \/ call'[m].at = "attach"
           /\ Ends(m, "error") => VolumeKept(Live)
           /\ call'[m].at = "attach" =>
                 inst' # inst /\ vol' = vol /\ call'[m].size = call[m].size /\ call'[m].spot = call[m].spot
           /\ inst' # inst => \E i \in Insts :
                    /\ inst[i] = NoInst /\ Live' = Live \cup {i} /\ Up' = Up \cup {i} /\ Stopped' = Stopped
                    /\ \A j \in Insts \ {i} : inst'[j] = inst[j]
                    /\ inst'[i] \in InstRecs /\ inst'[i].size = Resolved(call[m].size) /\ inst'[i].by = m
                    /\ inst'[i].spot => call[m].spot
                    /\ ~inst'[i].attached /\ ~inst'[i].ready
                    /\ call'[m].at = "attach" => call'[m].id = i
<1>1. call[m] \in CallRecs /\ call \in [Makers -> CallRecs]
  BY CallTypes DEF TypeOK, CloudTypeOK
<1>2. call[m].at = "launch" /\ UNCHANGED <<cloud, lost>>
  BY DEF Launch
<1>3. ASSUME Return(m, "error", 0), vol' \in Cleaned(m, Live)
      PROVE  Ends(m, "error") /\ Others(m) /\ VolumeKept(Live)
  BY <1>3, ReturnEffect DEF Cleaned, VolumeKept
<1>4. ASSUME NEW i \in Fresh, NEW spot \in {call[m].spot} \cup (IF cloud = "aws" THEN {FALSE} ELSE {}),
             inst' = [inst EXCEPT ![i] = [st |-> "up", size |-> Resolved(call[m].size), spot |-> spot, by |-> m,
                                          attached |-> FALSE, ready |-> FALSE, notice |-> FALSE]]
      PROVE  /\ i \in Insts /\ inst' # inst
             /\ inst[i] = NoInst /\ Live' = Live \cup {i} /\ Up' = Up \cup {i} /\ Stopped' = Stopped
             /\ \A j \in Insts \ {i} : inst'[j] = inst[j]
             /\ inst'[i] \in InstRecs /\ inst'[i].size = Resolved(call[m].size) /\ inst'[i].by = m
             /\ inst'[i].spot => call[m].spot
             /\ ~inst'[i].attached /\ ~inst'[i].ready
  <2>1. i \in Insts /\ inst[i] = NoInst
    BY DEF Fresh
  <2>2. \A j \in Insts \ {i} : inst'[j] = inst[j]
    BY <1>4 DEF TypeOK, CloudTypeOK
  <2>3. inst'[i] = [st |-> "up", size |-> Resolved(call[m].size), spot |-> spot, by |-> m,
                    attached |-> FALSE, ready |-> FALSE, notice |-> FALSE]
    BY <1>4, <2>1 DEF TypeOK, CloudTypeOK
  <2>4. spot \in BOOLEAN /\ (spot => call[m].spot) /\ Resolved(call[m].size) \in Sizes
    BY <1>1, DefaultIsASize DEF CallRecs
  <2>5. inst'[i] \in InstRecs
    BY <2>3, <2>4 DEF InstRecs
  <2>6. Live' = Live \cup {i}
    BY <2>1, <2>2, <2>5, CloudNoneAssumption DEF Live
  <2>7. i \notin Live
    BY <2>1 DEF Live
  <2>8. inst'[i].st = "up"
    BY <2>3
  <2>9. \A j \in Live : j \in Insts \ {i} /\ inst'[j] = inst[j]
    BY <2>2, <2>7 DEF Live
  <2>10. Up' = Up \cup {i}
    BY <2>6, <2>8, <2>9 DEF Up
  <2>11. Stopped' = Stopped
    BY <2>6, <2>7, <2>10 DEF Stopped
  <2>12. QED
    BY <2>1, <2>2, <2>3, <2>4, <2>5, <2>6, <2>10, <2>11, CloudNoneAssumption
<1>5. ASSUME NEW i \in Insts, call' = [call EXCEPT ![m].at = "attach", ![m].id = i]
      PROVE  /\ Others(m) /\ call'[m].at = "attach" /\ call'[m].id = i
             /\ call'[m].size = call[m].size /\ call'[m].spot = call[m].spot
  <2>1. call'[m] = [call[m] EXCEPT !.at = "attach", !.id = i] /\ Others(m)
    BY <1>1, <1>5 DEF Others
  <2>2. QED
    BY <1>1, <2>1 DEF CallRecs
<1>6. CASE Return(m, "error", 0) /\ vol' \in Cleaned(m, Live) /\ UNCHANGED inst
  BY <1>2, <1>3, <1>6 DEF Ends
<1>7. ASSUME NEW i \in Fresh, NEW spot \in {call[m].spot} \cup (IF cloud = "aws" THEN {FALSE} ELSE {}),
             inst' = [inst EXCEPT ![i] = [st |-> "up", size |-> Resolved(call[m].size), spot |-> spot, by |-> m,
                                          attached |-> FALSE, ready |-> FALSE, notice |-> FALSE]],
             \/ call' = [call EXCEPT ![m].at = "attach", ![m].id = i] /\ UNCHANGED vol
             \/ Return(m, "error", 0) /\ vol' \in Cleaned(m, Live)
      PROVE  /\ Others(m) /\ (Ends(m, "error") \/ call'[m].at = "attach")
             /\ Ends(m, "error") => VolumeKept(Live)
             /\ call'[m].at = "attach" =>
                   vol' = vol /\ call'[m].size = call[m].size /\ call'[m].spot = call[m].spot /\ call'[m].id = i
  <2>1. i \in Insts
    BY DEF Fresh
  <2>2. CASE call' = [call EXCEPT ![m].at = "attach", ![m].id = i] /\ UNCHANGED vol
    BY <1>5, <2>1, <2>2 DEF Ends
  <2>3. CASE Return(m, "error", 0) /\ vol' \in Cleaned(m, Live)
    BY <1>3, <2>3 DEF Ends
  <2>4. QED
    BY <1>7, <2>2, <2>3
<1>8. QED
  <2>1. CASE \E i \in Fresh, spot \in {call[m].spot} \cup (IF cloud = "aws" THEN {FALSE} ELSE {}) :
             /\ inst' = [inst EXCEPT ![i] = [st |-> "up", size |-> Resolved(call[m].size), spot |-> spot, by |-> m,
                                          attached |-> FALSE, ready |-> FALSE, notice |-> FALSE]]
             /\ \/ call' = [call EXCEPT ![m].at = "attach", ![m].id = i] /\ UNCHANGED vol
                \/ Return(m, "error", 0) /\ vol' \in Cleaned(m, Live)
    <3>1. PICK i \in Fresh, spot \in {call[m].spot} \cup (IF cloud = "aws" THEN {FALSE} ELSE {}) :
             /\ inst' = [inst EXCEPT ![i] = [st |-> "up", size |-> Resolved(call[m].size), spot |-> spot, by |-> m,
                                          attached |-> FALSE, ready |-> FALSE, notice |-> FALSE]]
             /\ \/ call' = [call EXCEPT ![m].at = "attach", ![m].id = i] /\ UNCHANGED vol
                \/ Return(m, "error", 0) /\ vol' \in Cleaned(m, Live)
      BY Zenon, <2>1
    <3>2. /\ i \in Insts /\ inst' # inst
          /\ inst[i] = NoInst /\ Live' = Live \cup {i} /\ Up' = Up \cup {i} /\ Stopped' = Stopped
          /\ \A j \in Insts \ {i} : inst'[j] = inst[j]
          /\ inst'[i] \in InstRecs /\ inst'[i].size = Resolved(call[m].size) /\ inst'[i].by = m
          /\ inst'[i].spot => call[m].spot
          /\ ~inst'[i].attached /\ ~inst'[i].ready
      BY Zenon, <1>4, <3>1
    <3>3. /\ Others(m) /\ (Ends(m, "error") \/ call'[m].at = "attach")
          /\ Ends(m, "error") => VolumeKept(Live)
          /\ call'[m].at = "attach" =>
                vol' = vol /\ call'[m].size = call[m].size /\ call'[m].spot = call[m].spot /\ call'[m].id = i
      BY Zenon, <1>7, <3>1
    <3>4. QED
      BY <1>2, <3>2, <3>3
  <2>2. QED
    BY Zenon, <1>6, <2>1 DEF Launch

LEMMA GiveUpEffect ==
    ASSUME TypeOK, IdInv, NEW m \in Makers, call[m].at \in InFlight, GiveUp(m)
    PROVE  Ends(m, "error") /\ Others(m) /\ (inst' = inst \/ Taken(call[m].id))
<1>1. inst' \in {inst, [inst EXCEPT ![call[m].id] = Gone]} /\ Return(m, "error", 0)
  BY DEF GiveUp
<1>2. Ends(m, "error") /\ Others(m)
  BY <1>1, ReturnEffect
<1>3. CASE inst' = [inst EXCEPT ![call[m].id] = Gone]
  <2>1. call[m].id \in Insts
    BY DEF IdInv
  <2>2. (\A j \in Insts \ {call[m].id} : inst'[j] = inst[j]) /\ inst'[call[m].id] = Gone
    BY <1>3, <2>1 DEF TypeOK, CloudTypeOK
  <2>3. Live' = Live \ {call[m].id}
    BY <2>1, <2>2, CloudNoneAssumption DEF Live
  <2>4. QED
    BY <1>2, <2>2, <2>3 DEF Taken
<1>4. QED
  BY <1>1, <1>2, <1>3

\* A field of instance i is set.
LEMMA SetsEffect ==
    ASSUME TypeOK, NEW i \in Live, NEW b \in BOOLEAN,
           inst' = [inst EXCEPT ![i].attached = b] \/ inst' = [inst EXCEPT ![i].ready = b]
    PROVE  /\ Live' = Live /\ Up' = Up /\ Kin(i) /\ (\A j \in Insts \ {i} : inst'[j] = inst[j])
           /\ inst' = [inst EXCEPT ![i].attached = b] => inst'[i].attached = b /\ inst'[i].ready = inst[i].ready
           /\ inst' = [inst EXCEPT ![i].ready = b] => inst'[i].attached = inst[i].attached /\ inst'[i].ready = b
           /\ Stopped' = Stopped /\ inst'[i] \in InstRecs
<1>1. i \in Insts /\ inst[i] \in InstRecs
  BY LiveFacts
<1>2. CASE inst' = [inst EXCEPT ![i].attached = b]
  <2>1. inst'[i] = [inst[i] EXCEPT !.attached = b]
    BY <1>1, <1>2 DEF TypeOK, CloudTypeOK
  <2>2. /\ inst'[i] \in InstRecs /\ inst'[i].attached = b /\ inst'[i].ready = inst[i].ready /\ inst'[i].st = inst[i].st
        /\ inst'[i].size = inst[i].size /\ inst'[i].spot = inst[i].spot /\ inst'[i].by = inst[i].by
    BY <1>1, <2>1 DEF InstRecs
  <2>3. \A j \in Insts \ {i} : inst'[j] = inst[j]
    BY <1>2 DEF TypeOK, CloudTypeOK
  <2>4. Live' = Live
    BY <1>1, <2>2, <2>3, CloudNoneAssumption DEF Live
  <2>5. Up' = Up /\ Live \subseteq Insts
    BY <2>2, <2>3, <2>4 DEF Up, Live
  <2>6. inst' = [inst EXCEPT ![i].ready = b] => inst'[i].ready = b /\ inst'[i].attached = inst[i].attached
    <3>1. inst' = [inst EXCEPT ![i].ready = b] => inst'[i] = [inst[i] EXCEPT !.ready = b]
      BY <1>1 DEF TypeOK, CloudTypeOK
    <3>2. QED
      BY <1>1, <3>1 DEF InstRecs
  <2>7. QED
    BY <1>2, <2>2, <2>3, <2>4, <2>5, <2>6 DEF Kin, Stopped
<1>3. CASE inst' = [inst EXCEPT ![i].ready = b]
  <2>1. inst'[i] = [inst[i] EXCEPT !.ready = b]
    BY <1>1, <1>3 DEF TypeOK, CloudTypeOK
  <2>2. /\ inst'[i] \in InstRecs /\ inst'[i].ready = b /\ inst'[i].attached = inst[i].attached /\ inst'[i].st = inst[i].st
        /\ inst'[i].size = inst[i].size /\ inst'[i].spot = inst[i].spot /\ inst'[i].by = inst[i].by
    BY <1>1, <2>1 DEF InstRecs
  <2>3. \A j \in Insts \ {i} : inst'[j] = inst[j]
    BY <1>3 DEF TypeOK, CloudTypeOK
  <2>4. Live' = Live
    BY <1>1, <2>2, <2>3, CloudNoneAssumption DEF Live
  <2>5. Up' = Up /\ Live \subseteq Insts
    BY <2>2, <2>3, <2>4 DEF Up, Live
  <2>6. inst' = [inst EXCEPT ![i].attached = b] => inst'[i].attached = b /\ inst'[i].ready = inst[i].ready
    <3>1. inst' = [inst EXCEPT ![i].attached = b] => inst'[i] = [inst[i] EXCEPT !.attached = b]
      BY <1>1 DEF TypeOK, CloudTypeOK
    <3>2. QED
      BY <1>1, <3>1 DEF InstRecs
  <2>7. QED
    BY <1>3, <2>2, <2>3, <2>4, <2>5, <2>6 DEF Kin, Stopped
<1>4. QED
  BY <1>2, <1>3

LEMMA AttachEffect ==
    ASSUME TypeOK, IdInv, NEW m \in Makers, Attach(m)
    PROVE  /\ call[m].at = "attach" /\ Others(m) /\ UNCHANGED <<cloud, lost>>
           /\ \/ /\ Ends(m, "error") /\ (inst' = inst \/ Taken(call[m].id))
                 /\ VolumeKept(Live \ {call[m].id})
              \/ /\ call[m].id \in Up /\ Goes(m, "restore") /\ vol' = vol /\ vol # NoVol
                 /\ Live' = Live /\ Up' = Up /\ Stopped' = Stopped
                 /\ Kin(call[m].id) /\ inst'[call[m].id].attached /\ inst'[call[m].id].ready = inst[call[m].id].ready
                 /\ \A j \in Insts \ {call[m].id} : inst'[j] = inst[j]
<1>1. call[m].at = "attach" /\ UNCHANGED <<cloud, lost>>
  BY DEF Attach
<1>2. CASE GiveUp(m) /\ vol' \in Cleaned(m, Live \ {call[m].id})
  BY <1>1, <1>2, GiveUpEffect DEF InFlight, Cleaned, VolumeKept
<1>3. CASE call[m].id \in Up /\ vol # NoVol /\ inst' = [inst EXCEPT ![call[m].id].attached = TRUE] /\ Goto(m, "restore") /\ UNCHANGED vol
  <2>1. call[m].id \in Live
    BY <1>3 DEF Up
  <2>2. Goes(m, "restore") /\ Others(m)
    BY <1>3, GotoEffect
  <2>3. QED
    BY <1>1, <1>3, <2>1, <2>2, SetsEffect
<1>4. QED
  BY Zenon, <1>2, <1>3 DEF Attach

LEMMA RestoreEffect ==
    ASSUME TypeOK, IdInv, NEW m \in Makers, Restore(m)
    PROVE  /\ call[m].at = "restore" /\ Others(m) /\ UNCHANGED <<cloud, lost>>
           /\ \/ Goes(m, "tags") /\ inst' = inst /\ vol' = vol /\ left' = left
              \/ /\ Ends(m, "error") /\ (inst' = inst \/ Taken(call[m].id)) /\ VolumeKept(Live')
                 /\ left' = left \cup (Live' \cap {call[m].id})
<1>1. call[m].at = "restore" /\ UNCHANGED <<cloud, lost>>
  BY DEF Restore
<1>2. CASE GiveUp(m) /\ vol' \in Cleaned(m, Live') /\ left' = left \cup (Live' \cap {call[m].id})
  BY <1>1, <1>2, GiveUpEffect DEF InFlight, Cleaned, VolumeKept
<1>3. CASE Goto(m, "tags") /\ UNCHANGED <<inst, vol, left>>
  BY <1>1, <1>3, GotoEffect
<1>4. QED
  BY Zenon, <1>2, <1>3 DEF Restore

LEMMA TagEffect ==
    ASSUME TypeOK, NEW m \in Makers, Tag(m)
    PROVE  /\ call[m].at = "tags" /\ Others(m) /\ UNCHANGED <<cloud, inst>> /\ Goes(m, "configure")
           /\ \/ vol # NoVol /\ vol' # NoVol /\ vol'.size = Resolved(call[m].size) /\ vol'.spot = call[m].spot /\ lost' = lost
              \/ vol' = vol /\ lost' = lost \cup {"tags"}
<1>1. call[m].at = "tags" /\ UNCHANGED <<cloud, inst>> /\ Goto(m, "configure")
  BY DEF Tag
<1>2. Goes(m, "configure") /\ Others(m)
  BY <1>1, GotoEffect
<1>3. CASE vol # NoVol /\ vol' = [vol EXCEPT !.size = Resolved(call[m].size), !.spot = call[m].spot] /\ UNCHANGED lost
  <2>1. call[m].size \in Sizes \cup {0} /\ call[m].spot \in BOOLEAN
    BY CallTypes DEF CallRecs
  <2>2. vol' \in VolRecs /\ vol'.size = Resolved(call[m].size) /\ vol'.spot = call[m].spot
    BY <1>3, <2>1, DefaultIsASize DEF VolRecs, TypeOK, CloudTypeOK
  <2>3. QED
    BY <1>1, <1>2, <1>3, <2>2, CloudNoneAssumption
<1>4. CASE lost' = lost \cup {"tags"} /\ UNCHANGED vol
  BY <1>1, <1>2, <1>4
<1>5. QED
  BY Zenon, <1>3, <1>4 DEF Tag

LEMMA ConfigureEffect ==
    ASSUME TypeOK, IdInv, NEW m \in Makers, Configure(m)
    PROVE  /\ call[m].at = "configure" /\ Others(m) /\ UNCHANGED <<cloud, vol, lost>>
           /\ \/ Ends(m, "error") /\ (inst' = inst \/ Taken(call[m].id))
              \/ Goes(m, "upload") /\ inst' = inst
  BY GotoEffect, GiveUpEffect DEF Configure, InFlight

LEMMA UploadEffect ==
    ASSUME TypeOK, NEW m \in Makers, Upload(m)
    PROVE  /\ call[m].at = "upload" /\ Others(m) /\ UNCHANGED <<cloud, vol, lost>>
           /\ \/ Ends(m, "error") /\ inst' = inst
              \/ /\ call[m].id \in Up /\ Ends(m, "ok")
                 /\ Live' = Live /\ Up' = Up /\ Stopped' = Stopped
                 /\ Kin(call[m].id) /\ inst'[call[m].id].ready /\ inst'[call[m].id].attached = inst[call[m].id].attached
                 /\ \A j \in Insts \ {call[m].id} : inst'[j] = inst[j]
<1>1. call[m].at = "upload" /\ UNCHANGED <<cloud, vol, lost>>
  BY DEF Upload
<1>2. CASE Return(m, "error", call[m].id) /\ UNCHANGED inst
  BY <1>1, <1>2, ReturnEffect
<1>3. CASE call[m].id \in Up /\ inst' = [inst EXCEPT ![call[m].id].ready = TRUE] /\ Return(m, "ok", 0)
  <2>1. call[m].id \in Live
    BY <1>3 DEF Up
  <2>2. Ends(m, "ok") /\ Others(m)
    BY <1>3, ReturnEffect
  <2>3. QED
    BY <1>1, <1>3, <2>1, <2>2, SetsEffect
<1>4. QED
  BY Zenon, <1>2, <1>3 DEF Upload

-----------------------------------------------------------------------------
(*                 What tasks, users and the cloud do                      *)

LEMMA BeginCreateEffect ==
    ASSUME TypeOK, NEW m \in Makers, NEW size \in Sizes \cup {0}, NEW spot \in BOOLEAN, BeginCreate(m, size, spot)
    PROVE  /\ Idle(m) /\ Others(m) /\ UNCHANGED <<cloud, inst, vol, left, lost>>
           /\ \/ Live = {} /\ vol = NoVol /\ call'[m].at = "volume"
              \/ Ends(m, "error")
<1>1. Idle(m) /\ UNCHANGED <<cloud, inst, vol, left, lost>> /\ call \in [Makers -> CallRecs]
      /\ Enter(m, IF Live = {} /\ vol = NoVol THEN "volume" ELSE "error", size, spot)
  BY DEF BeginCreate, TypeOK, CloudTypeOK
<1>2. CASE Live = {} /\ vol = NoVol
  BY <1>1, <1>2 DEF Enter, Others, NotCalling
<1>3. CASE ~(Live = {} /\ vol = NoVol)
  BY <1>1, <1>3 DEF Enter, Others, NotCalling, Ends
<1>4. QED
  BY <1>2, <1>3

LEMMA BeginStartEffect ==
    ASSUME TypeOK, NEW m \in Makers, NEW size \in Sizes \cup {0}, NEW demand \in BOOLEAN, BeginStart(m, size, demand)
    PROVE  /\ Idle(m) /\ Others(m) /\ UNCHANGED <<cloud, inst, vol, left, lost>>
           /\ \/ Stopped # {} /\ Ends(m, "boot")
              \/ Ends(m, "error")
              \/ /\ Live = {} /\ vol # NoVol /\ call'[m].at = "volume" /\ (size # 0 => call'[m].size = size)
                 /\ call'[m].spot => vol.spot /\ ~demand
<1>1. Idle(m) /\ UNCHANGED <<cloud, inst, vol, left, lost>> /\ call \in [Makers -> CallRecs]
      /\ Enter(m, IF Stopped # {} THEN "boot"
                  ELSE IF Up # {} \/ vol = NoVol THEN "error"
                  ELSE IF size = 0 /\ vol.size = 0 THEN "error" ELSE "volume",
               IF size # 0 \/ vol = NoVol THEN size ELSE vol.size,
               vol # NoVol /\ vol.spot /\ ~demand)
  BY DEF BeginStart, TypeOK, CloudTypeOK
<1>2. CASE Stopped # {}
  BY <1>1, <1>2 DEF Enter, Others, NotCalling, Ends
<1>3. CASE Stopped = {} /\ (Up # {} \/ vol = NoVol \/ (size = 0 /\ vol.size = 0))
  BY <1>1, <1>3 DEF Enter, Others, NotCalling, Ends
<1>4. CASE Stopped = {} /\ Up = {} /\ vol # NoVol /\ ~(size = 0 /\ vol.size = 0)
  <2>1. Live = {}
    BY <1>4 DEF Stopped
  <2>2. call'[m] = [NotCalling EXCEPT !.at = "volume", !.size = IF size # 0 THEN size ELSE vol.size,
                                      !.spot = vol.spot /\ ~demand] /\ Others(m)
    BY <1>1, <1>4 DEF Enter, Others, NotCalling
  <2>3. QED
    BY <1>1, <1>4, <2>1, <2>2 DEF NotCalling
<1>5. QED
  BY <1>2, <1>3, <1>4

\* What a task's step leaves of the others, and of itself.
OtherTasks(t) == \A u \in Tasks \ {t} : task'[u] = task[u]
Steps(t, at, err) ==
  /\ OtherTasks(t) /\ task'[t] # NoTask
  /\ task'[t].at = at /\ task'[t].kind = task[t].kind /\ task'[t].size = task[t].size
  /\ task'[t].note = task[t].note /\ (task'[t].err <=> task[t].err \/ err)

LEMMA AdvanceEffect ==
    ASSUME TypeOK, NEW t \in Tasks, lock = t, NEW err \in BOOLEAN,
           NEW at \in {"queued", "disk", "fs", "destroy", "start", "create", "end", "over"}, Advance(t, at, err)
    PROVE  Steps(t, at, err)
<1>1. task[t] # NoTask /\ task[t] \in TaskRecs /\ task \in [Tasks -> TaskRecs \cup {NoTask}]
  BY TasksAssumption DEF TypeOK
<1>2. task' = [task EXCEPT ![t] = [task[t] EXCEPT !.at = at, !.err = task[t].err \/ err]]
  BY <1>1 DEF Advance, TaskRecs
<1>3. task'[t] = [task[t] EXCEPT !.at = at, !.err = task[t].err \/ err] /\ OtherTasks(t)
  BY <1>1, <1>2 DEF OtherTasks
<1>4. task'[t] \in TaskRecs
  BY <1>1, <1>3 DEF TaskRecs
<1>5. QED
  BY <1>1, <1>3, <1>4, TasksAssumption DEF Steps, TaskRecs

LEMMA LockEffect ==
    ASSUME TypeOK, LockInv, NEW t \in Tasks, Lock(t)
    PROVE  /\ task[t] # NoTask /\ task[t].at = "queued" /\ lock = 0 /\ lock' = t /\ UNCHANGED <<cloud, inst, vol, call, lost>>
           /\ OtherTasks(t) /\ task'[t] # NoTask /\ task'[t].kind = task[t].kind /\ task'[t].kind # "none"
           /\ task'[t].note # "error" /\ ~task'[t].err
           /\ \/ task'[t].at = "disk" /\ task[t].kind \in {"disk", "diskram"}
              \/ task'[t].at = "destroy" /\ task[t].kind # "disk"
<1>1. /\ task[t] # NoTask /\ task[t].at = "queued" /\ lock = 0 /\ lock' = t /\ UNCHANGED <<cloud, inst, vol, call, lost>>
      /\ task' = [task EXCEPT ![t].at = IF task[t].kind \in {"disk", "diskram"} THEN "disk" ELSE "destroy",
                              ![t].note = "start"]
  BY DEF Lock, cloudVars
<1>2. task[t] \in TaskRecs /\ task \in [Tasks -> TaskRecs \cup {NoTask}]
  BY <1>1 DEF TypeOK
<1>3. task[t].kind # "none" /\ ~task[t].err
  BY <1>1 DEF LockInv
<1>4. task'[t] = [task[t] EXCEPT !.at = IF task[t].kind \in {"disk", "diskram"} THEN "disk" ELSE "destroy",
                                 !.note = "start"] /\ OtherTasks(t)
  BY <1>1, <1>2 DEF OtherTasks
<1>5. task'[t] \in TaskRecs
  BY <1>2, <1>4 DEF TaskRecs
<1>6. /\ task'[t] # NoTask /\ task'[t].kind = task[t].kind /\ task'[t].note = "start" /\ task'[t].err = task[t].err
      /\ task'[t].at = IF task[t].kind \in {"disk", "diskram"} THEN "disk" ELSE "destroy"
  BY ZenonT(60), <1>2, <1>4, <1>5, TasksAssumption DEF TaskRecs
<1>7. QED
  BY <1>1, <1>3, <1>4, <1>6

\* The two steps on the disk leave the tags of the volume alone.
SameTags == vol' = vol \/ (vol # NoVol /\ vol' # NoVol /\ vol'.size = vol.size /\ vol'.spot = vol.spot)

LEMMA DiskEffect ==
    ASSUME TypeOK, LockInv, NEW t \in Tasks, Disk(t) \/ Filesystem(t)
    PROVE  /\ lock = t /\ lock' = t /\ task[t].at \in {"disk", "fs"} /\ UNCHANGED <<cloud, inst, call, lost>> /\ SameTags
           /\ \E at \in {"fs", "end", "destroy"}, err \in BOOLEAN :
                 /\ Steps(t, at, err)
                 /\ at = "fs" => task[t].at = "disk"
                 /\ at = "end" <=> at # "fs" /\ task[t].kind = "disk"
<1>1. lock = t /\ lock' = t /\ task[t].at \in {"disk", "fs"} /\ UNCHANGED <<cloud, inst, call, lost>>
  BY DEF Disk, Filesystem
<1>2. AfterDisk(t) \in {"end", "destroy"} /\ (AfterDisk(t) = "end" <=> task[t].kind = "disk")
  BY DEF AfterDisk
<1>3. SameTags
  <2>1. vol \in VolRecs \cup {NoVol}
    BY DEF TypeOK, CloudTypeOK
  <2>2. vol' \in VolRecs \cup {NoVol}
    BY <1>1, TaskTypes DEF Run, CloudTypeOK
  <2>3. task[t].disk \in Nat
    BY <1>1, TasksAssumption DEF TypeOK, TaskRecs
  <2>4. CASE vol # NoVol /\ vol' = [vol EXCEPT !.disk = task[t].disk]
    <3>1. vol' \in VolRecs /\ vol'.size = vol.size /\ vol'.spot = vol.spot
      BY <2>1, <2>3, <2>4 DEF VolRecs
    <3>2. QED
      BY <2>4, <3>1, CloudNoneAssumption DEF SameTags
  <2>5. CASE vol # NoVol /\ vol' = [vol EXCEPT !.fs = vol.disk]
    <3>1. vol' \in VolRecs /\ vol'.size = vol.size /\ vol'.spot = vol.spot
      BY <2>1, <2>5 DEF VolRecs
    <3>2. QED
      BY <2>5, <3>1, CloudNoneAssumption DEF SameTags
  <2>6. CASE vol' = vol
    BY <2>6 DEF SameTags
  <2>7. QED
    BY <2>4, <2>5, <2>6 DEF Disk, Filesystem, ResizeVolumes
<1>4. CASE Disk(t)
  <2>1. Advance(t, "fs", FALSE) \/ Advance(t, AfterDisk(t), TRUE)
    BY <1>4 DEF Disk
  <2>2. Steps(t, "fs", FALSE) \/ Steps(t, AfterDisk(t), TRUE)
    BY <1>1, <1>2, <2>1, AdvanceEffect
  <2>3. task[t].at = "disk"
    BY <1>4 DEF Disk
  <2>4. QED
    BY <1>1, <1>2, <1>3, <2>2, <2>3
<1>5. CASE Filesystem(t)
  <2>1. \E err \in BOOLEAN : Advance(t, AfterDisk(t), err)
    BY <1>5 DEF Filesystem
  <2>2. \E err \in BOOLEAN : Steps(t, AfterDisk(t), err)
    BY <1>1, <1>2, <2>1, AdvanceEffect
  <2>3. QED
    BY <1>1, <1>2, <1>3, <2>2
<1>6. QED
  BY <1>4, <1>5

\* All live instances are gone, and nothing else has changed.
AllGone == Live' = {} /\ Up' = {} /\ Stopped' = {} /\ \A i \in Insts : inst[i] # NoInst => inst'[i] # NoInst

LEMMA TerminatedEffect == ASSUME TypeOK, inst' = Terminated(Live) PROVE AllGone
<1>1. \A i \in Insts : inst'[i] = IF i \in Live THEN Gone ELSE inst[i]
  BY DEF Terminated
<1>2. Live' = {}
  BY <1>1, CloudNoneAssumption DEF Live
<1>3. QED
  BY <1>1, <1>2, CloudNoneAssumption DEF AllGone, Up, Stopped

LEMMA DestroyOldEffect ==
    ASSUME TypeOK, NEW t \in Tasks, DestroyOld(t)
    PROVE  /\ lock = t /\ lock' = t /\ task[t].at = "destroy" /\ UNCHANGED <<cloud, vol, call, lost>>
           /\ \/ AllGone /\ Steps(t, "start", FALSE)
              \/ (inst' = inst \/ AllGone) /\ Steps(t, "end", TRUE)
  BY AdvanceEffect, TerminatedEffect DEF DestroyOld

LEMMA StartNewEffect ==
    ASSUME TypeOK, NEW t \in Tasks, StartNew(t)
    PROVE  /\ lock = t /\ lock' = t /\ task[t].at = "start" /\ Steps(t, "create", FALSE)
           /\ Idle("monitor") /\ Others("monitor") /\ UNCHANGED <<cloud, inst, vol, left, lost>>
           /\ \/ Stopped # {} /\ Ends("monitor", "boot")
              \/ Ends("monitor", "error")
              \/ /\ Live = {} /\ vol # NoVol /\ call'["monitor"].at = "volume"
                 /\ task[t].size # 0 => call'["monitor"].size = task[t].size
                 /\ call'["monitor"].spot => vol.spot /\ task[t].kind # "capacity"
<1>1. lock = t /\ lock' = t /\ task[t].at = "start" /\ Steps(t, "create", FALSE)
  BY AdvanceEffect DEF StartNew
<1>2. task[t].size \in Sizes \cup {0} /\ (task[t].kind = "capacity") \in BOOLEAN /\ "monitor" \in Makers
  BY <1>1, TasksAssumption, MonitorAssumption DEF TypeOK, TaskRecs
<1>3. BeginStart("monitor", task[t].size, task[t].kind = "capacity")
  BY DEF StartNew
<1>4. QED
  BY <1>1, <1>2, <1>3, BeginStartEffect

LEMMA StartedEffect ==
    ASSUME TypeOK, NEW t \in Tasks, Started(t)
    PROVE  /\ lock = t /\ lock' = t /\ task[t].at = "create" /\ Idle("monitor")
           /\ Steps(t, "end", call["monitor"].at = "error") /\ UNCHANGED <<cloud, inst, vol, call, lost>>
<1>1. (call["monitor"].at = "error") \in BOOLEAN
  OBVIOUS
<1>2. QED
  BY <1>1, AdvanceEffect DEF Started, cloudVars

LEMMA ReportEffect ==
    ASSUME TypeOK, NEW t \in Tasks, Report(t)
    PROVE  /\ lock = t /\ lock' = 0 /\ task[t].at = "end" /\ UNCHANGED <<cloud, inst, vol, call, lost>>
           /\ OtherTasks(t) /\ task'[t] # NoTask /\ task'[t].at = "over" /\ task'[t].kind = "none"
           /\ task'[t].err = task[t].err /\ (task[t].err => task'[t].note = "error")
           /\ moved' = (moved \/ (task[t].kind = "capacity" /\ ~task[t].err))
<1>1. task[t] # NoTask /\ task[t] \in TaskRecs /\ task \in [Tasks -> TaskRecs \cup {NoTask}]
  BY TasksAssumption DEF TypeOK, Report
<1>2. task' = [task EXCEPT ![t] = Over(task[t].err)]
  BY DEF Report
<1>3. task'[t] = Over(task[t].err) /\ OtherTasks(t)
  BY <1>1, <1>2 DEF OtherTasks
<1>4. Over(task[t].err) \in TaskRecs
  BY <1>1, InstsAssumption DEF Over, TaskRecs
<1>5. QED
  BY <1>1, <1>3, <1>4, TasksAssumption DEF Report, Over, cloudVars

LEMMA HaltEffect ==
    ASSUME TypeOK, Halts
    PROVE  /\ UNCHANGED <<cloud, vol, call, task, lock, moved>> /\ lost' = lost \cup {"instance"}
           /\ \A i \in Live' : Kin(i) /\ inst'[i].attached = inst[i].attached
           /\ \A i \in Insts : inst[i] # NoInst => inst'[i] # NoInst
<1>1. PICK i \in Up : \/ inst' = [inst EXCEPT ![i].st = "stopped", ![i].ready = FALSE, ![i].notice = FALSE]
                      \/ inst' = [inst EXCEPT ![i] = Gone]
  BY DEF Halts, Halt
<1>2. i \in Live /\ i \in Insts /\ inst[i] \in InstRecs /\ inst \in [Insts -> InstRecs \cup {NoInst, Gone}]
  BY LiveFacts DEF Up, TypeOK, CloudTypeOK
<1>3. inst'[i] = Gone \/ inst'[i] = [inst[i] EXCEPT !.st = "stopped", !.ready = FALSE, !.notice = FALSE]
  BY <1>1, <1>2
<1>4. \A j \in Insts \ {i} : inst'[j] = inst[j]
  BY <1>1, <1>2
<1>5. inst'[i] # Gone => /\ inst'[i] \in InstRecs /\ inst'[i].size = inst[i].size /\ inst'[i].spot = inst[i].spot
                         /\ inst'[i].by = inst[i].by /\ inst'[i].attached = inst[i].attached
  BY <1>2, <1>3 DEF InstRecs
<1>6. QED
  BY SMTT(60), <1>2, <1>4, <1>5, CloudNoneAssumption DEF Halts, Halt, Live, Kin

LEMMA NoticeEffect ==
    ASSUME TypeOK, Notices
    PROVE  /\ UNCHANGED <<cloud, vol, call, lost, task, lock, others, raced, moved>>
           /\ Live' = Live /\ Up' = Up /\ Stopped' = Stopped
           /\ \A i \in Live : Kin(i) /\ inst'[i].attached = inst[i].attached /\ inst'[i].ready = inst[i].ready
           /\ \A i \in Insts : inst[i] # NoInst => inst'[i] # NoInst
<1>1. PICK i \in Up : inst' = [inst EXCEPT ![i].notice = TRUE]
  BY DEF Notices, Notice
<1>2. i \in Live /\ i \in Insts /\ inst[i] \in InstRecs /\ inst \in [Insts -> InstRecs \cup {NoInst, Gone}]
  BY LiveFacts DEF Up, TypeOK, CloudTypeOK
<1>3. inst'[i] = [inst[i] EXCEPT !.notice = TRUE] /\ \A j \in Insts \ {i} : inst'[j] = inst[j]
  BY <1>1, <1>2
<1>4. /\ inst'[i] \in InstRecs /\ inst'[i].size = inst[i].size /\ inst'[i].spot = inst[i].spot /\ inst'[i].st = inst[i].st
      /\ inst'[i].by = inst[i].by /\ inst'[i].attached = inst[i].attached /\ inst'[i].ready = inst[i].ready
  BY <1>2, <1>3 DEF InstRecs
<1>5. Live' = Live /\ Live \subseteq Insts
  BY <1>2, <1>3, <1>4, CloudNoneAssumption DEF Live
<1>6. Up' = Up
  BY <1>3, <1>4, <1>5 DEF Up
<1>7. Stopped' = Stopped
  BY <1>5, <1>6 DEF Stopped
<1>8. QED
  BY <1>2, <1>3, <1>4, <1>5, <1>6, <1>7, CloudNoneAssumption DEF Notices, Notice, Kin

LEMMA EventEffect ==
    ASSUME TypeOK, Event
    PROVE  /\ UNCHANGED <<cloud, inst, vol, call, lost, lock, others, raced, moved>>
           /\ \E t \in Tasks, i \in Up :
                 /\ task[t] = NoTask /\ lock # t /\ OtherTasks(t) /\ inst[i].ready
                 /\ task'[t] # NoTask /\ task'[t].at = "queued" /\ task'[t].kind # "none"
                 /\ ~task'[t].err /\ task'[t].note = "none"
<1>1. UNCHANGED <<cloud, inst, vol, call, lost, lock, others, raced, moved>>
  BY DEF Event, cloudVars
<1>2. PICK t \in Tasks, kind \in {"capacity", "ram", "disk", "diskram"}, size \in Sizes \cup {0}, disk \in Nat, i \in Up :
              /\ task[t] = NoTask /\ inst[i].ready
              /\ task' = [task EXCEPT ![t] = [kind |-> kind, size |-> size, disk |-> disk, from |-> i,
                                              at |-> "queued", err |-> FALSE, note |-> "none"]]
  BY EventTypes
<1>3. task'[t] = [kind |-> kind, size |-> size, disk |-> disk, from |-> i, at |-> "queued", err |-> FALSE, note |-> "none"]
      /\ OtherTasks(t)
  BY <1>2 DEF TypeOK, OtherTasks
<1>4. i \in Insts
  BY <1>2, LiveFacts DEF Up, Live
<1>5. task'[t] \in TaskRecs
  BY <1>3, <1>4 DEF TaskRecs
<1>6. lock # t
  BY <1>2, TasksAssumption DEF TypeOK
<1>7. /\ task'[t] # NoTask /\ task'[t].at = "queued" /\ task'[t].kind # "none"
      /\ ~task'[t].err /\ task'[t].note = "none"
  <2>1. task'[t].at = "queued" /\ task'[t].kind = kind /\ task'[t].err = FALSE /\ task'[t].note = "none"
    BY <1>3
  <2>2. task'[t] # NoTask /\ kind # "none"
    BY <1>5, TasksAssumption
  <2>3. QED
    BY <2>1, <2>2
<1>8. QED
  BY Zenon, <1>1, <1>2, <1>3, <1>6, <1>7

\* What everybody but the tasks leaves alone.
LEMMA OthersLeaveTasks ==
    ASSUME Making("monitor") \/ Making("user") \/ UserMakes \/ UserDestroys \/ Halts \/ Notices \/ UNCHANGED vars
    PROVE  task' = task /\ lock' = lock
  BY DEF Making, UserMakes, UserDestroys, Halts, Notices, vars

-----------------------------------------------------------------------------
(*                       execLock, and who is in a call                    *)

LEMMA LockNext == TypeOK /\ TypeOK' /\ LockInv /\ [Next]_vars => LockInv'
<1> SUFFICES ASSUME TypeOK, TypeOK', LockInv, [Next]_vars PROVE LockInv'
  OBVIOUS
<1> USE DEF LockInv
<1>1. lock \in Tasks \cup {0} /\ 0 \notin Tasks
  BY TasksAssumption DEF TypeOK
<1>2. CASE Event
  BY <1>1, <1>2, EventEffect DEF OtherTasks
<1>3. ASSUME NEW t \in Tasks, Run(t) PROVE LockInv'
  <2>1. CASE Lock(t)
    BY <1>1, <2>1, LockEffect DEF OtherTasks
  <2>2. CASE Disk(t) \/ Filesystem(t)
    BY <1>1, <2>2, DiskEffect DEF OtherTasks, Steps
  <2>3. CASE DestroyOld(t)
    BY <1>1, <2>3, DestroyOldEffect DEF OtherTasks, Steps
  <2>4. CASE StartNew(t)
    BY <1>1, <2>4, StartNewEffect DEF OtherTasks, Steps
  <2>5. CASE Started(t)
    BY <1>1, <2>5, StartedEffect DEF OtherTasks, Steps
  <2>6. CASE Report(t)
    BY <1>1, <2>6, ReportEffect DEF OtherTasks
  <2>7. QED
    BY <1>3, <2>1, <2>2, <2>3, <2>4, <2>5, <2>6 DEF Run
<1>4. CASE Making("monitor") \/ Making("user") \/ UserMakes \/ UserDestroys \/ Halts \/ Notices \/ UNCHANGED vars
  BY <1>4, OthersLeaveTasks
<1>5. QED
  BY <1>2, <1>3, <1>4 DEF Next, Task

LEMMA NoteNext == TypeOK /\ LockInv /\ NoteInv /\ [Next]_vars => NoteInv'
<1> SUFFICES ASSUME TypeOK, LockInv, NoteInv, [Next]_vars, NEW u \in Tasks, task'[u] # NoTask, task'[u].note = "error"
             PROVE  task'[u].at = "over"
  BY DEF NoteInv
<1>1. task'[u] = task[u] => task'[u].at = "over"
  BY DEF NoteInv
<1>2. CASE Event
  BY <1>1, <1>2, EventEffect DEF OtherTasks
<1>3. ASSUME NEW t \in Tasks, NEW at, NEW err, lock = t, Steps(t, at, err) PROVE task'[u].at = "over"
  <2>1. task[t] # NoTask /\ task[t].note # "error"
    BY <1>3, TasksAssumption DEF TypeOK, LockInv, NoteInv
  <2>2. QED
    BY <1>1, <1>3, <2>1 DEF Steps, OtherTasks
<1>4. ASSUME NEW t \in Tasks, Run(t) PROVE task'[u].at = "over"
  <2>1. CASE Lock(t)
    BY <1>1, <2>1, LockEffect DEF OtherTasks
  <2>2. CASE Disk(t) \/ Filesystem(t)
    BY <1>3, <2>2, DiskEffect
  <2>3. CASE DestroyOld(t) \/ StartNew(t) \/ Started(t)
    BY <1>3, <2>3, DestroyOldEffect, StartNewEffect, StartedEffect
  <2>4. CASE Report(t)
    BY <1>1, <2>4, ReportEffect DEF OtherTasks
  <2>5. QED
    BY <1>4, <2>1, <2>2, <2>3, <2>4 DEF Run
<1>5. CASE Making("monitor") \/ Making("user") \/ UserMakes \/ UserDestroys \/ Halts \/ Notices \/ UNCHANGED vars
  BY <1>1, <1>5, OthersLeaveTasks
<1>6. QED
  BY <1>2, <1>4, <1>5 DEF Next, Task

\* A step of the monitor's or the user's call.
LEMMA MakingEffect ==
    ASSUME TypeOK, IdInv, NEW m \in {"monitor", "user"}, Making(m)
    PROVE  /\ ~Idle(m) /\ Others(m) /\ task' = task /\ lock' = lock /\ moved' = moved /\ m \in Makers
           /\ call'[m].at # "idle"
           /\ call'[m].at \in InFlight \cup {"volume", "launch"} \/ Ends(m, "ok") \/ Ends(m, "error")
<1>1. m \in Makers /\ Make(m) /\ task' = task /\ lock' = lock /\ moved' = moved
  BY MonitorAssumption DEF Making, Kept
<1> USE <1>1 DEF Idle, Goes, Ends, InFlight
<1>2. CASE Boot(m)
  BY <1>2, BootEffect
<1>3. CASE Volume(m)
  BY <1>3, VolumeEffect
<1>4. CASE Launch(m)
  BY <1>4, LaunchEffect
<1>5. CASE Attach(m)
  BY <1>5, AttachEffect
<1>6. CASE Tag(m)
  BY <1>6, TagEffect
<1>7. CASE Configure(m)
  BY <1>7, ConfigureEffect
<1>8. CASE Upload(m)
  BY <1>8, UploadEffect
<1>9. CASE Restore(m)
  BY <1>9, RestoreEffect
<1>10. QED
  BY <1>1, <1>2, <1>3, <1>4, <1>5, <1>6, <1>7, <1>8, <1>9 DEF Make

LEMMA UserMakesEffect ==
    ASSUME TypeOK, UserMakes
    PROVE  /\ Idle("user") /\ Others("user") /\ UNCHANGED <<cloud, inst, vol, left, lost, task, lock>>
           /\ \/ Stopped # {} /\ Ends("user", "boot") /\ moved' = moved
              \/ Ends("user", "error") /\ (moved' => moved)
              \/ Live = {} /\ vol = NoVol /\ call'["user"].at = "volume" /\ moved' = FALSE
              \/ /\ Live = {} /\ vol # NoVol /\ call'["user"].at = "volume" /\ moved' = moved
                 /\ call'["user"].spot => vol.spot
<1>1. UNCHANGED <<task, lock>> /\ "user" \in Makers
  BY MonitorAssumption DEF UserMakes
<1>2. CASE BeginStart("user", 0, FALSE) /\ UNCHANGED moved
  BY <1>1, <1>2, BeginStartEffect
<1>3. ASSUME NEW size \in Sizes \cup (IF cloud = "aws" THEN {0} ELSE {}), NEW spot \in BOOLEAN,
             BeginCreate("user", size, spot), moved' = (moved /\ vol # NoVol)
      PROVE  /\ Idle("user") /\ Others("user") /\ UNCHANGED <<cloud, inst, vol, left, lost, task, lock>>
             /\ \/ Stopped # {} /\ Ends("user", "boot") /\ moved' = moved
                \/ Ends("user", "error") /\ (moved' => moved)
                \/ Live = {} /\ vol = NoVol /\ call'["user"].at = "volume" /\ moved' = FALSE
                \/ /\ Live = {} /\ vol # NoVol /\ call'["user"].at = "volume" /\ moved' = moved
                   /\ call'["user"].spot => vol.spot
  <2>1. size \in Sizes \cup {0}
    OBVIOUS
  <2>2. /\ Idle("user") /\ Others("user") /\ UNCHANGED <<cloud, inst, vol, left, lost>>
        /\ \/ Live = {} /\ vol = NoVol /\ call'["user"].at = "volume"
           \/ Ends("user", "error")
    BY <1>1, <1>3, <2>1, BeginCreateEffect
  <2>3. QED
    BY <1>1, <1>3, <2>2
<1>4. QED
  BY <1>2, <1>3 DEF UserMakes

LEMMA CallNext == TypeOK /\ TypeOK' /\ LockInv /\ LockInv' /\ IdInv /\ CallInv /\ [Next]_vars => CallInv'
<1> SUFFICES ASSUME TypeOK, TypeOK', LockInv, LockInv', IdInv, CallInv, [Next]_vars PROVE CallInv'
  OBVIOUS
<1>1. lock \in Tasks \cup {0} /\ 0 \notin Tasks /\ "monitor" \in Makers /\ "user" \in Makers /\ raced \in BOOLEAN /\ raced' \in BOOLEAN
  BY TasksAssumption, MonitorAssumption DEF TypeOK
<1>2. ASSUME Races PROVE ~raced' => ~raced /\ (Idle("user")' \/ ~Rotating')
  BY <1>1, <1>2 DEF Races
<1> USE DEF CallInv, Idle
<1>3. CASE Event
  <2>1. UNCHANGED <<call, lock, raced>> /\ (lock # 0 => task'[lock] = task[lock])
    BY <1>1, <1>3, EventEffect DEF OtherTasks
  <2>2. Rotating' <=> Rotating
    BY <2>1 DEF Rotating
  <2>3. QED
    BY <2>1, <2>2
<1>4. ASSUME NEW t \in Tasks, Run(t) PROVE CallInv'
  <2>1. Races
    BY <1>4 DEF Run, Lock, Disk, Filesystem, DestroyOld, StartNew, Started, Report
  <2>2. CASE Lock(t)
    BY <1>1, <1>2, <2>1, <2>2, LockEffect DEF OtherTasks
  <2>3. CASE Disk(t) \/ Filesystem(t)
    BY <1>1, <1>2, <2>1, <2>3, DiskEffect DEF OtherTasks, Steps
  <2>4. CASE DestroyOld(t)
    BY <1>1, <1>2, <2>1, <2>4, DestroyOldEffect DEF OtherTasks, Steps
  <2>5. CASE StartNew(t)
    BY <1>1, <1>2, <2>1, <2>5, StartNewEffect DEF OtherTasks, Steps, Others, Ends, InFlight
  <2>6. CASE Started(t)
    BY <1>1, <1>2, <2>1, <2>6, StartedEffect DEF OtherTasks, Steps
  <2>7. CASE Report(t)
    BY <1>1, <1>2, <2>1, <2>7, ReportEffect DEF OtherTasks
  <2>8. QED
    BY <1>4, <2>2, <2>3, <2>4, <2>5, <2>6, <2>7 DEF Run
<1>5. ASSUME NEW m \in {"monitor", "user"}, Making(m) PROVE CallInv'
  <2>1. Races
    BY <1>5 DEF Making
  <2>2. QED
    BY <1>1, <1>2, <1>5, <2>1, MakingEffect DEF Others, Ends, InFlight
<1>6. CASE UserMakes
  <2>1. Races
    BY <1>6 DEF UserMakes
  <2>2. QED
    BY <1>1, <1>2, <1>6, <2>1, UserMakesEffect DEF Others, Ends, InFlight
<1>7. CASE UserDestroys \/ Halts
  <2>1. Races /\ UNCHANGED <<call, task, lock>>
    BY <1>7 DEF UserDestroys, Destroy, Halts, Halt
  <2>2. QED
    BY <1>1, <1>2, <2>1
<1>8. CASE Notices \/ UNCHANGED vars
  <2>1. UNCHANGED <<call, task, lock, raced>>
    BY <1>8 DEF Notices, Notice, vars, cloudVars
  <2>2. QED
    BY <2>1 DEF Rotating
<1>9. QED
  BY <1>3, <1>4, <1>5, <1>6, <1>7, <1>8 DEF Next, Task

-----------------------------------------------------------------------------
(*                      What a call knows of its instance                  *)

\* Instance i, if it is live, was so before and has not changed but for a halt and a notice.
Stays(i) ==
  i \in Live' => /\ Kin(i) /\ inst'[i].attached = inst[i].attached
                 /\ "instance" \notin lost' => inst'[i].ready = inst[i].ready

\* A call touches only the instance it has launched, and makes one from a fresh id.
LEMMA MakingStays ==
    ASSUME TypeOK, IdInv, HaltInv, NEW m \in {"monitor", "user"}, Making(m)
    PROVE  /\ "instance" \in lost' <=> "instance" \in lost
           /\ \A i \in Insts : inst[i] # NoInst =>
                 /\ inst'[i] # NoInst /\ (i \in Live' => Kin(i))
                 /\ call[m].at \notin InFlight \/ i # call[m].id => Stays(i)
<1>1. m \in Makers /\ Make(m)
  BY MonitorAssumption DEF Making
<1> USE DEF Stays, Kin, InFlight
<1>2. CASE inst' = inst
  <2>1. lost' \in {lost, lost \cup {"tags"}}
    BY <1>1 DEF Make, Boot, Volume, Launch, Attach, Restore, Tag, Configure, Upload
  <2>2. QED
    BY SMTT(60), <1>2, <2>1 DEF Live
<1>3. CASE Boot(m)
  BY <1>1, <1>2, <1>3, BootEffect DEF HaltInv
<1>4. CASE Volume(m) \/ Tag(m)
  BY <1>1, <1>2, <1>4, VolumeEffect, TagEffect
<1>5. CASE Launch(m) /\ inst' # inst
  <2>1. PICK i \in Insts : /\ inst[i] = NoInst /\ Live' = Live \cup {i}
                           /\ \A j \in Insts \ {i} : inst'[j] = inst[j]
    BY <1>1, <1>5, LaunchEffect
  <2>2. lost' = lost
    BY <1>1, <1>5, LaunchEffect
  <2>3. QED
    BY <2>1, <2>2
<1>6. ASSUME Taken(call[m].id), lost' = lost
      PROVE  /\ "instance" \in lost' <=> "instance" \in lost
             /\ \A i \in Insts : inst[i] # NoInst =>
                   /\ inst'[i] # NoInst /\ (i \in Live' => Kin(i))
                   /\ call[m].at \notin InFlight \/ i # call[m].id => Stays(i)
  <2>1. \A i \in Insts : inst[i] # NoInst => inst'[i] # NoInst
    BY <1>6, CloudNoneAssumption DEF Taken
  <2>2. QED
    BY <1>6, <2>1 DEF Taken, Live
<1>7. CASE Attach(m)
  <2>1. CASE inst' = inst
    BY <1>2, <2>1
  <2>2. CASE Taken(call[m].id)
    BY <1>1, <1>6, <1>7, <2>2, AttachEffect
  <2>3. CASE /\ call[m].id \in Up /\ Live' = Live
             /\ Kin(call[m].id) /\ \A j \in Insts \ {call[m].id} : inst'[j] = inst[j]
    <3>1. inst'[call[m].id] # NoInst /\ lost' = lost /\ call[m].at = "attach"
      BY <1>1, <1>7, <2>3, AttachEffect DEF Live
    <3>2. QED
      BY <2>3, <3>1
  <2>4. QED
    BY <1>1, <1>7, <2>1, <2>2, <2>3, AttachEffect
<1>8. CASE Configure(m)
  BY <1>1, <1>2, <1>6, <1>8, ConfigureEffect
<1>9. CASE Upload(m)
  <2>1. CASE inst' = inst
    BY <1>2, <2>1
  <2>2. CASE /\ call[m].id \in Up /\ Live' = Live
             /\ Kin(call[m].id) /\ \A j \in Insts \ {call[m].id} : inst'[j] = inst[j]
    <3>1. inst'[call[m].id] # NoInst /\ lost' = lost /\ call[m].at = "upload"
      BY <1>1, <1>9, <2>2, UploadEffect DEF Live
    <3>2. QED
      BY <2>2, <3>1
  <2>3. QED
    BY <1>1, <1>9, <2>1, <2>2, UploadEffect
<1>10. CASE Restore(m)
  BY <1>1, <1>2, <1>6, <1>10, RestoreEffect
<1>11. QED
  BY <1>1, <1>2, <1>3, <1>4, <1>5, <1>7, <1>8, <1>9, <1>10 DEF Make

\* No other step makes, attaches or restarts an instance.
Still == /\ "instance" \in lost => "instance" \in lost'
         /\ \A i \in Insts : inst[i] # NoInst => inst'[i] # NoInst
         /\ \A i \in Live' : i \in Insts /\ Stays(i)

LEMMA OthersStay ==
    ASSUME TypeOK, LockInv,
           Event \/ Task \/ UserMakes \/ UserDestroys \/ Halts \/ Notices \/ UNCHANGED vars
    PROVE  Still
<1> USE DEF Still, Stays, Kin
<1>1. CASE inst' = inst /\ lost' = lost
  BY <1>1 DEF Live
<1>2. CASE AllGone /\ ("instance" \in lost => "instance" \in lost')
  BY <1>2 DEF AllGone
<1>3. CASE Event
  BY <1>1, <1>3, EventEffect
<1>4. ASSUME NEW t \in Tasks, Run(t) PROVE Still
  <2>1. CASE Lock(t)
    BY <1>1, <2>1, LockEffect
  <2>2. CASE Disk(t) \/ Filesystem(t)
    BY <1>1, <2>2, DiskEffect
  <2>3. CASE DestroyOld(t)
    BY <1>1, <1>2, <2>3, DestroyOldEffect
  <2>4. CASE StartNew(t)
    BY <1>1, <2>4, StartNewEffect
  <2>5. CASE Started(t) \/ Report(t)
    BY <1>1, <2>5, StartedEffect, ReportEffect
  <2>6. QED
    BY <1>4, <2>1, <2>2, <2>3, <2>4, <2>5 DEF Run
<1>5. CASE UserMakes
  BY <1>1, <1>5, UserMakesEffect
<1>6. CASE UserDestroys
  BY <1>2, <1>6, TerminatedEffect DEF UserDestroys, Destroy
<1>7. CASE Halts
  BY <1>7, HaltEffect DEF Live
<1>8. CASE Notices
  BY <1>8, NoticeEffect DEF Live
<1>9. CASE UNCHANGED vars
  BY <1>1, <1>9 DEF vars, cloudVars
<1>10. QED
  BY <1>3, <1>4, <1>5, <1>6, <1>7, <1>8, <1>9 DEF Task

LEMMA IdNext == TypeOK /\ LockInv /\ CallInv /\ IdInv /\ HaltInv /\ [Next]_vars => IdInv'
<1> SUFFICES ASSUME TypeOK, LockInv, CallInv, IdInv, HaltInv, [Next]_vars, NEW n \in Makers, call'[n].at \in InFlight
             PROVE  /\ call'[n].id \in Insts /\ inst'[call'[n].id] # NoInst
                    /\ call'[n].id \in Live' =>
                         /\ inst'[call'[n].id].by = n /\ inst'[call'[n].id].size = Resolved(call'[n].size)
                         /\ inst'[call'[n].id].spot => call'[n].spot
                         /\ inst'[call'[n].id].attached <=> call'[n].at # "attach"
                         /\ "instance" \notin lost' => ~inst'[call'[n].id].ready
  BY DEF IdInv
<1>1. CASE Event \/ Task \/ UserMakes \/ UserDestroys \/ Halts \/ Notices \/ UNCHANGED vars
  <2>1. Still
    BY ZenonT(60), <1>1, OthersStay
  <2>2. call'[n] = call[n]
    <3>1. CASE UserMakes
      BY <3>1, UserMakesEffect DEF Others, Ends, InFlight
    <3>2. ASSUME NEW t \in Tasks, StartNew(t) PROVE call'[n] = call[n]
      BY <3>2, StartNewEffect DEF Others, Ends, InFlight
    <3>3. QED
      BY Zenon, <1>1, <3>1, <3>2 DEF Event, Task, Run, Lock, Disk, Filesystem, DestroyOld, Started, Report, UserDestroys, Destroy,
                              Halts, Halt, Notices, Notice, vars, cloudVars
  <2>3. QED
    BY <2>1, <2>2 DEF IdInv, Still, Stays, Kin
<1>2. ASSUME NEW m \in {"monitor", "user"}, Making(m), n # m
      PROVE  /\ call'[n].id \in Insts /\ inst'[call'[n].id] # NoInst
             /\ call'[n].id \in Live' =>
                  /\ inst'[call'[n].id].by = n /\ inst'[call'[n].id].size = Resolved(call'[n].size)
                  /\ inst'[call'[n].id].spot => call'[n].spot
                  /\ inst'[call'[n].id].attached <=> call'[n].at # "attach"
                  /\ "instance" \notin lost' => ~inst'[call'[n].id].ready
  <2>1. call'[n] = call[n] /\ m \in Makers
    BY <1>2, MakingEffect DEF Others
  <2>2. call[n].id \in Insts /\ inst[call[n].id] # NoInst /\ ("instance" \in lost' <=> "instance" \in lost)
    BY <1>2, <2>1, MakingStays DEF IdInv
  <2>3. inst'[call[n].id] # NoInst /\ (call[n].id \in Live' => Kin(call[n].id))
    BY <1>2, <2>2, MakingStays
  <2>4. call[n].id \in Live /\ call[m].at \in InFlight => call[n].id # call[m].id
    BY <1>2, <2>1 DEF IdInv
  <2>5. call[n].id \in Live' => Stays(call[n].id)
    BY <1>2, <2>2, <2>3, <2>4, MakingStays DEF Kin
  <2>6. QED
    BY ZenonT(60), <2>1, <2>2, <2>3, <2>5 DEF IdInv, Stays, Kin
<1>3. ASSUME NEW m \in {"monitor", "user"}, Making(m), n = m
      PROVE  /\ call'[n].id \in Insts /\ inst'[call'[n].id] # NoInst
             /\ call'[n].id \in Live' =>
                  /\ inst'[call'[n].id].by = n /\ inst'[call'[n].id].size = Resolved(call'[n].size)
                  /\ inst'[call'[n].id].spot => call'[n].spot
                  /\ inst'[call'[n].id].attached <=> call'[n].at # "attach"
                  /\ "instance" \notin lost' => ~inst'[call'[n].id].ready
  <2>1. Make(n)
    BY <1>3 DEF Making
  <2> USE DEF InFlight
  <2>2. CASE Boot(n)
    BY <2>2, BootEffect DEF Ends
  <2>3. CASE Volume(n)
    BY <2>3, VolumeEffect DEF Ends, Goes
  <2>4. CASE Launch(n)
    BY <2>4, LaunchEffect, CloudNoneAssumption DEF Ends, InstRecs
  <2>5. CASE Attach(n)
    <3>1. /\ call[n].id \in Up /\ Goes(n, "restore") /\ Live' = Live /\ call[n].at = "attach" /\ lost' = lost
          /\ Kin(call[n].id) /\ inst'[call[n].id].attached /\ inst'[call[n].id].ready = inst[call[n].id].ready
      BY <2>5, AttachEffect DEF Ends
    <3>2. call[n].id \in Insts /\ call[n].id \in Live /\ inst'[call[n].id] # NoInst
      BY <3>1 DEF Up, Live
    <3>3. QED
      BY <3>1, <3>2 DEF Goes, IdInv, Kin
  <2>6. CASE Tag(n)
    BY <2>6, TagEffect DEF Goes, IdInv, Live
  <2>7. CASE Configure(n)
    BY <2>7, ConfigureEffect DEF Ends, Goes, IdInv, Live
  <2>8. CASE Upload(n)
    BY <2>8, UploadEffect DEF Ends
  <2>9. CASE Restore(n)
    <3>1. /\ Goes(n, "tags") /\ inst' = inst /\ Live' = Live /\ lost' = lost
          /\ call[n].at = "restore" /\ "restore" \in InFlight
      BY <2>9, RestoreEffect DEF Ends, InFlight, Live
    <3>2. QED
      BY <3>1 DEF Goes, IdInv
  <2>10. QED
    BY <2>1, <2>2, <2>3, <2>4, <2>5, <2>6, <2>7, <2>8, <2>9 DEF Make
<1>4. QED
  BY <1>1, <1>2, <1>3 DEF Next

\* Only a halt stops an instance.
LEMMA HaltNext == TypeOK /\ LockInv /\ IdInv /\ HaltInv /\ [Next]_vars => HaltInv'
<1> SUFFICES ASSUME TypeOK, LockInv, IdInv, HaltInv, [Next]_vars, "instance" \notin lost' PROVE Stopped' = {}
  BY DEF HaltInv
<1>1. CASE Stopped' \subseteq Stopped /\ ("instance" \in lost => "instance" \in lost')
  BY <1>1 DEF HaltInv
<1>2. ASSUME inst' = inst PROVE Stopped' = Stopped
  BY <1>2 DEF Stopped, Live, Up
<1>3. CASE Event \/ Task \/ UserMakes
  <2>1. lost' = lost
    BY <1>3 DEF Event, Task, Run, Lock, Disk, Filesystem, DestroyOld, StartNew, BeginStart, Started, Report, UserMakes,
                BeginCreate, cloudVars
  <2>2. inst' = inst \/ inst' = Terminated(Live)
    BY <1>3 DEF Event, Task, Run, Lock, Disk, Filesystem, DestroyOld, StartNew, BeginStart, Started, Report, UserMakes,
                BeginCreate, cloudVars
  <2>3. QED
    BY <1>1, <1>2, <2>1, <2>2, TerminatedEffect DEF AllGone
<1>4. CASE UserDestroys \/ Halts
  BY <1>4 DEF UserDestroys, Destroy, Halts, Halt
<1>5. CASE Notices
  BY <1>1, <1>5, NoticeEffect
<1>6. CASE UNCHANGED vars
  BY <1>1, <1>2, <1>6 DEF vars, cloudVars
<1>7. ASSUME NEW m \in {"monitor", "user"}, Making(m) PROVE Stopped' = {}
  <2>1. m \in Makers /\ Make(m) /\ ("instance" \in lost' <=> "instance" \in lost)
    BY <1>7, MonitorAssumption, MakingStays DEF Making
  <2>2. ASSUME Taken(call[m].id), call[m].id \in Insts PROVE Stopped' \subseteq Stopped
    BY <2>2 DEF Taken, Stopped, Up, Live
  <2>3. CASE Boot(m)
    BY <1>1, <2>1, <2>3, BootEffect
  <2>4. CASE Volume(m) \/ Tag(m)
    BY <1>1, <1>2, <2>1, <2>4, VolumeEffect, TagEffect
  <2>5. CASE Launch(m)
    BY <1>1, <1>2, <2>1, <2>5, LaunchEffect
  <2>6. CASE Attach(m) \/ Restore(m) \/ Configure(m) \/ Upload(m)
    <3>1. call[m].id \in Insts
      BY <2>1, <2>6 DEF IdInv, InFlight, Attach, Restore, Configure, Upload
    <3>2. inst' = inst \/ Taken(call[m].id) \/ Stopped' = Stopped
      BY <2>1, <2>6, AttachEffect, RestoreEffect, ConfigureEffect, UploadEffect
    <3>3. QED
      BY <1>1, <1>2, <2>1, <2>2, <3>1, <3>2
  <2>7. QED
    BY <2>1, <2>3, <2>4, <2>5, <2>6 DEF Make
<1>8. QED
  BY <1>3, <1>4, <1>5, <1>6, <1>7 DEF Next

-----------------------------------------------------------------------------
(*                              One instance                               *)

\* Where a step of a call leads, and that only a launch changes its instance.
LEMMA MakeMoves ==
    ASSUME TypeOK, IdInv, NEW m \in Makers, Make(m)
    PROVE  /\ call'[m].at # "boot"
           /\ call'[m].at \in {"volume", "launch"} => call[m].at \in {"volume", "launch"}
           /\ call'[m].at \in InFlight => Launch(m) \/ (call[m].at \in InFlight /\ call'[m].id = call[m].id)
           /\ call'[m].spot => call[m].spot
<1> USE DEF Ends, Goes, InFlight
<1>1. CASE Boot(m)
  BY <1>1, BootEffect
<1>2. CASE Volume(m)
  BY <1>2, VolumeEffect
<1>3. CASE Launch(m)
  BY <1>3, LaunchEffect
<1>4. CASE Attach(m)
  BY <1>4, AttachEffect
<1>5. CASE Tag(m)
  BY <1>5, TagEffect
<1>6. CASE Configure(m)
  BY <1>6, ConfigureEffect
<1>7. CASE Upload(m)
  BY <1>7, UploadEffect
<1>8. CASE Restore(m)
  BY <1>8, RestoreEffect
<1>9. QED
  BY <1>1, <1>2, <1>3, <1>4, <1>5, <1>6, <1>7, <1>8 DEF Make

\* Only a launch makes an instance live.
LEMMA KinUnlessLaunch ==
    ASSUME TypeOK, IdInv, HaltInv, NEW m \in {"monitor", "user"}, Making(m), ~(Launch(m) /\ inst' # inst)
    PROVE  \A i \in Live' : Kin(i)
<1>1. m \in Makers /\ Make(m)
  BY MonitorAssumption DEF Making
<1>2. ASSUME NEW i \in Live' PROVE i \in Insts /\ inst[i] # NoInst
  <2>1. CASE Boot(m)
    BY <1>1, <2>1, BootEffect DEF Live
  <2>2. CASE inst' = inst
    BY <2>2 DEF Live
  <2>3. CASE Taken(call[m].id) \/ Live' = Live
    BY <2>3 DEF Taken, Live
  <2>4. QED
    BY <1>1, <2>1, <2>2, <2>3, VolumeEffect, AttachEffect, RestoreEffect, TagEffect,
       ConfigureEffect, UploadEffect DEF Make
<1>3. QED
  BY <1>2, MakingStays

\* With no launch, nobody gets a second one.
LEMMA OwnStays ==
    ASSUME OwnInv, \A i \in Live' : Kin(i),
           \A m \in Makers : call'[m].at \in {"volume", "launch"} =>
               call[m].at \in {"volume", "launch"} \/ Live = {} \/ \A i \in Live : inst[i].by # m
    PROVE  OwnInv'
  BY DEF OwnInv, Kin

LEMMA OwnNext == TypeOK /\ LockInv /\ CallInv /\ IdInv /\ HaltInv /\ OwnInv /\ [Next]_vars => OwnInv'
<1> SUFFICES ASSUME TypeOK, LockInv, CallInv, IdInv, HaltInv, OwnInv, [Next]_vars PROVE OwnInv'
  OBVIOUS
<1>1. CASE Event \/ Task \/ UserMakes \/ UserDestroys \/ Halts \/ Notices \/ UNCHANGED vars
  <2>1. \A i \in Live' : Kin(i)
    BY ZenonT(60), <1>1, OthersStay DEF Still, Stays
  <2>2. ASSUME NEW m \in Makers, call'[m].at \in {"volume", "launch"}, call[m].at \notin {"volume", "launch"}
        PROVE  Live = {}
    <3>1. CASE UserMakes
      BY <2>2, <3>1, UserMakesEffect DEF Others, Ends
    <3>2. ASSUME NEW t \in Tasks, StartNew(t) PROVE Live = {}
      BY <2>2, <3>2, StartNewEffect DEF Others, Ends
    <3>3. QED
      BY Zenon, <1>1, <2>2, <3>1, <3>2 DEF Event, Task, Run, Lock, Disk, Filesystem, DestroyOld, Started, Report, UserDestroys, Destroy,
                              Halts, Halt, Notices, Notice, vars, cloudVars
  <2>3. QED
    BY <2>1, <2>2, OwnStays
<1>2. ASSUME NEW m \in {"monitor", "user"}, Making(m) PROVE OwnInv'
  <2>1. m \in Makers /\ Make(m) /\ Others(m)
    BY <1>2, MonitorAssumption, MakingEffect DEF Making
  <2>2. CASE Launch(m) /\ inst' # inst
    <3>1. PICK i \in Insts : /\ inst[i] = NoInst /\ Live' = Live \cup {i} /\ \A j \in Insts \ {i} : inst'[j] = inst[j]
                             /\ inst'[i].by = m /\ call'[m].at \in {"attach", "error"}
      BY <2>1, <2>2, LaunchEffect DEF Ends
    <3>2. \A j \in Live : j \in Insts \ {i} /\ inst'[j] = inst[j] /\ inst[j].by # m
      BY <2>1, <2>2, <3>1 DEF Live, Launch, OwnInv
    <3>3. \A n \in Makers : call'[n].at \in {"volume", "launch"} => n # m /\ call[n].at \in {"volume", "launch"}
      BY <2>1, <3>1 DEF Others
    <3>4. QED
      BY <3>1, <3>2, <3>3 DEF OwnInv
  <2>3. CASE ~(Launch(m) /\ inst' # inst)
    <3>1. \A i \in Live' : Kin(i)
      BY <1>2, <2>3, KinUnlessLaunch
    <3>2. \A n \in Makers : call'[n].at \in {"volume", "launch"} => call[n].at \in {"volume", "launch"}
      BY <2>1, MakeMoves DEF Others
    <3>3. QED
      BY <3>1, <3>2, OwnStays
  <2>4. QED
    BY <2>2, <2>3
<1>3. QED
  BY <1>1, <1>2 DEF Next

\* A race is never forgotten.
LEMMA RacedStays == ASSUME TypeOK, TypeOK', [Next]_vars, ~raced' PROVE ~raced
<1>1. raced \in BOOLEAN /\ raced' \in BOOLEAN
  BY DEF TypeOK
<1>2. (raced' <=> raced) \/ Races
  BY DEF Next, Event, Task, Run, Lock, Disk, Filesystem, DestroyOld, StartNew, Started, Report, Making, UserMakes,
         UserDestroys, Halts, Notices, vars
<1>3. QED
  BY <1>1, <1>2 DEF Races

\* A call in flight is the only one, and while the user is in one no rotation goes on.
LEMMA AloneInCall ==
    ASSUME TypeOK, LockInv, CallInv, ~raced, NEW m \in {"monitor", "user"}, ~Idle(m)
    PROVE  /\ \A n \in Makers \ {m} : Idle(n)
           /\ lock # 0 => task[lock].at \notin {"destroy", "start"} /\ (task[lock].at = "create" => m = "monitor")
  BY DEF LockInv, CallInv, Rotating

LEMMA AloneNext ==
    TypeOK /\ TypeOK' /\ LockInv /\ CallInv /\ IdInv /\ HaltInv /\ AloneInv /\ [Next]_vars => AloneInv'
<1> SUFFICES ASSUME TypeOK, TypeOK', LockInv, CallInv, IdInv, HaltInv, AloneInv, [Next]_vars, ~raced'
             PROVE  /\ \A i, j \in Live' : i = j
                    /\ \A m \in Makers : call'[m].at \in {"volume", "launch"} => Live' = {}
                    /\ \A m \in Makers : call'[m].at \in InFlight => Live' \subseteq {call'[m].id}
                    /\ lock' # 0 /\ task'[lock'].at = "start" => Live' = {}
                    /\ lock' # 0 /\ task'[lock'].at = "create" => call'["monitor"].at # "boot"
  BY DEF AloneInv
<1>1. /\ ~raced /\ lock \in Tasks \cup {0} /\ 0 \notin Tasks
      /\ \A i, j \in Live : i = j
      /\ \A m \in Makers : call[m].at \in {"volume", "launch"} => Live = {}
      /\ \A m \in Makers : call[m].at \in InFlight => Live \subseteq {call[m].id}
      /\ lock # 0 /\ task[lock].at = "start" => Live = {}
      /\ lock # 0 /\ task[lock].at = "create" => call["monitor"].at # "boot"
      /\ Stopped \subseteq Live
  BY RacedStays, TasksAssumption DEF AloneInv, TypeOK, Stopped
<1>2. ASSUME Live' \subseteq Live,
             \A m \in Makers : call'[m].at \in {"volume", "launch"} => call[m].at \in {"volume", "launch"} \/ Live = {},
             \A m \in Makers : call'[m].at \in InFlight => call[m].at \in InFlight /\ call'[m].id = call[m].id,
             lock' # 0 /\ task'[lock'].at = "start" => Live' = {} \/ (lock # 0 /\ task[lock].at = "start"),
             lock' # 0 /\ task'[lock'].at = "create" => call'["monitor"].at # "boot"
      PROVE  /\ \A i, j \in Live' : i = j
             /\ \A m \in Makers : call'[m].at \in {"volume", "launch"} => Live' = {}
             /\ \A m \in Makers : call'[m].at \in InFlight => Live' \subseteq {call'[m].id}
             /\ lock' # 0 /\ task'[lock'].at = "start" => Live' = {}
             /\ lock' # 0 /\ task'[lock'].at = "create" => call'["monitor"].at # "boot"
  BY <1>1, <1>2
<1>3. (\A i \in Live' : Kin(i)) => Live' \subseteq Live
  BY DEF Kin
<1>4. CASE Event
  <2>1. UNCHANGED <<inst, call, lock>> /\ (lock # 0 => task'[lock] = task[lock])
    BY <1>1, <1>4, EventEffect DEF OtherTasks
  <2>2. QED
    BY <1>1, <2>1 DEF Live
<1>5. ASSUME NEW t \in Tasks, Run(t)
      PROVE  /\ \A i, j \in Live' : i = j
             /\ \A m \in Makers : call'[m].at \in {"volume", "launch"} => Live' = {}
             /\ \A m \in Makers : call'[m].at \in InFlight => Live' \subseteq {call'[m].id}
             /\ lock' # 0 /\ task'[lock'].at = "start" => Live' = {}
             /\ lock' # 0 /\ task'[lock'].at = "create" => call'["monitor"].at # "boot"
  <2>1. Live' \subseteq Live
    BY <1>3, <1>5, OthersStay DEF Still, Stays, Task
  <2>2. CASE Lock(t)
    BY <1>2, <2>1, <2>2, LockEffect
  <2>3. CASE Disk(t) \/ Filesystem(t)
    BY <1>2, <2>1, <2>3, DiskEffect DEF Steps
  <2>4. CASE DestroyOld(t)
    BY <1>2, <2>1, <2>4, DestroyOldEffect DEF Steps, AllGone
  <2>5. CASE StartNew(t)
    BY <1>1, <1>2, <2>1, <2>5, StartNewEffect DEF Steps, Others, Ends, InFlight
  <2>6. CASE Started(t)
    BY <1>2, <2>1, <2>6, StartedEffect DEF Steps
  <2>7. CASE Report(t)
    BY <1>2, <2>1, <2>7, ReportEffect
  <2>8. QED
    BY <1>5, <2>2, <2>3, <2>4, <2>5, <2>6, <2>7 DEF Run
<1>6. ASSUME NEW m \in {"monitor", "user"}, Making(m)
      PROVE  /\ \A i, j \in Live' : i = j
             /\ \A n \in Makers : call'[n].at \in {"volume", "launch"} => Live' = {}
             /\ \A n \in Makers : call'[n].at \in InFlight => Live' \subseteq {call'[n].id}
             /\ lock' # 0 /\ task'[lock'].at = "start" => Live' = {}
             /\ lock' # 0 /\ task'[lock'].at = "create" => call'["monitor"].at # "boot"
  <2>1. m \in Makers /\ ~Idle(m) /\ Others(m) /\ task' = task /\ lock' = lock /\ Make(m)
    BY <1>6, MakingEffect DEF Making
  <2>2. /\ call'[m].at # "boot"
        /\ call'[m].at \in {"volume", "launch"} => call[m].at \in {"volume", "launch"}
        /\ call'[m].at \in InFlight => Launch(m) \/ (call[m].at \in InFlight /\ call'[m].id = call[m].id)
    BY <2>1, MakeMoves
  <2>3. CASE Live' \subseteq Live /\ ~(Launch(m) /\ inst' # inst)
    BY <1>1, <1>2, <2>1, <2>2, <2>3, LaunchEffect, MonitorAssumption DEF Others, Ends, InFlight
  <2>4. CASE ~(Live' \subseteq Live) \/ (Launch(m) /\ inst' # inst)
    <3>1. Launch(m)
      BY <1>3, <2>1, <2>4, BootEffect, VolumeEffect, AttachEffect, RestoreEffect, TagEffect, ConfigureEffect, UploadEffect
         DEF Make, Live, Taken
    <3>2. PICK i \in Insts : Live' = Live \cup {i} /\ (call'[m].at = "attach" => call'[m].id = i)
      BY <2>1, <2>4, <3>1, LaunchEffect DEF Live
    <3>3. call'[m].at \in {"attach", "error"}
      BY <2>1, <3>1, LaunchEffect DEF Ends
    <3>4. Live' = {i}
      BY <1>1, <2>1, <3>1, <3>2 DEF Launch
    <3>5. \A n \in Makers : call'[n].at \notin {"volume", "launch"} /\ (call'[n].at \in InFlight => n = m)
      BY <1>1, <2>1, <3>3, AloneInCall DEF Others, Idle, InFlight
    <3>6. lock # 0 => task[lock].at # "start" /\ (task[lock].at = "create" => m = "monitor")
      BY <1>1, <2>1, AloneInCall
    <3>7. QED
      BY <2>1, <3>2, <3>3, <3>4, <3>5, <3>6 DEF InFlight
  <2>5. QED
    BY <2>3, <2>4
<1>7. CASE UserMakes
  <2>1. Live' \subseteq Live
    BY <1>3, <1>7, OthersStay DEF Still, Stays
  <2>2. QED
    BY <1>1, <1>2, <1>7, <2>1, UserMakesEffect, MonitorAssumption DEF Others, Ends, InFlight
<1>8. CASE UserDestroys \/ Halts \/ Notices \/ UNCHANGED vars
  <2>1. Live' \subseteq Live
    BY SMTT(60), <1>3, <1>8, OthersStay DEF Still, Stays
  <2>2. UNCHANGED <<call, task, lock>>
    BY ZenonT(60), <1>8 DEF UserDestroys, Destroy, Halts, Halt, Notices, Notice, vars, cloudVars
  <2>3. QED
    BY <1>1, <1>2, <2>1, <2>2
<1>9. QED
  BY <1>4, <1>5, <1>6, <1>7, <1>8 DEF Next, Task

-----------------------------------------------------------------------------
(*                              The tags                                   *)

LEMMA LostStays == ASSUME [Next]_vars PROVE lost \subseteq lost' /\ left \subseteq left'
  BY ZenonT(60) DEF Next, Event, Task, Run, Lock, Disk, Filesystem, DestroyOld, StartNew, BeginStart, Started, Report, Making, Make,
         Boot, Volume, Launch, Attach, Restore, Tag, Configure, Upload, UserMakes, BeginCreate, UserDestroys, Destroy, Halts, Halt,
         Notices, Notice, vars, cloudVars

\* Only calls write tags.
LEMMA OthersKeepTags ==
    ASSUME TypeOK, LockInv, Event \/ Task \/ UserMakes \/ UserDestroys \/ Halts \/ Notices \/ UNCHANGED vars
    PROVE  SameTags
<1>1. CASE UserMakes
  BY <1>1, UserMakesEffect DEF SameTags
<1>2. ASSUME NEW t \in Tasks, StartNew(t) PROVE SameTags
  BY <1>2, StartNewEffect DEF SameTags
<1>3. ASSUME NEW t \in Tasks, Disk(t) \/ Filesystem(t) PROVE SameTags
  BY <1>3, DiskEffect
<1>4. QED
  BY Zenon, <1>1, <1>2, <1>3 DEF Event, Task, Run, Lock, DestroyOld, Started, Report, UserDestroys, Destroy,
                          Halts, Halt, Notices, Notice, vars, cloudVars, SameTags

\* Up to its last write, a call finds in the tags what it was asked for.
LEMMA AskedNext ==
    TypeOK /\ TypeOK' /\ LockInv /\ CallInv /\ IdInv /\ AskedInv /\ [Next]_vars => AskedInv'
<1> SUFFICES ASSUME TypeOK, TypeOK', LockInv, CallInv, IdInv, AskedInv, [Next]_vars, ~raced', "tags" \notin lost',
                    NEW n \in Makers, call'[n].at \in {"launch", "attach", "restore"}, vol' # NoVol
             PROVE  vol'.size = call'[n].size /\ vol'.spot = call'[n].spot
  BY DEF AskedInv
<1>1. ~raced /\ "tags" \notin lost
  BY RacedStays, LostStays
<1>2. CASE call'[n] = call[n] /\ SameTags
  BY <1>1, <1>2 DEF AskedInv, SameTags
<1>3. CASE Event \/ Task \/ UserMakes \/ UserDestroys \/ Halts \/ Notices \/ UNCHANGED vars
  <2>1. SameTags
    BY ZenonT(60), <1>3, OthersKeepTags
  <2>2. call'[n] = call[n]
    <3>1. CASE UserMakes
      BY <3>1, UserMakesEffect DEF Others, Ends
    <3>2. ASSUME NEW t \in Tasks, StartNew(t) PROVE call'[n] = call[n]
      BY <3>2, StartNewEffect DEF Others, Ends
    <3>3. QED
      BY Zenon, <1>3, <3>1, <3>2 DEF Event, Task, Run, Lock, Disk, Filesystem, DestroyOld, Started, Report, UserDestroys, Destroy,
                              Halts, Halt, Notices, Notice, vars, cloudVars
  <2>3. QED
    BY <1>2, <2>1, <2>2
<1>4. ASSUME NEW m \in {"monitor", "user"}, Making(m)
      PROVE  vol'.size = call'[n].size /\ vol'.spot = call'[n].spot
  <2>1. m \in Makers /\ Make(m) /\ Others(m) /\ ~Idle(m)
    BY <1>4, MonitorAssumption, MakingEffect DEF Making
  <2>2. n = m
    BY <1>1, <2>1, AloneInCall DEF Others, Idle
  <2>3. CASE Volume(m)
    BY <2>1, <2>2, <2>3, VolumeEffect DEF Goes, Ends
  <2>4. CASE Launch(m)
    BY <1>1, <2>1, <2>2, <2>4, LaunchEffect DEF Ends, AskedInv
  <2>5. CASE Attach(m)
    <3>1. call[m].at = "attach" /\ (Ends(m, "error") \/ (Goes(m, "restore") /\ vol' = vol))
      BY <2>1, <2>5, AttachEffect
    <3>2. Goes(m, "restore") /\ vol' = vol
      BY <2>2, <3>1 DEF Ends
    <3>3. vol.size = call[m].size /\ vol.spot = call[m].spot
      BY <1>1, <2>1, <3>1, <3>2 DEF AskedInv
    <3>4. QED
      BY <2>2, <3>2, <3>3 DEF Goes
  <2>6. CASE Boot(m) \/ Restore(m) \/ Tag(m) \/ Configure(m) \/ Upload(m)
    BY <2>1, <2>2, <2>6, BootEffect, RestoreEffect, TagEffect, ConfigureEffect, UploadEffect DEF Ends, Goes
  <2>7. QED
    BY <2>1, <2>3, <2>4, <2>5, <2>6 DEF Make
<1>5. QED
  BY <1>3, <1>4 DEF Next

\* A step that leaves the tags and what is attached.
LEMMA TagStays ==
    ASSUME TypeOK, TypeOK', [Next]_vars, TagInv, SameTags, \A i \in Live' : Kin(i) /\ (inst'[i].attached => inst[i].attached),
           \A m \in Makers : call[m].at \in {"restore", "tags"} =>
               call'[m].at \in {"restore", "tags"} /\ call'[m].id = call[m].id
    PROVE  TagInv'
<1>1. (~raced' /\ "tags" \notin lost' => ~raced /\ "tags" \notin lost) /\ left \subseteq left'
  BY RacedStays, LostStays
<1>2. ASSUME NEW i \in Live', inst'[i].attached PROVE vol' # NoVol
  BY <1>2 DEF TagInv, SameTags, Kin
<1>3. ASSUME NEW i \in Live', inst'[i].attached, ~raced', "tags" \notin lost'
      PROVE  TagsFit(i)' \/ Tagging(i)'
  <2>1. i \in Live /\ inst[i].attached
    BY <1>3 DEF Kin
  <2>2. TagsFit(i) \/ Tagging(i)
    BY <1>1, <1>3, <2>1 DEF TagInv
  <2>3. vol'.size = vol.size /\ vol'.spot = vol.spot
    BY DEF SameTags
  <2>4. QED
    BY <1>1, <1>3, <2>2, <2>3 DEF TagsFit, Tagging, Kin
<1>4. QED
  BY <1>2, <1>3 DEF TagInv

LEMMA TagNext ==
    TypeOK /\ TypeOK' /\ LockInv /\ CallInv /\ IdInv /\ HaltInv /\ AloneInv /\ AskedInv /\ TagInv /\ [Next]_vars => TagInv'
<1> SUFFICES ASSUME TypeOK, TypeOK', LockInv, CallInv, IdInv, HaltInv, AloneInv, AskedInv, TagInv, [Next]_vars PROVE TagInv'
  OBVIOUS
<1>1. (~raced' /\ "tags" \notin lost' => ~raced /\ "tags" \notin lost) /\ left \subseteq left'
  BY RacedStays, LostStays
<1>2. CASE Event \/ Task \/ UserMakes \/ UserDestroys \/ Halts \/ Notices \/ UNCHANGED vars
  <2>1. \A i \in Live' : Kin(i) /\ (inst'[i].attached => inst[i].attached)
    BY <1>2, OthersStay DEF Still, Stays
  <2>2. SameTags
    BY ZenonT(60), <1>2, OthersKeepTags
  <2>3. ASSUME NEW m \in Makers, call[m].at \in {"restore", "tags"} PROVE call'[m].at = call[m].at /\ call'[m].id = call[m].id
    <3>1. CASE UserMakes
      BY <2>3, <3>1, UserMakesEffect DEF Others, Idle
    <3>2. ASSUME NEW t \in Tasks, StartNew(t) PROVE call'[m].at = call[m].at /\ call'[m].id = call[m].id
      BY <2>3, <3>2, StartNewEffect DEF Others, Idle
    <3>3. QED
      BY Zenon, <1>2, <2>3, <3>1, <3>2 DEF Event, Task, Run, Lock, Disk, Filesystem, DestroyOld, Started, Report, UserDestroys, Destroy,
                              Halts, Halt, Notices, Notice, vars, cloudVars
  <2>4. QED
    BY <2>1, <2>2, <2>3, TagStays
<1>3. ASSUME NEW m \in {"monitor", "user"}, Making(m) PROVE TagInv'
  <2>1. m \in Makers /\ Make(m) /\ Others(m)
    BY <1>3, MonitorAssumption, MakingEffect DEF Making
  <2>2. ASSUME call[m].at \notin {"restore", "tags"} \/ Goes(m, "tags"), ~(Launch(m) /\ inst' # inst), SameTags,
               \A i \in Live' : inst'[i].attached => inst[i].attached
        PROVE  TagInv'
    <3>1. \A i \in Live' : Kin(i)
      BY <1>3, <2>2, KinUnlessLaunch
    <3>2. QED
      BY <2>1, <2>2, <3>1, TagStays DEF Others, Goes
  <2>3. CASE Boot(m)
    BY <2>1, <2>2, <2>3, BootEffect DEF SameTags, Boot, Launch
  <2>4. CASE Volume(m)
    <3>1. inst' = inst /\ Live' = Live /\ (vol' # NoVol \/ vol' = vol) /\ call[m].at = "volume"
      BY <2>1, <2>4, VolumeEffect DEF Live
    <3>2. ~raced => Live = {}
      BY <2>1, <3>1 DEF AloneInv
    <3>3. QED
      BY <1>1, <3>1, <3>2 DEF TagInv
  <2>5. CASE Launch(m) /\ inst' = inst
    <3>1. VolumeKept(Live) /\ call[m].at = "launch" /\ Live' = Live
      BY <2>1, <2>5, LaunchEffect DEF Live, VolumeKept
    <3>2. CASE vol' = vol
      BY <2>2, <2>5, <3>1, <3>2 DEF SameTags
    <3>3. CASE \A i \in Live : ~inst[i].attached
      BY <2>5, <3>1, <3>3 DEF TagInv
    <3>4. QED
      BY <3>1, <3>2, <3>3 DEF VolumeKept
  <2>6. CASE Launch(m) /\ inst' # inst
    <3>1. PICK i \in Insts : /\ inst[i] = NoInst /\ Live' = Live \cup {i} /\ \A j \in Insts \ {i} : inst'[j] = inst[j]
                             /\ ~inst'[i].attached
      BY <2>1, <2>6, LaunchEffect
    <3>2. VolumeKept(Live) /\ call[m].at = "launch"
      BY <2>1, <2>6, LaunchEffect DEF VolumeKept
    <3>3. \A j \in Live' : inst'[j].attached => j \in Live /\ inst'[j] = inst[j]
      BY <3>1 DEF Live
    <3>4. \A j \in Live : Tagging(j) => Tagging(j)'
      BY <2>1, <3>2 DEF Others, Tagging
    <3>5. CASE vol' = vol
      BY <1>1, <3>3, <3>4, <3>5 DEF TagInv, TagsFit
    <3>6. CASE \A j \in Live : ~inst[j].attached
      BY <3>3, <3>6 DEF TagInv
    <3>7. QED
      BY <3>2, <3>5, <3>6 DEF VolumeKept
  <2>7. CASE Attach(m)
    <3>1. CASE /\ Ends(m, "error") /\ (inst' = inst \/ Taken(call[m].id))
               /\ VolumeKept(Live \ {call[m].id})
      <4>1. call[m].at = "attach" /\ (call[m].id \in Live => ~inst[call[m].id].attached)
        BY <2>1, <2>7, AttachEffect DEF IdInv, InFlight
      <4>2. \A i \in Live' : i \in Live /\ inst'[i] = inst[i]
        BY <3>1 DEF Taken, Live
      <4>3. CASE vol' = vol
        BY <2>2, <2>7, <4>1, <4>2, <4>3 DEF SameTags, Launch
      <4>4. CASE \A i \in Live \ {call[m].id} : ~inst[i].attached
        <5>1. \A i \in Live' : ~inst'[i].attached
          BY <4>1, <4>2, <4>4
        <5>2. QED
          BY <5>1 DEF TagInv
      <4>5. QED
        BY <3>1, <4>3, <4>4 DEF VolumeKept
    <3>2. CASE /\ call[m].id \in Up /\ Goes(m, "restore") /\ vol' = vol /\ vol # NoVol
               /\ Live' = Live /\ Kin(call[m].id) /\ \A j \in Insts \ {call[m].id} : inst'[j] = inst[j]
      <4>1. call[m].at = "attach"
        BY <2>1, <2>7, AttachEffect
      <4>2. \A j \in Live' : j # call[m].id => j \in Live /\ inst'[j] = inst[j]
        BY <3>2 DEF Live
      <4>3. \A j \in Live : Tagging(j) => Tagging(j)'
        BY <2>1, <4>1 DEF Others, Tagging
      <4>4. \A j \in Insts : j = call[m].id => Tagging(j)'
        BY <2>1, <3>2 DEF Goes, Tagging
      <4>5. \A j \in Live' : j # call[m].id /\ inst'[j].attached /\ ~raced' /\ "tags" \notin lost'
              => TagsFit(j)' \/ Tagging(j)'
        BY <1>1, <3>2, <4>2, <4>3 DEF TagInv, TagsFit
      <4>6. QED
        BY <3>2, <4>4, <4>5 DEF TagInv, Live
    <3>3. QED
      BY <2>1, <2>7, <3>1, <3>2, AttachEffect
  <2>8. CASE Tag(m)
    <3>1. inst' = inst /\ Live' = Live /\ (vol' # NoVol \/ vol' = vol) /\ call[m].at = "tags"
      BY <2>1, <2>8, TagEffect DEF Live
    <3>2. ASSUME NEW i \in Live, ~raced', "tags" \notin lost' PROVE TagsFit(i)'
      <4>1. i = call[m].id
        BY <1>1, <2>1, <3>1, <3>2 DEF AloneInv, InFlight
      <4>2. inst[i].size = Resolved(call[m].size) /\ (inst[i].spot => call[m].spot)
        BY <2>1, <3>1, <3>2, <4>1 DEF IdInv, InFlight
      <4>3. vol'.size = Resolved(call[m].size) /\ vol'.spot = call[m].spot
        BY <2>1, <2>8, <3>2, TagEffect
      <4>4. QED
        BY <3>1, <4>2, <4>3 DEF TagsFit
    <3>3. QED
      BY <3>1, <3>2 DEF TagInv
  <2>9. CASE Configure(m)
    <3>1. \A i \in Live' : inst'[i] = inst[i]
      BY <2>1, <2>9, ConfigureEffect DEF Taken, Live
    <3>2. QED
      BY <2>1, <2>2, <2>9, <3>1, ConfigureEffect DEF SameTags, Launch
  <2>10. CASE Upload(m)
    <3>1. \A i \in Live' : inst'[i].attached => inst[i].attached
      <4>1. CASE inst' = inst
        BY <4>1
      <4>2. CASE inst'[call[m].id].attached = inst[call[m].id].attached /\ \A j \in Insts \ {call[m].id} : inst'[j] = inst[j]
        BY <4>2 DEF Live
      <4>3. QED
        BY <2>1, <2>10, <4>1, <4>2, UploadEffect
    <3>2. QED
      BY <2>1, <2>2, <2>10, <3>1, UploadEffect DEF SameTags, Launch
  <2>11. CASE Restore(m)
    <3>1. CASE Goes(m, "tags") /\ inst' = inst /\ vol' = vol
      BY <2>2, <2>11, <3>1 DEF SameTags
    <3>2. CASE /\ Ends(m, "error") /\ (inst' = inst \/ Taken(call[m].id)) /\ VolumeKept(Live')
               /\ left' = left \cup (Live' \cap {call[m].id})
      <4>1. \A i \in Live' : i \in Live /\ inst'[i] = inst[i]
        BY <3>2 DEF Taken, Live
      <4>2. call[m].at = "restore"
        BY <2>1, <2>11, RestoreEffect
      <4>3. ASSUME NEW i \in Live', inst'[i].attached PROVE vol' = vol /\ vol' # NoVol
        BY <3>2, <4>1, <4>3 DEF VolumeKept, TagInv
      <4>4. ASSUME NEW i \in Live', inst'[i].attached, ~raced', "tags" \notin lost' PROVE TagsFit(i)'
        <5>1. i = call[m].id
          BY <1>1, <2>1, <4>1, <4>2, <4>4 DEF AloneInv, InFlight
        <5>2. inst[i].size = Resolved(call[m].size) /\ (inst[i].spot => call[m].spot)
          BY <2>1, <4>1, <4>2, <4>4, <5>1 DEF IdInv, InFlight
        <5>3. vol'.size = call[m].size /\ vol'.spot = call[m].spot
          BY <1>1, <2>1, <4>2, <4>3, <4>4 DEF AskedInv
        <5>4. call[m].size = 0 \/ Resolved(call[m].size) = call[m].size
          BY DEF Resolved
        <5>5. i \in left'
          BY <3>2, <4>4, <5>1
        <5>6. QED
          BY <4>1, <4>4, <5>2, <5>3, <5>4, <5>5 DEF TagsFit
      <4>5. QED
        BY <4>3, <4>4 DEF TagInv
    <3>3. QED
      BY <2>1, <2>11, <3>1, <3>2, RestoreEffect
  <2>12. QED
    BY <2>1, <2>3, <2>4, <2>5, <2>6, <2>7, <2>8, <2>9, <2>10, <2>11 DEF Make
<1>4. QED
  BY <1>2, <1>3 DEF Next

-----------------------------------------------------------------------------
(*                               On demand                                 *)

\* A call that does not ask for spot makes none of it, in the cloud or in the tags.
LEMMA DemandMaking ==
    ASSUME TypeOK, IdInv, HaltInv, NEW m \in {"monitor", "user"}, Making(m), ~call[m].spot, OnDemand
    PROVE  OnDemand'
<1>1. m \in Makers /\ Make(m)
  BY MonitorAssumption DEF Making
<1>2. \A i \in Live' : ~inst'[i].spot
  <2>1. CASE Launch(m) /\ inst' # inst
    <3>1. PICK i \in Insts : /\ Live' = Live \cup {i} /\ \A j \in Insts \ {i} : inst'[j] = inst[j]
                             /\ inst'[i].spot => call[m].spot
      BY <1>1, <2>1, LaunchEffect
    <3>2. \A j \in Live : j \in Insts
      BY DEF Live
    <3>3. QED
      BY <3>1, <3>2 DEF OnDemand
  <2>2. CASE ~(Launch(m) /\ inst' # inst)
    BY <2>2, KinUnlessLaunch DEF OnDemand, Kin
  <2>3. QED
    BY <2>1, <2>2
<1>3. vol' # NoVol => ~vol'.spot
  <2>1. CASE Boot(m) \/ Configure(m) \/ Upload(m)
    BY <1>1, <2>1, BootEffect, ConfigureEffect, UploadEffect DEF OnDemand
  <2>2. CASE Volume(m) \/ Tag(m)
    BY <1>1, <2>2, VolumeEffect, TagEffect DEF OnDemand
  <2>3. CASE Launch(m) \/ Attach(m) \/ Restore(m)
    BY <1>1, <2>3, LaunchEffect, AttachEffect, RestoreEffect DEF OnDemand, VolumeKept
  <2>4. QED
    BY <1>1, <2>1, <2>2, <2>3 DEF Make
<1>4. QED
  BY <1>2, <1>3 DEF OnDemand

\* Nor does any step of another.
LEMMA DemandStays ==
    ASSUME TypeOK, LockInv, OnDemand, Event \/ Task \/ UserMakes \/ UserDestroys \/ Halts \/ Notices \/ UNCHANGED vars
    PROVE  OnDemand'
<1>1. \A i \in Live' : Kin(i)
  BY OthersStay DEF Still, Stays
<1>2. SameTags
  BY OthersKeepTags
<1>3. QED
  BY <1>1, <1>2 DEF OnDemand, Kin, SameTags

LEMMA DemandNext ==
    TypeOK /\ TypeOK' /\ LockInv /\ CallInv /\ CallInv' /\ IdInv /\ HaltInv /\ AloneInv /\ DemandInv /\ [Next]_vars => DemandInv'
<1> SUFFICES ASSUME TypeOK, TypeOK', LockInv, CallInv, CallInv', IdInv, HaltInv, AloneInv, DemandInv, [Next]_vars
             PROVE  DemandInv'
  OBVIOUS
<1>1. ~raced' /\ "tags" \notin lost' => ~raced /\ "tags" \notin lost
  BY RacedStays, LostStays
<1>2. lock \in Tasks \cup {0} /\ 0 \notin Tasks /\ "monitor" \in Makers /\ "user" \in Makers /\ moved \in BOOLEAN /\ moved' \in BOOLEAN
  BY TasksAssumption, MonitorAssumption DEF TypeOK
<1> DEFINE Calm == moved /\ ~raced /\ "tags" \notin lost => OnDemand /\ \A m \in Makers : ~call[m].spot
           Asks == lock # 0 /\ task[lock].kind = "capacity" =>
             /\ task[lock].at = "create" => ~call["monitor"].spot
             /\ ~raced /\ "tags" \notin lost =>
                  /\ task[lock].at = "create" /\ call["monitor"].at \notin {"volume", "error"} => OnDemand
                  /\ task[lock].at = "end" /\ ~task[lock].err => OnDemand
<1>3. Calm /\ Asks
  BY DEF DemandInv
<1> SUFFICES Calm' /\ Asks'
  BY DEF DemandInv
<1>5. CASE Event
  <2>1. UNCHANGED <<call, lock, moved, raced, lost>> /\ (lock # 0 => task'[lock] = task[lock])
    BY <1>2, <1>5, EventEffect DEF OtherTasks
  <2>2. OnDemand => OnDemand'
    BY <1>5, DemandStays
  <2>3. QED
    BY <1>3, <2>1, <2>2
<1>6. ASSUME NEW t \in Tasks, Run(t) PROVE Calm' /\ Asks'
  <2>1. OnDemand => OnDemand'
    BY <1>6, DemandStays DEF Task
  <2>2. CASE Lock(t)
    <3>1. moved' = moved
      BY <2>2 DEF Lock, Kept
    <3>2. QED
      BY <1>1, <1>2, <1>3, <2>1, <2>2, <3>1, LockEffect
  <2>3. CASE Disk(t) \/ Filesystem(t)
    <3>1. moved' = moved
      BY <2>3 DEF Disk, Filesystem, Kept
    <3>2. task[t].kind # "capacity"
      BY <1>2, <2>3, DiskEffect DEF LockInv
    <3>3. QED
      BY <1>1, <1>2, <1>3, <2>1, <2>3, <3>1, <3>2, DiskEffect DEF Steps
  <2>4. CASE DestroyOld(t)
    <3>1. moved' = moved
      BY <2>4 DEF DestroyOld, Kept
    <3>2. QED
      BY <1>1, <1>2, <1>3, <2>1, <2>4, <3>1, DestroyOldEffect DEF Steps
  <2>5. CASE StartNew(t)
    <3>1. moved' = moved
      BY <2>5 DEF StartNew, Kept
    <3>2. ~raced => Stopped = {}
      BY <1>2, <2>5, StartNewEffect DEF AloneInv, Stopped
    <3>3. lock' = t /\ t # 0 /\ lost' = lost /\ task'[t].at = "create" /\ task'[t].kind = task[t].kind
      BY <1>2, <2>5, StartNewEffect DEF Steps
    <3>4. Calm'
      <4>1. OnDemand => ~call'["monitor"].spot
        BY <2>5, StartNewEffect DEF Ends, OnDemand
      <4>2. \A m \in Makers \ {"monitor"} : call'[m] = call[m]
        BY <2>5, StartNewEffect DEF Others
      <4>3. QED
        BY <1>1, <1>3, <2>1, <3>1, <4>1, <4>2
    <3>5. Asks'
      <4>1. task[t].kind = "capacity" => ~call'["monitor"].spot
        BY <2>5, StartNewEffect DEF Ends
      <4>2. ~raced => call'["monitor"].at \in {"volume", "error"}
        BY <2>5, <3>2, StartNewEffect DEF Ends
      <4>3. QED
        BY <1>1, <3>3, <4>1, <4>2
    <3>6. QED
      BY <3>4, <3>5
  <2>6. CASE Started(t)
    <3>1. moved' = moved
      BY <2>6 DEF Started, Kept
    <3>2. QED
      BY <1>1, <1>2, <1>3, <2>1, <2>6, <3>1, StartedEffect DEF Steps, Idle
  <2>7. CASE Report(t)
    <3>1. Asks'
      BY <2>7, ReportEffect
    <3>2. CASE moved' = moved
      BY <1>1, <1>3, <2>1, <2>7, <3>1, <3>2, ReportEffect
    <3>3. CASE task[t].kind = "capacity" /\ ~task[t].err
      <4>1. lock = t /\ t # 0 /\ task[t].at = "end" /\ call' = call /\ Rotating
        BY <1>2, <2>7, <3>3, ReportEffect DEF Rotating
      <4>2. ~raced => \A m \in Makers : Idle(m)
        BY <4>1 DEF CallInv
      <4>3. ~raced => \A m \in Makers : ~call[m].spot
        BY <4>2 DEF CallInv, Idle, InFlight
      <4>4. QED
        BY <1>1, <1>3, <2>1, <3>1, <3>3, <4>1, <4>3
    <3>4. QED
      BY <1>2, <2>7, <3>2, <3>3, ReportEffect
  <2>8. QED
    BY <1>6, <2>2, <2>3, <2>4, <2>5, <2>6, <2>7 DEF Run
<1>7. ASSUME NEW m \in {"monitor", "user"}, Making(m) PROVE Calm' /\ Asks'
  <2>1. /\ m \in Makers /\ ~Idle(m) /\ Others(m) /\ task' = task /\ lock' = lock /\ moved' = moved /\ Make(m)
        /\ call'[m].spot => call[m].spot
    BY <1>7, MakingEffect, MakeMoves DEF Making
  <2>2. ~call[m].spot /\ OnDemand => OnDemand'
    BY <1>7, DemandMaking
  <2>3. Calm'
    BY <1>1, <1>3, <2>1, <2>2 DEF Others
  <2>4. CASE m = "user"
    <3>1. ~raced => ~Rotating
      BY <2>1, <2>4 DEF CallInv
    <3>2. call'["monitor"] = call["monitor"]
      BY <1>2, <2>1, <2>4 DEF Others
    <3>3. QED
      BY <1>1, <1>3, <2>1, <2>3, <3>1, <3>2 DEF Rotating
  <2>5. CASE m = "monitor" /\ ~Volume(m)
    <3>1. lock # 0 /\ task[lock].at = "create"
      BY SMTT(60), <2>1, <2>5 DEF CallInv
    <3>2. call["monitor"].at \notin {"volume", "error"}
      BY <2>1, <2>5 DEF Make, Boot, Launch, Attach, Restore, Tag, Configure, Upload
    <3>3. QED
      BY <1>1, <1>3, <2>1, <2>2, <2>3, <2>5, <3>1, <3>2
  <2>6. CASE m = "monitor" /\ Volume(m)
    <3>1. lock # 0 /\ task[lock].at = "create"
      BY <2>1, <2>6 DEF CallInv
    <3>2. ASSUME ~raced, "tags" \notin lost', ~call[m].spot PROVE OnDemand' \/ call'[m].at = "error"
      <4>1. Live' = {}
        BY <2>1, <2>6, <3>2, VolumeEffect DEF AloneInv, Live
      <4>2. call'[m].at = "error" \/ vol'.spot = call[m].spot
        BY <2>1, <2>6, <3>2, VolumeEffect DEF Ends
      <4>3. QED
        BY <3>2, <4>1, <4>2 DEF OnDemand
    <3>3. QED
      BY <1>1, <1>3, <2>1, <2>3, <2>6, <3>1, <3>2
  <2>7. QED
    BY <2>4, <2>5, <2>6
<1>8. CASE UserMakes
  <2>1. Others("user") /\ UNCHANGED <<inst, vol, lost, task, lock>>
    BY <1>8, UserMakesEffect
  <2>2. moved' => moved /\ (call'["user"].spot => vol # NoVol /\ vol.spot)
    BY Zenon, <1>8, UserMakesEffect DEF Ends
  <2>3. OnDemand => OnDemand'
    BY <1>8, DemandStays
  <2>4. call'["monitor"] = call["monitor"]
    BY <1>2, <2>1 DEF Others
  <2>5. Calm'
    BY <1>1, <1>3, <2>1, <2>2, <2>3 DEF Others, OnDemand
  <2>6. Asks'
    BY <1>1, <1>3, <2>1, <2>3, <2>4
  <2>7. QED
    BY <2>5, <2>6
<1>9. CASE UserDestroys \/ Halts \/ Notices \/ UNCHANGED vars
  <2>1. UNCHANGED <<call, task, lock, moved>>
    BY <1>9 DEF UserDestroys, Destroy, Halts, Halt, Notices, Notice, vars, cloudVars
  <2>2. OnDemand => OnDemand'
    BY <1>9, DemandStays
  <2>3. QED
    BY SMTT(60), <1>1, <1>3, <2>1, <2>2
<1>10. QED
  BY <1>5, <1>6, <1>7, <1>8, <1>9 DEF Next, Task

-----------------------------------------------------------------------------
(*                            What was reported                            *)

\* An instance that serves a task's decision goes on to, as long as it is left alone.
LEMMA ServedStays ==
    ASSUME NEW t \in Tasks, Served(t), task'[t].size = task[t].size, task'[t].kind = task[t].kind,
           \A i \in Up : i \in Up' /\ Kin(i) /\ inst'[i].attached = inst[i].attached /\ inst'[i].ready = inst[i].ready
    PROVE  Served(t)'
<1>1. PICK i \in Up : /\ inst[i].ready /\ inst[i].attached
                      /\ task[t].size \in {0, inst[i].size}
                      /\ task[t].kind = "capacity" => ~inst[i].spot
  BY DEF Served
<1>2. i \in Up' /\ inst'[i].ready /\ inst'[i].attached /\ inst'[i].size = inst[i].size /\ inst'[i].spot = inst[i].spot
  BY <1>1 DEF Kin
<1>3. QED
  BY <1>1, <1>2 DEF Served

\* A call that goes on keeps the size it goes by.
LEMMA MakeSizes ==
    ASSUME TypeOK, IdInv, NEW m \in Makers, Make(m), call'[m].at \in InFlight \cup {"volume", "launch"}
    PROVE  call[m].at \in InFlight \cup {"volume", "launch"} /\ call'[m].size = call[m].size
<1> USE DEF Ends, Goes, InFlight
<1>1. CASE Boot(m)
  BY <1>1, BootEffect
<1>2. CASE Volume(m)
  BY <1>2, VolumeEffect
<1>3. CASE Launch(m)
  BY <1>3, LaunchEffect
<1>4. CASE Attach(m)
  BY <1>4, AttachEffect
<1>5. CASE Tag(m)
  BY <1>5, TagEffect
<1>6. CASE Configure(m)
  BY <1>6, ConfigureEffect
<1>7. CASE Upload(m)
  BY <1>7, UploadEffect
<1>8. CASE Restore(m)
  BY <1>8, RestoreEffect
<1>9. QED
  BY <1>1, <1>2, <1>3, <1>4, <1>5, <1>6, <1>7, <1>8 DEF Make

\* Inside the monitor's call.
LEMMA RotationMaking ==
    ASSUME TypeOK, LockInv, CallInv, IdInv, HaltInv, DemandInv, RotationInv, Making("monitor"), ~raced, "instance" \notin lost',
           NEW t \in Tasks, lock = t, call'["monitor"].at = "ok"
    PROVE  Served(t)'
<1>1. /\ "monitor" \in Makers /\ Make("monitor") /\ task' = task
      /\ t # 0 /\ task[t].at = "create" /\ "instance" \notin lost
  BY MakingEffect, LostStays, MonitorAssumption, TasksAssumption DEF Making, CallInv, TypeOK, Next
<1> DEFINE id == call["monitor"].id
<1>2. CASE Boot("monitor")
  BY <1>1, <1>2, BootEffect DEF HaltInv, Ends
<1>3. CASE Upload("monitor")
  <2>1. /\ call["monitor"].at = "upload" /\ id \in Up /\ Up' = Up
        /\ Kin(id) /\ inst'[id].ready /\ inst'[id].attached = inst[id].attached
    BY <1>1, <1>3, UploadEffect DEF Ends
  <2>2. /\ id \in Live /\ inst[id].attached /\ inst[id].size = Resolved(call["monitor"].size)
        /\ inst[id].spot => call["monitor"].spot
    BY <1>1, <2>1 DEF IdInv, InFlight, Up
  <2>3. task[t].size \in {0, call["monitor"].size} /\ (task[t].kind = "capacity" => ~call["monitor"].spot)
    BY <1>1, <2>1 DEF RotationInv, DemandInv, InFlight
  <2>4. call["monitor"].size \in Sizes \cup {0}
    BY <1>1, CallTypes DEF CallRecs
  <2>5. task[t].size \in {0, inst[id].size}
    BY <2>2, <2>3, <2>4, DefaultIsASize
  <2>6. QED
    BY <1>1, <2>1, <2>2, <2>3, <2>5 DEF Served, Kin
<1>4. CASE \/ Volume("monitor") \/ Launch("monitor") \/ Attach("monitor") \/ Restore("monitor")
           \/ Tag("monitor") \/ Configure("monitor")
  BY <1>1, <1>4, VolumeEffect, LaunchEffect, AttachEffect, RestoreEffect, TagEffect, ConfigureEffect DEF Ends, Goes
<1>5. QED
  BY <1>1, <1>2, <1>3, <1>4 DEF Make

LEMMA RotationNext ==
    /\ TypeOK /\ TypeOK' /\ LockInv /\ CallInv /\ IdInv /\ HaltInv /\ DemandInv /\ RotationInv /\ [Next]_vars
    => RotationInv'
<1> SUFFICES ASSUME TypeOK, TypeOK', LockInv, CallInv, IdInv, HaltInv, DemandInv, RotationInv, [Next]_vars
             PROVE  RotationInv'
  OBVIOUS
<1> DEFINE Sized == lock # 0 /\ task[lock].at = "create" /\ call["monitor"].at \in InFlight \cup {"volume", "launch"} =>
                       task[lock].size \in {0, call["monitor"].size}
           Serves == \A t \in Tasks : lock = t /\ ~raced /\ "instance" \notin lost =>
                       /\ task[t].at = "create" /\ call["monitor"].at = "ok" => Served(t)
                       /\ task[t].at = "end" /\ ~task[t].err /\ task[t].kind # "disk" => Served(t)
<1>1. Sized /\ Serves
  BY DEF RotationInv
<1> SUFFICES Sized' /\ Serves'
  BY DEF RotationInv
<1>2. ~raced' /\ "instance" \notin lost' => ~raced /\ "instance" \notin lost
  BY RacedStays, LostStays
<1>3. lock \in Tasks \cup {0} /\ 0 \notin Tasks /\ "monitor" \in Makers /\ "user" \in Makers
  BY TasksAssumption, MonitorAssumption DEF TypeOK
<1>4. ASSUME inst' = inst, NEW t \in Tasks, Served(t), task'[t].size = task[t].size, task'[t].kind = task[t].kind
      PROVE  Served(t)'
  BY <1>4 DEF Served, Up, Live
<1>5. CASE Event
  <2>1. UNCHANGED <<inst, call, lock, raced, lost>> /\ (lock # 0 => task'[lock] = task[lock])
    BY <1>3, <1>5, EventEffect DEF OtherTasks
  <2>2. \A t \in Tasks : lock = t /\ Served(t) => Served(t)'
    BY <1>3, <1>4, <2>1
  <2>3. QED
    BY <1>1, <1>3, <2>1, <2>2
<1>6. ASSUME NEW t \in Tasks, Run(t) PROVE Sized' /\ Serves'
  <2>1. CASE Lock(t)
    BY <2>1, LockEffect
  <2>2. CASE Disk(t) \/ Filesystem(t)
    BY <2>2, DiskEffect DEF Steps
  <2>3. CASE DestroyOld(t)
    BY <2>3, DestroyOldEffect DEF Steps
  <2>4. CASE StartNew(t)
    BY <2>4, StartNewEffect DEF Steps, Ends, InFlight
  <2>5. CASE Started(t)
    <3>1. /\ lock = t /\ lock' = t /\ t # 0 /\ task[t].at = "create" /\ Idle("monitor") /\ UNCHANGED <<inst, call, lost>>
          /\ Steps(t, "end", call["monitor"].at = "error")
      BY <1>3, <2>5, StartedEffect
    <3>2. ~task'[t].err => call["monitor"].at = "ok"
      BY <3>1 DEF Steps, Idle, CallInv
    <3>3. Served(t) => Served(t)'
      BY <1>4, <3>1 DEF Steps
    <3>4. QED
      BY <1>1, <1>2, <3>1, <3>2, <3>3 DEF Steps
  <2>6. CASE Report(t)
    BY <1>3, <2>6, ReportEffect
  <2>7. QED
    BY <1>6, <2>1, <2>2, <2>3, <2>4, <2>5, <2>6 DEF Run
<1>7. ASSUME NEW m \in {"monitor", "user"}, Making(m) PROVE Sized' /\ Serves'
  <2>1. /\ m \in Makers /\ ~Idle(m) /\ Others(m) /\ task' = task /\ lock' = lock /\ Make(m)
    BY <1>7, MakingEffect DEF Making
  <2>2. CASE m = "user"
    <3>1. ~raced => ~Rotating
      BY <2>1, <2>2 DEF CallInv
    <3>2. call'["monitor"] = call["monitor"]
      BY <1>3, <2>1, <2>2 DEF Others
    <3>3. QED
      BY <1>1, <1>2, <1>3, <2>1, <3>1, <3>2 DEF Rotating, LockInv
  <2>3. CASE m = "monitor"
    <3>1. lock # 0 /\ task[lock].at = "create"
      BY <2>1, <2>3 DEF CallInv
    <3>2. Sized'
      <4>1. call'[m].at \in InFlight \cup {"volume", "launch"} =>
              call[m].at \in InFlight \cup {"volume", "launch"} /\ call'[m].size = call[m].size
        BY <2>1, MakeSizes
      <4>2. QED
        BY <1>1, <2>1, <2>3, <3>1, <4>1
    <3>3. Serves'
      BY <1>2, <1>7, <2>1, <2>3, <3>1, RotationMaking
    <3>4. QED
      BY <3>2, <3>3
  <2>4. QED
    BY <2>2, <2>3
<1>8. CASE UserMakes
  <2>1. Others("user") /\ UNCHANGED <<inst, lost, task, lock>>
    BY <1>8, UserMakesEffect
  <2>2. \A t \in Tasks : lock = t /\ Served(t) => Served(t)'
    BY <1>3, <1>4, <2>1
  <2>3. call'["monitor"] = call["monitor"]
    BY SMTT(60), <1>3, <2>1 DEF Others
  <2>4. QED
    BY <1>1, <1>2, <2>1, <2>2, <2>3
<1>9. CASE UserDestroys \/ Halts
  BY <1>1, <1>9 DEF UserDestroys, Destroy, Halts, Halt
<1>10. CASE Notices
  <2>1. UNCHANGED <<call, task, lock, lost>> /\ Up' = Up /\ Up \subseteq Live
    BY <1>10, NoticeEffect DEF Up
  <2>2. \A i \in Up : i \in Up' /\ Kin(i) /\ inst'[i].attached = inst[i].attached /\ inst'[i].ready = inst[i].ready
    BY <1>10, <2>1, NoticeEffect
  <2>3. \A t \in Tasks : lock = t /\ Served(t) => Served(t)'
    BY <1>3, <2>1, <2>2, ServedStays
  <2>4. QED
    BY <1>1, <1>2, <2>1, <2>3
<1>11. CASE UNCHANGED vars
  <2>1. UNCHANGED <<inst, call, lost, task, lock, raced>>
    BY <1>11 DEF vars, cloudVars
  <2>2. \A t \in Tasks : lock = t /\ Served(t) => Served(t)'
    BY <1>3, <1>4, <2>1
  <2>3. QED
    BY <1>1, <2>1, <2>2
<1>12. QED
  BY <1>5, <1>6, <1>7, <1>8, <1>9, <1>10, <1>11 DEF Next, Task

-----------------------------------------------------------------------------
(*                         Service, or an error                            *)

\* An instance that serves is not given up by any call.
LEMMA ServiceMaking ==
    ASSUME TypeOK, IdInv, HaltInv, NEW m \in {"monitor", "user"}, Making(m), "instance" \notin lost, Served0
    PROVE  Served0'
<1>1. m \in Makers /\ Make(m)
  BY MonitorAssumption DEF Making
<1>2. PICK i \in Up : inst[i].ready
  BY DEF Served0
<1>3. i \in Live /\ i \in Insts /\ inst[i] # NoInst
  BY <1>2 DEF Up, Live
<1>4. CASE inst'[i] = inst[i]
  <2>1. i \in Up'
    BY <1>2, <1>3, <1>4 DEF Up, Live
  <2>2. QED
    BY <1>2, <1>4, <2>1 DEF Served0
<1>5. CASE Boot(m)
  BY <1>1, <1>2, <1>4, <1>5, BootEffect
<1>6. CASE Volume(m) \/ Tag(m)
  BY <1>1, <1>4, <1>6, VolumeEffect, TagEffect
<1>7. CASE Launch(m)
  BY <1>1, <1>3, <1>4, <1>7, LaunchEffect
<1>8. ASSUME call[m].at \in InFlight, Taken(call[m].id) PROVE Served0'
  <2>1. i # call[m].id
    BY <1>1, <1>2, <1>3, <1>8 DEF IdInv
  <2>2. QED
    BY <1>3, <1>4, <1>8, <2>1 DEF Taken
<1>9. CASE inst' = inst
  BY <1>4, <1>9
<1>10. CASE Attach(m)
  <2>1. call[m].at \in InFlight
    BY <1>1, <1>10, AttachEffect DEF InFlight
  <2>2. CASE /\ Up' = Up /\ inst'[call[m].id].ready = inst[call[m].id].ready
             /\ \A j \in Insts \ {call[m].id} : inst'[j] = inst[j]
    BY <1>2, <1>3, <2>2 DEF Served0
  <2>3. QED
    BY <1>1, <1>8, <1>9, <1>10, <2>1, <2>2, AttachEffect
<1>11. CASE Restore(m) \/ Configure(m)
  BY <1>1, <1>8, <1>9, <1>11, RestoreEffect, ConfigureEffect DEF InFlight
<1>12. CASE Upload(m)
  <2>1. CASE /\ Up' = Up /\ inst'[call[m].id].ready
             /\ \A j \in Insts \ {call[m].id} : inst'[j] = inst[j]
    BY <1>2, <1>3, <2>1 DEF Served0
  <2>2. QED
    BY <1>1, <1>9, <1>12, <2>1, UploadEffect
<1>13. QED
  BY <1>1, <1>5, <1>6, <1>7, <1>10, <1>11, <1>12 DEF Make

LEMMA ServiceNext ==
    TypeOK /\ LockInv /\ NoteInv /\ CallInv /\ IdInv /\ HaltInv /\ ServiceInv /\ [Next]_vars => ServiceInv'
<1> SUFFICES ASSUME TypeOK, LockInv, NoteInv, CallInv, IdInv, HaltInv, ServiceInv, [Next]_vars,
                    "instance" \notin lost', \E t \in Tasks : task'[t] # NoTask
             PROVE  Served0' \/ Rotates' \/ Failed'
  BY DEF ServiceInv
<1>1. /\ "instance" \notin lost /\ lock \in Tasks \cup {0} /\ 0 \notin Tasks /\ "monitor" \in Makers /\ "user" \in Makers
      /\ (\E t \in Tasks : task[t] # NoTask) => Served0 \/ Rotates \/ Failed
  BY LostStays, TasksAssumption, MonitorAssumption DEF TypeOK, ServiceInv
<1>2. inst' = inst /\ Served0 => Served0'
  BY DEF Served0, Up, Live
<1>3. ASSUME NEW t \in Tasks, OtherTasks(t), task[t] # NoTask /\ task[t].at # "over", Failed PROVE Failed'
  <2>1. PICK u \in Tasks : task[u] # NoTask /\ task[u].note = "error"
    BY <1>3 DEF Failed
  <2>2. task[u].at = "over"
    BY <2>1 DEF NoteInv
  <2>3. task'[u] = task[u]
    BY <1>3, <2>2 DEF OtherTasks
  <2>4. QED
    BY <2>1, <2>3 DEF Failed
<1>4. CASE Event
  <2>1. inst' = inst /\ Served0
    BY <1>4, EventEffect DEF Served0
  <2>2. QED
    BY <1>2, <2>1
<1>5. ASSUME NEW t \in Tasks, Run(t) PROVE Served0' \/ Rotates' \/ Failed'
  <2>1. t # 0 /\ task[t] # NoTask /\ task[t].at # "over"
    BY <1>1, <1>5 DEF Run, Lock, Disk, Filesystem, DestroyOld, StartNew, Started, Report, TypeOK
  <2>2. CASE Lock(t)
    <3>1. inst' = inst /\ OtherTasks(t) /\ lock = 0
      BY <2>2, LockEffect
    <3>2. QED
      BY <1>1, <1>2, <1>3, <2>1, <3>1 DEF Rotates
  <2>3. CASE Disk(t) \/ Filesystem(t)
    <3>1. inst' = inst /\ OtherTasks(t) /\ lock = t /\ task[t].at \in {"disk", "fs"}
      BY <2>3, DiskEffect DEF Steps
    <3>2. QED
      BY <1>1, <1>2, <1>3, <2>1, <3>1 DEF Rotates
  <2>4. CASE DestroyOld(t)
    BY <2>1, <2>4, DestroyOldEffect DEF Steps, Rotates
  <2>5. CASE StartNew(t)
    BY <2>1, <2>5, StartNewEffect DEF Steps, Rotates, Ends
  <2>6. CASE Started(t)
    <3>1. /\ lock = t /\ lock' = t /\ task[t].at = "create" /\ Idle("monitor") /\ inst' = inst
          /\ Steps(t, "end", call["monitor"].at = "error")
      BY <2>6, StartedEffect
    <3>2. CASE call["monitor"].at = "error"
      BY <2>1, <3>1, <3>2 DEF Steps, Rotates
    <3>3. CASE call["monitor"].at = "ok"
      BY <1>1, <1>2, <1>3, <2>1, <3>1, <3>3 DEF Steps, Rotates
    <3>4. QED
      BY <2>1, <3>1, <3>2, <3>3 DEF Idle, CallInv
  <2>7. CASE Report(t)
    <3>1. lock = t /\ task[t].at = "end" /\ inst' = inst /\ OtherTasks(t) /\ task'[t] # NoTask
      BY <2>7, ReportEffect
    <3>2. CASE task[t].err
      BY <2>7, <3>1, <3>2, ReportEffect DEF Failed
    <3>3. CASE ~task[t].err
      BY <1>1, <1>2, <1>3, <2>1, <3>1, <3>3 DEF Rotates
    <3>4. QED
      BY <3>2, <3>3
  <2>8. QED
    BY <1>5, <2>2, <2>3, <2>4, <2>5, <2>6, <2>7 DEF Run
<1>6. ASSUME NEW m \in {"monitor", "user"}, Making(m) PROVE Served0' \/ Rotates' \/ Failed'
  <2>1. m \in Makers /\ ~Idle(m) /\ Others(m) /\ task' = task /\ lock' = lock /\ Make(m)
    BY <1>6, MakingEffect DEF Making
  <2>2. (Served0 => Served0') /\ (Failed => Failed')
    BY <1>1, <1>6, <2>1, ServiceMaking DEF Failed
  <2>3. CASE m = "user"
    <3>1. call'["monitor"] = call["monitor"]
      BY <1>1, <2>1, <2>3 DEF Others
    <3>2. Rotates => Rotates'
      BY <2>1, <3>1 DEF Rotates
    <3>3. QED
      BY <1>1, <2>1, <2>2, <3>2
  <2>4. CASE m = "monitor"
    <3>1. lock # 0 /\ task[lock].at = "create"
      BY <2>1, <2>4 DEF CallInv
    <3>2. CASE call'["monitor"].at # "ok"
      BY <2>1, <3>1, <3>2 DEF Rotates
    <3>3. CASE call'["monitor"].at = "ok"
      <4>1. CASE Boot(m)
        BY <1>1, <2>1, <2>4, <3>3, <4>1, BootEffect DEF HaltInv, Ends
      <4>2. CASE Upload(m)
        BY <2>1, <2>4, <3>3, <4>2, UploadEffect DEF Ends, Served0
      <4>3. CASE Volume(m) \/ Launch(m) \/ Attach(m) \/ Restore(m) \/ Tag(m) \/ Configure(m)
        BY <2>1, <2>4, <3>3, <4>3, VolumeEffect, LaunchEffect, AttachEffect, RestoreEffect, TagEffect, ConfigureEffect
           DEF Ends, Goes
      <4>4. QED
        BY <2>1, <4>1, <4>2, <4>3 DEF Make
    <3>4. QED
      BY <3>2, <3>3
  <2>5. QED
    BY <2>3, <2>4
<1>7. CASE UserMakes
  <2>1. Others("user") /\ UNCHANGED <<inst, task, lock>>
    BY <1>7, UserMakesEffect
  <2>2. call'["monitor"] = call["monitor"]
    BY SMTT(60), <1>1, <2>1 DEF Others
  <2>3. QED
    BY <1>1, <1>2, <2>1, <2>2 DEF Rotates, Failed
<1>8. CASE UserDestroys \/ Halts
  BY <1>8 DEF UserDestroys, Destroy, Halts, Halt
<1>9. CASE Notices
  <2>1. UNCHANGED <<call, task, lock>> /\ Up' = Up /\ Up \subseteq Live /\ \A i \in Live : inst'[i].ready = inst[i].ready
    BY <1>9, NoticeEffect DEF Up
  <2>2. QED
    BY <1>1, <2>1 DEF Served0, Rotates, Failed
<1>10. CASE UNCHANGED vars
  BY <1>1, <1>2, <1>10 DEF vars, cloudVars, Rotates, Failed
<1>11. QED
  BY <1>4, <1>5, <1>6, <1>7, <1>8, <1>9, <1>10 DEF Next, Task

-----------------------------------------------------------------------------
(*                                Theorems                                 *)

LEMMA InvInit == Init => IInv
<1> SUFFICES ASSUME Init PROVE IInv
  OBVIOUS
<1>1. TypeOK
  BY TypeInit
<1>2. /\ lock = 0 /\ ~raced /\ ~moved /\ lost = {} /\ vol = NoVol
      /\ \A t \in Tasks : task[t] = NoTask
      /\ \A m \in Makers : call[m].at = "idle" /\ ~call[m].spot
      /\ Live = {} /\ Stopped = {}
  BY DEF Init, CloudInit, NotCalling, Live, Stopped, Up
<1>3. LockInv /\ NoteInv /\ CallInv /\ IdInv
  BY <1>2, MonitorAssumption DEF LockInv, NoteInv, CallInv, IdInv, InFlight, Idle, Rotating
<1>4. HaltInv /\ OwnInv /\ AloneInv /\ AskedInv /\ TagInv
  BY <1>2 DEF HaltInv, OwnInv, AloneInv, AskedInv, TagInv, InFlight
<1>5. DemandInv /\ RotationInv /\ ServiceInv
  BY <1>2, TasksAssumption DEF DemandInv, RotationInv, ServiceInv
<1>6. QED
  BY <1>1, <1>3, <1>4, <1>5 DEF IInv

LEMMA InvNext == IInv /\ [Next]_vars => IInv'
<1> SUFFICES ASSUME IInv, [Next]_vars PROVE IInv'
  OBVIOUS
<1> USE DEF IInv
<1>1. TypeOK'
  BY TypeNext
<1>2. LockInv' /\ NoteInv'
  BY <1>1, LockNext, NoteNext
<1>3. CallInv'
  BY <1>1, <1>2, CallNext
<1>4. IdInv' /\ HaltInv' /\ OwnInv'
  BY IdNext, HaltNext, OwnNext
<1>5. AloneInv' /\ AskedInv' /\ TagInv'
  BY <1>1, AloneNext, AskedNext, TagNext
<1>6. DemandInv'
  BY <1>1, <1>3, DemandNext
<1>7. RotationInv' /\ ServiceInv'
  BY <1>1, RotationNext, ServiceNext
<1>8. QED
  BY <1>1, <1>2, <1>3, <1>4, <1>5, <1>6, <1>7

\* The inductive invariant: every state that can be reached satisfies all of its parts.
THEOREM Invariance == Spec => []IInv
  BY InvInit, InvNext, PTL DEF Spec

\* A set all of whose members are the same has one member at most.
LEMMA AtMostOne == ASSUME NEW S, \A i, j \in S : i = j PROVE Cardinality(S) <= 1
<1>1. CASE S = {}
  BY <1>1, FS_EmptySet
<1>2. CASE S # {}
  <2>1. PICK x \in S : TRUE
    BY <1>2
  <2>2. S = {x}
    BY <2>1
  <2>3. QED
    BY <2>2, FS_Singleton
<1>3. QED
  BY <1>1, <1>2

\* No maker ever has two live instances of its own, and unless a user's command overlapped a
\* rotation there is one in all: the volume is not handed to two.
THEOREM OneInstanceHolds == Spec => []OneInstance
<1>1. IInv => OneInstance
  <2> SUFFICES ASSUME IInv PROVE OneInstance
    OBVIOUS
  <2>1. ASSUME NEW m \in Makers PROVE Cardinality({i \in Live : inst[i].by = m}) <= 1
    BY AtMostOne DEF IInv, OwnInv
  <2>2. ~raced => Cardinality(Live) <= 1
    BY AtMostOne DEF IInv, AloneInv
  <2>3. QED
    BY <2>1, <2>2 DEF OneInstance, IInv
<1>2. QED
  BY Invariance, <1>1, PTL

\* With no call in flight, no overlap and no tag write lost, the tags of the volume give the type of
\* the live instance that has it, and spot only falls short of them by the fallback.
THEOREM TagsDescribeInstanceHolds == Spec => []TagsDescribeInstance
<1>1. IInv => TagsDescribeInstance
  BY DEF IInv, TagInv, TagsFit, Tagging, TagsDescribeInstance, Idle
<1>2. QED
  BY Invariance, <1>1, PTL

\* Once a rotation to on-demand was reported done, no task puts the name back on a spot instance.
THEOREM OnDemandSticksHolds == Spec => []OnDemandSticks
<1>1. IInv => OnDemandSticks
  BY DEF IInv, DemandInv, OnDemand, OnDemandSticks
<1>2. QED
  BY Invariance, <1>1, PTL

\* A rotation that reports done has left an instance that runs, serves the volume and is what was
\* decided; and when nothing runs after the tasks, one of them has reported an error.
THEOREM ReportsAreTrueHolds == Spec => []ReportsAreTrue
<1>1. IInv => ReportsAreTrue
  <2> SUFFICES ASSUME IInv PROVE ReportsAreTrue
    OBVIOUS
  <2>1. 0 \notin Tasks
    BY TasksAssumption
  <2>2. ASSUME NEW t \in Tasks, lock = t, task[t].at = "end", ~task[t].err, task[t].kind # "disk", ~raced, "instance" \notin lost
        PROVE  Served(t)
    BY <2>2 DEF IInv, RotationInv
  <2>3. ASSUME lock = 0, "instance" \notin lost, Up = {}, NEW t \in Tasks, task[t] # NoTask
        PROVE  Failed
    BY <2>3 DEF IInv, ServiceInv, Served0, Rotates
  <2>4. QED
    BY <2>2, <2>3 DEF ReportsAreTrue, Served, Failed
<1>2. QED
  BY Invariance, <1>1, PTL

=============================================================================
