----------------------------- MODULE IngestRun -----------------------------
(***************************************************************************)
(* One AGI host over several lives of its ingest process: the pipeline of  *)
(* cmdAgiExecIngest.run over the embedded store, the files it leaves on    *)
(* disk between lives (steps.json, log-processor.json, cf-processor.json,  *)
(* the dirty marker) and the two wipes a start may do.  A log line yields one row.  A row is *)
(* in resultsChan, then in a batcher shard, then in Pebble's memtable,     *)
(* then on disk; only the last survives the process, unless WAL is on.     *)
(*                                                                         *)
(* mode.service is `agi exec service`, which owns the store and keeps it   *)
(* open after the pipeline; else `agi exec ingest`, which owns it for the  *)
(* length of one pipeline.                                                 *)
(***************************************************************************)
EXTENDS Integers, FiniteSetsExt, Functions

CONSTANTS
    Files,    \* log files
    CfFiles,  \* collectinfo files: one row each
    Ahead,    \* lines the scanner's buffer may hold beyond the line read
    Modes     \* the hosts looked at

\* lines: of each log file; async: collectinfo is processed beside the logs;
\* upgrade: the host first boots with a store of the previous version;
\* prepFails: listing the logs or saving the progress may fail; storeFails: the
\* store may fail to commit a batch or to flush; readFails: a log file may not
\* open, panic its parser or end early, a collectinfo file may not be processed;
\* boots: bound on the lives of the process.
ASSUME IngestAssumption ==
    /\ Ahead \in Nat
    /\ Modes \subseteq
          [lines : Nat \ {0}, boots : Nat \ {0}, service : BOOLEAN, wal : BOOLEAN,
           async : BOOLEAN, upgrade : BOOLEAN, prepFails : BOOLEAN,
           storeFails : BOOLEAN, readFails : BOOLEAN, canCrash : BOOLEAN,
           canStop : BOOLEAN]

VARIABLE mode  \* the host, one of Modes; never changes

Lines   == mode.lines
Service == mode.service
Wal     == mode.wal

Early   == <<"Download", "Unpack", "PreProcess">>
Process == {"ProcessLogs", "ProcessCollectInfo"}
Stages  == Range(Early) \cup Process
LogRows == Files \X (1..Lines)
Rows    == LogRows \cup CfFiles

VARIABLES
    disk,     \* the rows in SSTables
    oldDb,    \* the store on disk has the previous version's layout
    marker,   \* the dirty marker exists
    steps,    \* the stages steps.json calls complete
    logFile,  \* log-processor.json
    cfFile,   \* cf-processor.json: the files attempted in vain
    phase,    \* where the process is
    prog,     \* i.progress.LogProcessor.Files
    read,     \* read[f]: lines of f scanned in this life
    gaveUp,   \* log files whose parser returned without finishing them
    chan,     \* rows in resultsChan or held by a worker
    batch,    \* rows in the batcher's shards
    mem,      \* rows in the memtable
    batcher,  \* i.putBatcher: "open", "closed" (its channels are) or "nil"
    cf,       \* collectinfo files processed in this life
    cfOn,     \* the collectinfo goroutine: "wait", "run" or "done"
    cfBad,    \* i.progress.CollectinfoProcessor.Files: both attempt flags set
    closing,  \* where Ingest.Close is
    signal,   \* the ingest signal handler has woken
    boots, ended, \* history: lives so far, how the last one ended
    excused   \* history: rows a named part of the code has given up

saved == <<logFile, cfFile>>
files == <<disk, oldDb, marker, steps, saved>>
rows  == <<chan, batch, mem>>
logs  == <<prog, read, gaveUp>>
infos == <<cf, cfOn, cfBad>>
work  == <<logs, infos>>
life  == <<batcher, closing, signal>>
past  == <<boots, ended>>
hostVars == <<files, rows, work, life, past, phase, excused, mode>>

Fresh == [f \in Files |-> [pos |-> 0, fin |-> FALSE]]
AllFinished == [f \in Files |-> [pos |-> Lines, fin |-> TRUE]]

HostInit ==
    /\ mode \in Modes
    /\ disk = {} /\ oldDb = mode.upgrade /\ marker = FALSE
    /\ steps = IF mode.upgrade THEN Stages ELSE {}
    /\ logFile = (IF mode.upgrade THEN AllFinished ELSE Fresh) /\ cfFile = {}
    /\ phase = "down" /\ prog = Fresh /\ read = [f \in Files |-> 0]
    /\ gaveUp = {} /\ cfBad = {} /\ chan = {} /\ batch = {} /\ mem = {}
    /\ batcher = "nil" /\ cf = {} /\ cfOn = "wait" /\ closing = "no"
    /\ signal = FALSE /\ boots = 0 /\ ended = "never" /\ excused = {}

-----------------------------------------------------------------------------
(* Start: the crash-safety check, the wipe, db.Open, finalizeInit.          *)

WipeDue == marker /\ ~Wal

Boot ==
    /\ phase = "down" /\ boots < mode.boots
    /\ boots' = boots + 1
    /\ phase' = IF WipeDue THEN "wipe_db" ELSE "open"
    /\ UNCHANGED <<files, rows, work, life, ended>>

\* Bug: the wipe clears the marker before anything else.
WipeDbMarkerFirst ==
    /\ phase = "wipe_db" /\ phase' = "wipe_progress"
    /\ disk' = {} /\ oldDb' = FALSE /\ marker' = FALSE
    /\ UNCHANGED <<steps, saved, rows, work, life, past>>

\* agiWipeOnDirty: four steps, a crash may fall between any two.
WipeDb ==
    /\ phase = "wipe_db" /\ phase' = "wipe_progress"
    /\ disk' = {} /\ oldDb' = FALSE
    /\ UNCHANGED <<marker, steps, saved, rows, work, life, past>>

WipeProgress ==
    /\ phase = "wipe_progress" /\ phase' = "wipe_steps"
    /\ logFile' = Fresh
    /\ UNCHANGED <<disk, oldDb, marker, steps, cfFile, rows, work, life, past>>

\* Bug: the wipe leaves the ProcessLogs flag of steps.json.
WipeStepsKeeps ==
    /\ phase = "wipe_steps" /\ phase' = "wipe_marker"
    /\ UNCHANGED <<files, rows, work, life, past>>

WipeSteps ==
    /\ phase = "wipe_steps" /\ phase' = "wipe_marker"
    /\ steps' = steps \ Process
    /\ UNCHANGED <<disk, oldDb, marker, saved, rows, work, life, past>>

WipeMarker ==
    /\ phase = "wipe_marker" /\ phase' = "open"
    /\ marker' = FALSE
    /\ UNCHANGED <<disk, oldDb, steps, saved, rows, work, life, past>>

WipeOnDirty == WipeDb \/ WipeProgress \/ WipeSteps \/ WipeMarker

\* db.Open refuses the old layout; agiWipeOnVersionMismatch: rm db, rm
\* steps.json, rm the progress directory, which the marker is in.
WipeOnVersionMismatch ==
    \/ /\ phase = "open" /\ oldDb /\ phase' = "mismatch_steps"
       /\ disk' = {} /\ oldDb' = FALSE
       /\ UNCHANGED <<marker, steps, saved, rows, work, life, past>>
    \/ /\ phase = "mismatch_steps" /\ phase' = "mismatch_progress"
       /\ steps' = {}
       /\ UNCHANGED <<disk, oldDb, marker, saved, rows, work, life, past>>
    \/ /\ phase = "mismatch_progress" /\ phase' = "open"
       /\ logFile' = Fresh /\ cfFile' = {} /\ marker' = FALSE
       /\ UNCHANGED <<disk, oldDb, steps, rows, work, life, past>>

\* finalizeInit: progress is loaded, the marker dropped, the batcher started.
FinalizeInit ==
    /\ phase = "open" /\ ~oldDb /\ phase' = "stages"
    /\ prog' = logFile /\ cfBad' = cfFile /\ marker' = TRUE /\ batcher' = "open"
    /\ UNCHANGED <<disk, oldDb, steps, saved, rows, read, gaveUp, cf, cfOn,
                   closing, signal, past>>

-----------------------------------------------------------------------------
(* The pipeline of cmdAgiExecIngest.run.                                    *)

\* A life ends: what was in memory is gone, except what WAL or db.Close kept.
Die(kept, how) ==
    /\ disk' = disk \cup kept \cup (IF Wal THEN mem ELSE {})
    /\ phase' = "down" /\ ended' = how
    /\ chan' = {} /\ batch' = {} /\ mem' = {}
    /\ prog' = Fresh /\ read' = [f \in Files |-> 0] /\ gaveUp' = {}
    /\ cf' = {} /\ cfOn' = "wait" /\ cfBad' = {}
    /\ batcher' = "nil" /\ closing' = "no" /\ signal' = FALSE
    /\ UNCHANGED <<oldDb, marker, steps, saved, boots>>

\* Download, Unpack and PreProcess: each runs once and is then persisted.
EarlyStage ==
    /\ phase = "stages"
    /\ \E i \in 1..3 :
        /\ \A j \in 1..(i - 1) : Early[j] \in steps
        /\ Early[i] \notin steps
        /\ steps' = steps \cup {Early[i]}
        /\ phase' = IF i = 3 THEN "prep" ELSE phase
    /\ UNCHANGED <<disk, oldDb, marker, saved, rows, work, life, past>>

\* A stage fails: run returns, nothing is persisted for it.
StageFails ==
    /\ phase = "stages" /\ Range(Early) \ steps # {}
    /\ phase' = "finished"
    /\ UNCHANGED <<files, rows, work, life, past>>

\* The early stages were done in an earlier life.
StagesDone ==
    /\ phase = "stages" /\ Range(Early) \subseteq steps
    /\ phase' = IF "ProcessLogs" \in steps THEN "logsdone" ELSE "reprep"
    /\ UNCHANGED <<files, rows, work, life, past>>

\* The line a file is resumed at: two buffers before the saved position.
ResumeAt(p) == IF p.pos < Lines /\ p.pos > 2 * Ahead THEN p.pos - 2 * Ahead ELSE 0

\* ProcessLogsPrep saves the merged list; ProcessLogs starts the parsers.
Prep ==
    /\ phase \in {"prep", "reprep"} /\ phase' = "logs"
    /\ logFile' = prog /\ cfFile' = cfBad
    /\ read' = [f \in Files |-> ResumeAt(prog[f])]
    /\ UNCHANGED <<disk, oldDb, marker, steps, rows, prog, gaveUp, infos, life, past>>

\* Its error ends the run; but inside ProcessLogs, where it is called when
\* PreProcess was done by an earlier life, it goes to nerr and the run goes on.
PrepError ==
    /\ mode.prepFails
    /\ \/ phase = "prep" /\ phase' = "finished"
       \/ phase = "reprep" /\ phase' = "logsdone"
    /\ UNCHANGED <<files, rows, work, life, past>>

\* A parser is at work on f.
Parsing(f) == phase = "logs" /\ ~prog[f].fin /\ f \notin gaveUp

\* processLogFile: scan a line and push its row.
ScanLine(f) ==
    /\ Parsing(f) /\ read[f] < Lines
    /\ read' = [read EXCEPT ![f] = @ + 1]
    /\ chan' = chan \cup {<<f, read[f] + 1>>}
    /\ UNCHANGED <<files, phase, prog, gaveUp, infos, batch, mem, life, past>>

\* The position recorded is the reader's, up to a buffer ahead of the line.
NotePosition(f) ==
    /\ Parsing(f) /\ read[f] > 0
    /\ \E p \in read[f]..Min({Lines, read[f] + Ahead}) :
           prog' = [prog EXCEPT ![f].pos = p]
    /\ UNCHANGED <<files, phase, read, gaveUp, infos, rows, life, past>>

\* Scan returned FALSE: at the end of the file, but also at a line longer than
\* the buffer or a failed read, and nothing asks s.Err() after the loop.
FinishFile(f) ==
    /\ Parsing(f) /\ (read[f] = Lines \/ mode.readFails)
    /\ prog' = [prog EXCEPT ![f] = [pos |-> Lines, fin |-> TRUE]]
    /\ UNCHANGED <<files, phase, read, gaveUp, infos, rows, life, past>>

\* The file did not open, its parser panicked, or s.Err() was seen in the loop:
\* the goroutine returns, and the stage goes on without the file.
GiveUpFile(f) ==
    /\ mode.readFails /\ Parsing(f)
    /\ gaveUp' = gaveUp \cup {f}
    /\ UNCHANGED <<files, phase, prog, read, infos, rows, life, past>>

\* A worker hands a row to the batcher; with the batcher gone it writes it
\* itself, and an error is logged. A send on the closed channel of a shard
\* panics, and so does one by a worker that read i.putBatcher before Close
\* cleared it, or a write to the handle that Close cleared.
PutData(r) ==
    /\ r \in chan
    /\ \/ /\ batcher = "open"
          /\ chan' = chan \ {r} /\ batch' = batch \cup {r}
          /\ UNCHANGED <<files, phase, work, mem, life, past>>
       \/ /\ batcher = "nil" /\ (closing \in {"progress", "db"} \/ Service)
          /\ chan' = chan \ {r}
          /\ mem' \in {mem \cup {r}} \cup (IF mode.storeFails THEN {mem} ELSE {})
          /\ UNCHANGED <<files, phase, work, batch, life, past>>
       \/ batcher # "open" /\ Die({}, "killed")

\* A flush of a shard: the rows are committed, or logged and dropped.
FlushShard ==
    /\ batch # {}
    /\ \E b \in (SUBSET batch) \ {{}} :
        /\ batch' = batch \ b
        /\ mem' \in {mem \cup b} \cup (IF mode.storeFails THEN {mem} ELSE {})
    /\ UNCHANGED <<files, phase, work, chan, life, past>>

\* Pebble writes the memtable out, on its own or for db.Flush and Compact.
MemtableFlush ==
    /\ mem # {} /\ disk' = disk \cup mem /\ mem' = {}
    /\ UNCHANGED <<oldDb, marker, steps, saved, phase, work, chan, batch,
                   life, past>>

\* wg.Wait returned: every parser has, with or without its file finished, and
\* the workers have emptied resultsChan.
LogsDone == phase = "logs" /\ chan = {} /\ \A f \in Files : ~Parsing(f)

\* Then Compact or Flush; the batcher is not drained.
LogsDurable ==
    /\ LogsDone
    /\ disk' = disk \cup mem /\ mem' = {} /\ phase' = "clear"
    /\ UNCHANGED <<oldDb, marker, steps, saved, work, chan, batch, life, past>>

\* Compact and Flush failed: the marker stays.
LogsNotDurable ==
    /\ mode.storeFails
    /\ LogsDone /\ phase' = "logsdone"
    /\ UNCHANGED <<files, work, rows, life, past>>

ClearMarker ==
    /\ phase = "clear" /\ phase' = "logsdone"
    /\ marker' = FALSE
    /\ UNCHANGED <<disk, oldDb, steps, saved, rows, work, life, past>>

-----------------------------------------------------------------------------
(* Collectinfo, the end of the pipeline, Ingest.Close and the end of a life. *)

StartCollectInfo ==
    /\ cfOn = "wait" /\ "ProcessCollectInfo" \notin steps
    /\ phase \in {"logsdone"} \cup (IF mode.async THEN {"reprep", "logs", "clear"} ELSE {})
    /\ cfOn' = "run"
    /\ UNCHANGED <<files, phase, rows, logs, cf, cfBad, life, past>>

\* A file is skipped if an earlier attempt failed, in this life or before. Else
\* its row is written with db.Put, past the batcher; reading it or asadm may
\* fail, which sets both attempt flags, and so may the Put, which sets none.
ProcessCollectInfoFile(c) ==
    /\ cfOn = "run" /\ c \notin cf /\ cf' = cf \cup {c}
    /\ \/ c \notin cfBad /\ mem' = mem \cup {c} /\ UNCHANGED cfBad
       \/ c \notin cfBad /\ mode.readFails /\ cfBad' = cfBad \cup {c} /\ UNCHANGED mem
       \/ (c \in cfBad \/ mode.storeFails) /\ UNCHANGED <<cfBad, mem>>
    /\ UNCHANGED <<files, phase, logs, cfOn, chan, batch, life, past>>

\* All files were looked at; or listing them failed before the first.
CollectInfoDone ==
    /\ cfOn = "run" /\ (cf = CfFiles \/ (cf = {} /\ mode.readFails))
    /\ cfOn' = "done"
    /\ UNCHANGED <<files, phase, rows, logs, cf, cfBad, life, past>>

\* Both flags are set and persisted, whatever nerr holds.
FinishSteps ==
    /\ phase = "logsdone"
    /\ cfOn = "done" \/ "ProcessCollectInfo" \in steps
    /\ phase' = "finished" /\ steps' = steps \cup Process
    /\ UNCHANGED <<disk, oldDb, marker, saved, rows, work, life, past>>

Pipeline == {"stages", "prep", "reprep", "logs", "clear", "logsdone"}

\* The handler of run; it is uninstalled when run returns.
Signal ==
    /\ mode.canStop /\ phase \in Pipeline /\ ~signal /\ boots < mode.boots
    /\ signal' = TRUE
    /\ UNCHANGED <<files, phase, rows, work, batcher, closing, past>>

\* saveProgressInterval.
SaveProgress ==
    /\ phase \in Pipeline /\ closing = "no"
    /\ logFile' = prog /\ cfFile' = cfBad
    /\ UNCHANGED <<disk, oldDb, marker, steps, phase, rows, work, life, past>>

\* Ingest.Close, by the handler or by run's defer: close the channels of the
\* batcher, wait for its shards, save the progress, close an owned store.
Close ==
    /\ UNCHANGED <<oldDb, marker, steps, phase, chan, batch, work, signal, past>>
    /\ \/ /\ closing = "no" /\ (signal \/ phase = "finished")
          /\ closing' = "drain" /\ batcher' = "closed"
          /\ UNCHANGED <<disk, saved, mem>>
       \/ /\ closing = "drain" /\ batch = {}
          /\ closing' = "progress" /\ batcher' = "nil"
          /\ UNCHANGED <<disk, saved, mem>>
       \/ /\ closing = "progress"
          /\ closing' = "db" /\ logFile' = prog /\ cfFile' = cfBad
          /\ UNCHANGED <<disk, mem, batcher>>
       \/ /\ closing = "db"
          /\ closing' = "done"
          /\ IF Service
             THEN UNCHANGED <<disk, mem>>
             ELSE disk' = disk \cup mem /\ mem' = {}
          /\ UNCHANGED <<saved, batcher>>

\* os.Exit(1) of the handler, without the deferred close of a shared store.
SignalExit == closing = "done" /\ signal /\ Die({}, "stopped")

\* run returned: the command ends, the service goes on serving.
RunReturns ==
    /\ closing = "done" /\ ~signal /\ phase = "finished"
    /\ \/ ~Service /\ Die(mem, "clean")
       \/ /\ Service /\ phase' = "serving"
          /\ UNCHANGED <<files, rows, work, life, past>>

\* The service is stopped: the plugin drains, d.Close flushes.
StopService ==
    mode.canStop /\ phase = "serving" /\ boots < mode.boots /\ Die(mem, "clean")

Crash == mode.canCrash /\ phase # "down" /\ boots < mode.boots /\ Die({}, "killed")

-----------------------------------------------------------------------------
(* History: the rows a named part of the code has given up, for the store   *)
(* on disk now.                                                             *)

\* Volatile while no marker would tell the next start of it: in particular what
\* the batcher's shards still hold when ProcessLogs clears the marker.
Unguarded == IF Wal \/ marker THEN {} ELSE chan \cup batch \cup mem

\* Refused by the store, or, with WAL, not yet in it when the process dies.
Dropped ==
    IF Wal \/ phase' # "down"
    THEN (chan \cup batch) \ (chan' \cup batch' \cup mem' \cup disk')
    ELSE {}

\* Never read by a file or a stage that is now flagged complete.
Unread ==
    {r \in LogRows :
        /\ ~prog[r[1]].fin /\ read[r[1]] < r[2]
        /\ (phase = "logs" /\ prog'[r[1]].fin) \/ "ProcessLogs" \in steps' \ steps}
    \cup ((cf' \ cf) \ mem')
    \cup (IF "ProcessCollectInfo" \in steps' \ steps THEN CfFiles \ cf ELSE {})

\* A wipe of the store takes the excuses with it: the rows are to be read again.
StoreWiped == phase' \in {"wipe_progress", "mismatch_steps"}

Excuse ==
    excused' = ((IF StoreWiped THEN {} ELSE excused)
                    \cup Unguarded' \cup Dropped \cup Unread) \ disk'

Step ==
    \/ Boot \/ WipeOnDirty \/ WipeOnVersionMismatch \/ FinalizeInit
    \/ EarlyStage \/ StagesDone \/ Prep
    \/ \E f \in Files : ScanLine(f) \/ FinishFile(f)
    \/ \E r \in LogRows : PutData(r)
    \/ FlushShard \/ LogsDurable \/ ClearMarker
    \/ StartCollectInfo \/ \E c \in CfFiles : ProcessCollectInfoFile(c)
    \/ CollectInfoDone \/ FinishSteps \/ Close \/ SignalExit \/ RunReturns

HostNext ==
    /\ \/ Step
       \/ StageFails \/ PrepError \/ \E f \in Files : NotePosition(f) \/ GiveUpFile(f)
       \/ MemtableFlush \/ LogsNotDurable \/ Signal \/ SaveProgress
       \/ StopService \/ Crash
    /\ UNCHANGED mode /\ Excuse

HostSpec == HostInit /\ [][HostNext]_hostVars

\* Goroutines run; systemd restarts the service (Restart=always).
HostFairSpec == HostSpec /\ WF_hostVars(Step /\ UNCHANGED mode /\ Excuse)

-----------------------------------------------------------------------------
(* Properties *)

\* Every variable holds what its Go counterpart can.
HostTypeOK ==
    /\ disk \subseteq Rows /\ excused \subseteq Rows
    /\ chan \subseteq LogRows /\ batch \subseteq LogRows /\ mem \subseteq Rows
    /\ {oldDb, marker, signal} \subseteq BOOLEAN /\ steps \subseteq Stages
    /\ {logFile, prog} \subseteq [Files -> [pos : 0..Lines, fin : BOOLEAN]]
    /\ read \in [Files -> 0..Lines] /\ gaveUp \subseteq Files
    /\ cf \subseteq CfFiles /\ cfBad \subseteq CfFiles /\ cfFile \subseteq CfFiles
    /\ phase \in Pipeline \cup {"down", "wipe_db", "wipe_progress", "wipe_steps",
           "wipe_marker", "mismatch_steps", "mismatch_progress", "open",
           "finished", "serving"}
    /\ batcher \in {"open", "closed", "nil"} /\ cfOn \in {"wait", "run", "done"}
    /\ closing \in {"no", "drain", "progress", "db", "done"}
    /\ mode \in Modes /\ boots \in 0..mode.boots /\ ended \in {"never", "killed", "stopped", "clean"}

\* The rows the files on disk say need no further work.
Claimed ==
    {r \in LogRows : \/ "ProcessLogs" \in steps
                     \/ logFile[r[1]].fin
                     \/ r[2] <= ResumeAt(logFile[r[1]])}
    \cup (IF "ProcessCollectInfo" \in steps THEN CfFiles ELSE {})

\* Between two lives, unless the next one is going to wipe, every row that
\* steps.json and log-processor.json say is done is on disk, except the rows
\* that a named part of the code has given up since the store was last wiped:
\* whatever the interleaving of parsers, batcher, saves, flushes, Close and
\* crashes, including a crash in the middle of agiWipeOnDirty.
OnlyExcusedRowsLost ==
    HostTypeOK /\ (phase = "down" /\ ~WipeDue /\ ~oldDb => Claimed \subseteq disk \cup excused)

\* Once the early stages are done, every row ends up in the store for good, or
\* is one of the excused ones: a wipe always leads to a new ingest, and Close,
\* the batcher and the pipeline never wait for each other for ever. A stage
\* that fails in every life is the exception, so a failing host promises nothing.
RowsArrive ==
    ~mode.prepFails =>
        <>[](Range(Early) \subseteq steps => Rows \subseteq disk \cup mem \cup excused)

\* processlogs.go: "the dirty marker can only be cleared after we know every Put
\* is on disk"; so when ProcessLogs clears it no row that its workers put is in
\* a shard of the batcher or in the memtable only.
MarkerClearedWhenDurable ==
    [][ClearMarker => (batch \cup mem) \cap LogRows \subseteq disk]_hostVars

\* dirtymarker.go: with WAL on "the progress checkpoint and DB state are still
\* consistent"; so between two lives every row that the files claim is on disk.
WalKeepsClaims == Wal /\ phase = "down" /\ ~oldDb => Claimed \subseteq disk

\* dirtymarker.go: the marker tells of a run that has not seen a clean shutdown;
\* so after one that left every row on disk there is nothing to wipe.
CleanStopKeepsDb == phase = "wipe_db" /\ Rows \subseteq disk => ended # "clean"
=============================================================================
