# A verification project for aerolab

aerolab builds and operates Aerospike clusters on AWS, GCP and Docker, and
analyses their logs with AGI: a host that downloads log files, parses them into
metrics, keeps those in an embedded store and serves them to Grafana. Most of
the repository is scripts of cloud and SSH calls. What is modelled here are the
parts with state of their own, with goroutines, crashes and an on-disk format:

- AGI itself: the store (`src/pkg/agi/db`), the ingest pipeline
  (`src/pkg/agi/ingest`), the Grafana plugin (`src/pkg/agi/plugin`) and the
  process that runs them together (`src/cli/cmd/v1/cmdAgiExecService.go`);
- what keeps AGI hosts alive: the monitor that resizes and replaces them, and
  the commands that create, start and destroy them
  (`cmdAgiMonitorListen.go`, `cmdAgiCreate.go`, `cmdAgiStart.go`);
- the web UI's job queue (`cmdWebUIJobs.go`, `cmdWebUI.go`,
  `cmdWebUIInventory.go`).

1. [The system](#1-the-system)
2. [Modules](#2-modules)
3. [Runs](#3-runs)
4. [Bounds](#4-bounds)
5. [Fairness](#5-fairness)
6. [Proofs](#6-proofs)
7. [Where the code and its comments part](#7-where-the-code-and-its-comments-part)
8. [What the models leave out](#8-what-the-models-leave-out)
9. [Plan](#9-plan)

To run one model: `tlc -config MCDbRow.cfg MCDbRow`; to check the proofs:
`tlapm DbRow_proofs.tla`, `tlapm DbSets_proofs.tla`, `tlapm WebJobs_proofs.tla`,
`tlapm AgiHost_proofs.tla`, `tlapm PluginReads_proofs.tla`,
`tlapm PutBatcher_proofs.tla`, `tlapm DbSchema_proofs.tla`,
`tlapm AgiMonitor_proofs.tla`.

## 1. The system

### How the parts of AGI interact

```
 S3 / SFTP / local --download--> files --preprocess--> log files, collectinfo
                                                        |            |
                     one parser per file  <-------------+            |
                        |   | label indexes, column names            |
              resultsChan   +----> labels set (cat rows, BINLIST)    |
                        |                     |                      |
                     workers                  |               collectinfo rows
                        |                     |                      |
                  putBatcher shards ----> db.PutBatch <--------------+
                                              |
                                        Pebble memtable --flush--> SSTables
                                              |
   Grafana --HTTP--> plugin handlers --scan/query--+   plugin cache <-- refresher
```

`agi exec service` is one process: it opens the store, starts ingest in a
goroutine and the plugin in the main one, shares the store between them, and on
SIGTERM stops them in order. `agi exec ingest` runs the pipeline alone.

```
   AGI host --events (spot notice, sizing)--> agi monitor --+
                                                            | destroy, resize,
   user: agi create / start / destroy ----------------------+ start --force
                                                            v
                         cloud: instances of the AGI name, one volume, its tags

   browser --HTTP--> web UI --job--> subprocess `aerolab ...` --> cloud
                       |  command.json, command.log per job
                       +- inventory cache (refresh under one mutex)
```

The monitor and the user's commands share nothing but the cloud: the instances
that carry the AGI's name, its volume, and the volume's tags, which hold the
settings the next instance is made with. The web UI runs every command as a
subprocess; its own state is the queue, the job records and the inventory.

### Inventory

| component | state | operations | hard behaviour | what makes it correct |
|---|---|---|---|---|
| db rows (`db/crud.go`, `index.go`) | D/ pointers, I/ entries, stripe locks | PutBatch, Put, Update, Delete, Get | read, stage and commit are separate steps; AssumeNew takes no lock; crash without WAL | the keyspaces agree; every call is atomic; every call returns |
| db iterators and queries (`db/scan.go`, `query.go`, `filter.go`) | a plan, a snapshot, a position | Scan, Query, Between, Where, Next | plan, layout and snapshot are read at three moments; decoding only what the plan wants; orphans | the answer is the table's at the moment of the snapshot |
| db sets (`db/db.go`) | name map, next ID, schema records, lifeMu, open iterators | ensureSet, DropSet, Close, Open | writers hold a `*setSchema` across a drop; three kinds of lock | nothing under a retired ID; no ID twice; no use after Close; no circular wait |
| db schema (`db/schema.go`) | columns, colIDs, indexed column, schema record | implicit registration, RegisterSet, DropColumn | encode, lock and commit are separate; persist may fail | a value never surfaces under another column; memory and disk agree |
| db encodings (`db/codec.go`, `wire.go`, `keys.go`) | none | order-preserving keys, row codec | numeric edges | order, bounds of a range; the bytes are for round-trip tests |
| ingest run (`ingest/init.go`, `dirtymarker.go`, `trackprogress.go`, `cmdAgiExecWipe.go`) | steps.json, log-processor.json, dirty marker, the pipeline's buffers | stages, save, flush, Close, two wipes, SIGTERM | crash between any two of them | what the files claim is on disk |
| put batcher (`ingest/putbatcher.go`) | shard channels, pending rows, timers | submit, flush, fallback, close | type races, failures half way | no row lost silently, order per key kept |
| label catalog (`ingest/processlogs.go`, `plugin/backendQueryAndCache.go`) | entries, ByCluster, BINLIST, `changed`, the plugin's cache | upsertMetaEntry, storeBinList, refresh, query | lock given up during a Put; stale caches | an index never changes meaning |
| merged service (`cmdAgiExecService.go`, `plugin/init.go`) | two semaphores, WaitGroups, profiler, signals | serve, shutdown, drain, force, Close, rotate | signals at any time, hung clients | ordered shutdown, no lost slot |
| agi monitor (`cmdAgiMonitorListen.go`) | execLock, goroutines per event | sizing, disk growth, spot rotation | decided at the event, done under the lock later; every cloud call may fail | one instance of a name, serving what was decided; reports are true |
| agi lifecycle commands (`cmdAgiCreate.go`, `cmdAgiStart.go`, ...) | the cloud: instances, volume, tags | create, start, stop, destroy | partial failure of a script of minutes | a failed create leaves nothing; tags describe the instance |
| web ui jobs (`cmdWebUIJobs.go`, `cmdWebUI.go`, `cmdWebUIInventory.go`) | jobs in memory, `command.json`, semaphore, pending counter, inventory | create, queue, run, cancel, stream, clean up, shutdown, load | concurrent saves of one record; restart while commands run on | a job's end is true, final and seen; slots and counter are given back |
| download, unpack, preprocess | files on disk, step flags | | network failures, resume | each file once |
| log parsing (`ingest/logstream.go`) | pattern tables, partial lines | | multi-line joins | |
| collectinfo (`ingest/processcf.go`) | attempt and processed flags | rename, asadm, put | failure between rename and asadm; a stage complete whatever failed | each file once; a file given up is known as such |
| plugin queries | windows, groups | timeseries, table, static, histogram | | |
| notifier, grafana fixer | none kept | outgoing HTTP | | |
| proxy (`cmdAgiExecProxy.go`) | shuttingDown, activity time | idle, uptime, spot monitors | one flag, several monitors | a shutdown once begun ends |
| backend inventory | maps per type, invalidation list, disk cache | refresh, poll, invalidate | reads beside the poll | a reader sees one refresh |
| backend objects, migration, cloud drivers, expiry, eks | cloud resources | API calls | partial failure | |
| ssh execution | sessions | exec, sftp | | |
| web UI server, MCP server | sessions | HTTP, subprocesses | | |
| utilities (shutdown handler, job queues, ...) | wait group, hooks | | lock held over a wait | |
| configuration editor, other CLI commands, telemetry, assets, vendored code | | | | |

`PROJECT.json` lists every one of these with its files and the reason when it
is not modelled, and the hazards of the code at their lines.

## 2. Modules

| module | models | code |
|---|---|---|
| `DbTable` | abstract: one set as a table on which each call takes effect at one instant, or fails | contract in the comments of `crud.go`, `doc.go` |
| `DbRow` | PutBatch, Update, Delete, Get on one indexed set, step by step | `crud.go`, `index.go`, `keys.go` |
| `DbRowInv` | properties of `DbRow`, the inductive invariant, the refinement mapping to `DbTable` | |
| `DbRow_proofs` | TLAPS proofs about `DbRow` | |
| `DbQuery` | Scan and Query on one set: plan, snapshot, walk, filters, beside writers | `scan.go`, `query.go`, `filter.go`, `keys.go`, `codec.go` |
| `DbSets` | creating, writing, scanning, dropping and reloading sets; Close | `db.go`, `schema.go`, `crud.go` |
| `DbSets_proofs` | TLAPS proofs about `DbSets` | |
| `DbSchema` | columns of one set while rows are written and read | `schema.go`, `crud.go`, `db.go` |
| `DbSchema_proofs` | TLAPS proofs about `DbSchema` | |
| `IngestRun` | a host over several lives of its ingest process | `init.go`, `dirtymarker.go`, `trackprogress.go`, `cmdAgiExecIngest.go`, `cmdAgiExecWipe.go`, `cmdAgiExecService.go` |
| `PutBatcher` | sharded batches, flush by number and age, fallback with coercion | `putbatcher.go`, `processlogs.go` |
| `PutBatcher_proofs` | TLAPS proofs about `PutBatcher`: where each row is; in what order and with which types it is written | |
| `LabelCatalog` | label indexes, BINLIST and its savers, the plugin's cache, one query | `processlogs.go`, `struct.go`, `trackprogress.go`, `backendQueryAndCache.go`, `queryTimeseries.go` |
| `PluginReads_proofs` | TLAPS proofs about what the plugin reads: `DbQuery` and `LabelCatalog` | |
| `AgiService` | main, HTTP handlers, refresher, profiler, signals, shutdown | `cmdAgiExecService.go`, `plugin/init.go`, `frontend*.go` |
| `AgiHost_proofs` | TLAPS proofs about an AGI host: `AgiService` and `IngestRun` | |
| `AgiCreate` | one AGI name in the cloud: agi create and start, step by step, and what else happens to instances | `cmdAgiCreate.go`, `cmdAgiStart.go`, `cmdInstancesDestroy.go` |
| `AgiMonitor` | composes `AgiCreate` with the monitor's events, decisions and tasks, and with a user | `cmdAgiMonitorListen.go` |
| `AgiMonitor_proofs` | TLAPS proofs about `AgiMonitor` and the `AgiCreate` it runs | |
| `WebJobs` | jobs of the web UI from request to cleanup, over several lives of the server | `cmdWebUIJobs.go`, `cmdWebUI.go`, `cmdWebUIInventory.go` |
| `WebJobs_proofs` | TLAPS proofs about `WebJobs` | |
| `MC...` | small instances (and, for `DbSets`, `DbSchema` and `PutBatcher`, the properties) | |

Each module has one action per step that another goroutine, or a crash, can see
between; the critical section of a mutex that nothing blocks under is one
action. `pc[p]` (or `exec[j]`, `call[m].at`, `task[t].at`) names the place in
the handler. Faulty variants (`StagePutKeepsOld`, `WipeDbMarkerFirst`,
`Spawn_Leak`, ...) stand before the definition they are a plausible bug of; no
`Next` uses them, and each property has one that breaks it. The type invariant
of a module is a conjunct of one of its properties where that property is
checked as an invariant anyway.

**DbRow.** State: `data` (D/: the pointer, which is the indexed value), `index`
(I/: the payload), `durable` (what a crash falls back to), `lock` (stripes), and
per goroutine the request, the place, the Pebble batch under construction and
what it has read. A locked writer takes its stripes in sorted order
(`LockStripe`), stages one item a step (`StageItem`: reads the stored pointer,
deletes the old entry, writes entry and pointer), and commits in one step, as
Pebble does (`Commit`, `CommitFails`). Update reads the pointer, the row, calls
`fn` and stages (`UpdateReadPointer`, `UpdateReadRow`, `UpdateApply`). Get makes
its two reads without a lock (`GetPointer`, `GetRow`). A batch whose items are
all AssumeNew takes no lock and reads nothing. `DbTable` is the same four calls
with one atomic effect. `AtomicCalls` says that `DbRow` implements it, the
table being the rows that pointers lead to. A lock-free Get that meets a row
being moved to another indexed value misses it, and `DbTable` allows it exactly
that: the abstract Get first locates its row (`Locate`; `filed` is the indexed
value it had then, in `DbRow` the pointer read and not yet followed), and answers
with the row stored at the moment it answers, unless that row is now filed
elsewhere (`Moved`), in which case it answers that there is none. No other Get
misses a row; one that did (`GetPointerTry`, a mutant) breaks the refinement.

**DbQuery.** State: the schema, D/ and I/ (rows keyed by colID, as the codec
stores them), and one iterator. `Run` resolves a plan from the schema (output
columns, columns needed for their value, columns needed only for their
presence), `Layout` reads again whether the set is clustered by its index,
`Snapshot` pins what the iterator will see, and `NextRecord` walks to one
record: decodes what the plan wants, skips an orphan where the pointer is
checked, asks the clauses and shapes the row. A filter is an expression tree in
the code; the model keeps what `eval` and `classifyFilterCols` see of one, its
leaves and which sets of them satisfy it, and `Not`, `And` and `Or` build the one
of a node from those of its operands. Indexed values go from `-Half` to
`Half - 1`, biased to sort as unsigned, so that a range that ends at the largest
value steps the colID, as `indexRangeBounds` does. What is left of a walk is a
set of records, of which the step takes the `First` by index key. `table` and `want` are histories:
the rows as their writers named them, and what the query should answer, computed
from the reference definition `Answer` at the moment of the snapshot. Writers
are one step each, which `AtomicCalls` justifies.

**DbSets.** State: the name map, `nextID`, the `dropped` flag of each schema
object, the disk (records, rows, next ID), stripes, `s.mu` of each set, Close's
wait for `lifeMu`, open iterators. A writer looks up or creates its set, keeps
the ID, may add a column (persist under `s.mu`), takes its stripe, checks
`dropped` and writes. DropSet unmaps the name, flags, drains all stripes, takes
`s.mu` and commits its batch, or fails. Close waits for everyone and refuses on
open iterators. A crash falls back to `durable` and Open reads the records back.

**DbSchema.** State: the schema in memory (`cols`, `next`, `index`), the disk
with its record, D/ and I/ rows by colID, `durable`, row locks, `s.mu`. A cell
of a row remembers which column it was written to and how often that column had
been dropped, so that a resurrected value is seen. Writers register columns
(fast path under the read lock, slow path under `s.mu` with the persist that may
fail and is rolled back), encode, take the row lock or not, snapshot the indexed
column and commit; RegisterSet and DropColumn run beside them.

**IngestRun.** A row is in `chan`, then in a batcher shard (`batch`), in the
memtable (`mem`), on `disk`; only the last survives, unless WAL is on. The files
between lives are `steps`, `logFile`, `cfFile` and `marker`. A life boots,
perhaps wipes (one action per removal, so that a crash comes between), goes
through the early stages, parses, notes positions with the scanner's look-ahead,
flushes, clears the marker, processes collectinfo beside or after the logs,
writes the steps and closes. SIGTERM runs Close beside the pipeline; a send on
the closed batcher ends the process.

Where reads fail (`readFails`), a parser marks its file finished although lines
are left (`FinishFile`: an overlong line or a read error ends `s.Scan()` like the
end of the file does), or returns without finishing it (`GiveUpFile`: the open
failed, the parser panicked, the error was seen in the loop); ProcessLogs goes on
to the flush, the marker and the flags in each case (`LogsDone`). A collectinfo
file that cannot be read or that asadm refuses is skipped for good (`cfBad`); one
whose Put fails is not, but its stage is complete all the same. `excused` is the
history of the rows given up in one of three named ways: `Unread`, by a file or a
stage flagged complete; `Dropped`, by the store, or by a death with WAL on before
they reached it; `Unguarded`, volatile while no marker was up. A wipe of the
store empties it, as the rows are then to be read again.

**PutBatcher.** Workers submit rows to the shard of their key; a shard gathers
by set, flushes at `FlushSize` or when the timer comes, prepares (learning the
types of columns nobody has written), commits, or falls back to one Put per row
with coercion to the types known by then, `MaxRetries` times; close drains.

**LabelCatalog.** Parsers resolve a label to an index, from their cache, from
the entries, or by adding one under `metaEntries.mu` and storing the label's row
with the lock held for that key; a failed Put is undone. Workers name columns
and put rows. Three callers of `storeBinList` copy the list, put it without the
lock and settle `changed`. The plugin refreshes its two copies on its own
schedule and runs a query in its steps: filter, read, name.

**AgiService.** `main` goes from Listen to exit. Each connection's handler is
dispatched, counted, takes a request slot, reads its body, takes a job slot,
opens an iterator and finishes; `/shutdown` and light handlers need no slot.
`srv` is draining after Shutdown, and forced once the timeout has cut the
connections. The profiler is process-wide: ingest, the coordinator that starts
the plugin's profile after ingest, and the SIGUSR1 rotator share it.

**AgiCreate.** State: the backend type, the instances that carry the AGI's name,
its volume with the settings in its tags, and the call each maker is in. A call
reads the inventory and decides (`BeginCreate`, `BeginStart`), then goes on with
what it decided: `Boot`, or `Volume`, `Launch`, `Attach`, `Restore`, `Tag`,
`Configure`, `Upload`, each of which may fail and then does the cleanup the code
does there, which may fail as well (`GiveUp`, `Cleaned`): the instance may stay
up, and the volume may stay. A step that fails need not have been without
effect: `Volume` and `Launch` may leave what they have made. An instance that
stays with the volume, since its `Restore` and then its Terminate failed, is in
the history `left`: the tags were not written for it.
On AWS a volume is shared (EFS) and a spot request may fall back to on-demand;
on GCP a volume is attached to one instance. `Halt`, `Destroy` and `Notice` are
what users and the cloud do besides.

**AgiMonitor.** EXTENDS `AgiCreate`: makers are the monitor and a user. `Event`
is the handler: it decides from the event and the sender's type what is to be
done (`SizeInstanceType`, `MoreRam`, `EnoughRam`, the disk's next size) and
starts a goroutine. A task takes `execLock`, grows disk and filesystem, destroys
what carries the name, starts a new instance and reports. Three histories say
what the properties must excuse: `raced` (a user's command overlapped a
rotation), `lost` (a tag write failed; an instance was halted or removed by
hand), `moved` (a rotation to on-demand was reported done).

**WebJobs.** State: the shared Job struct (`obj`), `command.json` and its
temporary file, the save each writer is in, the executor's place, semaphore and
pending counter, the subprocess, the canceller, the log stream, the cleaner and
the inventory's refresh. `SaveJob` is four steps: open (which truncates the one
temporary name), write through the descriptor, rename, remove after a failed
rename; a concurrent rename moves the descriptor's file to `command.json`, and
`Torn` is what two different records leave in one file. The executor's steps are
those of `executeCommand` and `executeJobAsync` with the deferred releases;
inventory actions take neither slot nor counter, as `handleInventoryAction`
does. `forceRefreshInventoryIfAllowed` is taken apart: the poll sees the jobs
that had ended when it began. A life ends by SIGTERM and drain or by a kill;
the next one loads what the files say, while subprocesses run on. The cleaner's
RemoveAll takes `command.json` and `command.log` (`gone`) and may fail half-way;
the map entry goes afterwards, so a stream may be opened on a job whose log is
no longer there. Each read of a stream may fail: in the loop that ends it with
an error, at the end it is dropped, and `cut` records that for the properties.

The modules are tied together by what one promises another: `DbQuery`,
`PutBatcher`, `LabelCatalog` and `IngestRun` use the store as `DbTable`
describes it (a batch is written whole or fails whole), `IngestRun` uses the
batcher as rows that arrive, fail with a log line or are lost with the process,
`AgiService` uses the ingest goroutine as one that ends, fails or is closed, and
the store as something that refuses to close under an iterator, and `AgiMonitor`
runs the very actions of `AgiCreate`.

## 3. Runs

| run | expects | shows |
|---|---|---|
| `row_calls` | pass | The two keyspaces agree, no pointer dangles, the proof's invariant holds, every call is atomic (`DbRow` implements `DbTable`) and returns, over failing commits, flushes and crashes. |
| `queries` | pass | Scans and queries with every kind of clause, begun and pinned between writes: what they deliver is the table's answer at the moment of the snapshot, and none of it is missed. |
| `sets_life` | pass | Nothing under a retired set ID, IDs not reused, the name map agrees with the records, nobody uses a closed store, no goroutines wait in a circle. |
| `schema_cols` | pass | A value never surfaces under another column or a re-added one; memory and record agree; on a set that keeps its indexed column stored rows stay readable and acknowledged values visible. |
| `ingest_lives` | pass | What the progress files claim is on disk, or a wipe is due, or a named part of the code has given the row up since the last wipe; where no early stage fails, every other row arrives in the store in the end. |
| `batcher` | pass | No row is lost silently, written twice, overtaken by an older one or stored under a wrong type; the retries suffice; all rows are settled and close returns. |
| `labels` | pass | An index never changes meaning, no value has two, no answer names the wrong label, the plugin's catalog catches up. |
| `service` | pass | Close waits for readers, the profile is never restarted or truncated by a shutdown, SIGTERM ends the process, no request starves. |
| `webjobs` | pass | One job that is watched and cancelled while its server drains, dies and starts again: the file never tells of an end that was not, a finished stream has shown the whole log unless its last read failed or the log was removed, ends are final, jobs end. |
| `webqueue` | pass | Three commands and one slot: slots and the pending counter belong to jobs on their way, and the end of a job shows in the inventory unless its refresh was skipped. |
| `monitor` | pass | Two accepted events and a user, every cloud call failing wherever it can: one live instance per name, tags that describe it, a rotation to on-demand that lasts, true reports, and no task that never reports. |
| `create_failed` | violation | An agi create that fails while it uploads or starts the services leaves its instance running. |

Some properties need a word.

- `OnlyExcusedRowsLost` and `RowsArrive` allow the loss of `excused` rows
  (`Unread`, `Dropped`, `Unguarded`; section 2). What the runs show is that nothing
  else is ever lost, and that an excuse does not outlive a wipe. The code's
  comments excuse less: `MarkerClearedWhenDurable` and `WalKeepsClaims` state what
  they promise, and do not hold (section 7).
- `RequestsAnswered` assumes that every client sends its body in the end;
  `TermStopsService` does not.
- `AnswersAreRight` leaves out two cases, by name. `Orphans`: with
  `IndexCanHaveOrphans` an orphan shows in walks that check no pointer (scans and
  full queries; only the index walk has the guard). `Late`: see section 7.
- `OneInstance` bounds the live instances of each maker unconditionally, and of
  all makers together as long as no command of the user overlapped a rotation:
  the monitor and the CLI share no lock, so an overlap can make two.
- `CacheCatchesUp` speaks of columns only while no two savers overlapped
  (`overlapped`), for the reason given in section 7.

Deadlock is not checked where the system may stop: goroutines that have made
their calls, a host that has used up its lives, a service that has exited, an
AGI nobody sends events for.

## 4. Bounds

| run | bound | why it is enough for the cases named |
|---|---|---|
| `row_calls` | 2 goroutines, keys 1 and 3 on stripes of their own, 2 indexed values, 2 payloads, 7 requests | two-key batches in both orders (lock order), a batch that names a key twice, one that fails on its second item, a move, a locked writer beside an AssumeNew one |
| `queries` | 2 keys, 3-bit indexed values, 4 kinds of row, 4 writes, 50 queries | ranges to both ends of the width, one that ends below zero; a column only asked for with Exists, one that is not known yet, one of another type; a move and a move back with an orphan between |
| `sets_life` | 2 goroutines, 1 name, 1 key, set IDs 1..2 | drop and re-creation of one name beside a writer that holds the old set |
| `schema_cols` | 2 goroutines, 1 key, columns ts and a, colIDs 0..2 | one drop and one re-add; `row[k]` of several keys are independent. The goroutines are symmetric (no liveness property here) |
| `ingest_lives` | 1 log file of up to 3 lines, 1 collectinfo file, look-ahead 1, at most 3 lives (2 of the host with two lines where everything may fail, 3 of one with one line) | fail, wipe, run again; a file that ends after none, one or all of its lines, then is wiped and read again; with WAL, a file longer than the look-ahead, killed but not stopped. `RowsArrive` promises nothing on the hosts whose early stages fail |
| `batcher` | 2 workers, 2 shards, 2 sets, 2 keys on one shard or on two, 5 rows, flush at 2, channel of 1, 3 tries | three types of one column, two racing columns, a batch that conflicts and one that commits with one key twice. `Routes` holds one of two symmetric spreads of the keys. The code's channel is `flushSize*4` and its limit 5: a row needs one try more than it has columns whose type is still being decided, so 3 is the limit that fits 2 columns |
| `labels` | 2 files of 2 clusters, 4 rows with 2 label values, at most 1 row in flight | a label both clusters share, one new column each, one failing Put or one restart |
| `service` | 2 clients, 2 request slots, 1 job slot, 1 SIGTERM, 1 SIGUSR1 | clients contend for the second semaphore while holding the first |
| `webjobs` | 1 job, 2 lives, 1 stream, 1 cancel in each life | two saves of one record, in any interleaving of their steps; a cancel around the end; a command that outlives its server |
| `webqueue` | 3 commands, 1 slot, 1 place in the queue, 1 life, the AGI status page open (it polls beside the jobs; closed in `webjobs`) | one runs, one waits, one is refused; a refresh by one job while another ends, beside the status poller's |
| `monitor` | 3 instances, 2 events, sizes 1..3 with 3 beyond the limit, disk to 2, 1 more command of the user | a second event of an instance that the first task replaces; a size that does not exist; a rotation whose destroy or create fails |

`mode` variables (`IngestRun`, `LabelCatalog`) pick a host at the start, so that
one run covers several configurations without their product; `guard` and
`becomes` (`DbQuery`), `assumeNew` (`DbSchema`) and `cloud`
(`AgiCreate`) are of the same kind.

In `queries` nothing is written once the snapshot is pinned: the walk reads the
snapshot and the plan, which writers do not reach, so its steps commute with
theirs.

## 5. Fairness

A goroutine that can run does run: weak fairness of its steps. Beyond that:

- `DbRow`: strong fairness of `LockStripe`. A Go mutex that a waiter has failed
  to get for a millisecond goes into starvation mode and is handed over in
  order; a waiter is not passed over for ever. Crash, Flush and failing commits
  are never forced.
- `PutBatcher`: the shards and `close`. Workers are not fair: they may stop
  submitting, which is the case in which only the timer writes the rows.
- `IngestRun`: the process's own steps, and Boot, since systemd restarts the
  service (`Restart=always`). Failures, signals, saves and crashes are not.
- `LabelCatalog`: parsers, worker, savers and the plugin's refresh. Failing Puts
  are bounded by `fails` and restarts by `lives`, without which nothing that
  must happen eventually could.
- `AgiService`: goroutines run; a blocked send on a channel is served first in,
  first out (Go's wait queues), hence strong fairness of taking a slot. A client
  owes nobody its body: reading it is fair only after its connection is cut.
- `WebJobs`: strong fairness of an executor's steps (the semaphore is a channel,
  the inventory a mutex, both queues), weak fairness of saves, subprocesses (each
  ends, or `--max-job-runtime` ends it), streams that were opened and the status
  poller's second half. Requests, cancellations, signals and restarts are not
  fair.
- `AgiMonitor`: the monitor's tasks and the calls they make, since every cloud
  call returns, with what nothing says. Events, users and the cloud owe nothing.

## 6. Proofs

All theorems hold for any value of the constants that satisfies the named
assumptions; TLC evaluates those on every run.

**`DbRow_proofs`**, for any number of goroutines, keys, stripes, indexed values,
payloads and requests that satisfy `ConstantsAssumption`, `OutcomesAssumption`
and `RequestsAssumption`:

- `TypesHold`: `TypeOK` and `LocalsOK`. `LocalsOK` is what makes it inductive: it
  says that a goroutine's locals fit its place (a pointer followed by `GetRow` is
  a pointer, `StageItem` has an item left).
- `PointersAlwaysResolve`: `PointersResolve`, for any callers. The strengthening
  is `BatchWellFormed`: a staged batch that sets a pointer also writes the entry
  it names, and one that leaves the pointer alone leaves the entries alone.
- `RowInvHolds` and `KeyspacesAgree`: `RowInv`, hence `IndexMatchesData` and
  `DurableMatches`, for callers with `AssumeNewContract`. Agreement of the
  keyspaces is not inductive: a commit preserves it only if the batch was
  computed from the pointer that is still stored. So `RowInv` adds that a
  goroutine past its locks holds the stripe of every key of its request
  (`HoldsItsLocks`), that what Update has read is still stored
  (`PointerIsFresh`), and that the batch, committed now, would leave exactly one
  entry for each row it sets and none for one it deletes
  (`BatchReplacesEntries`). Two lock holders never share a key, so another
  goroutine's commit does not disturb the last part. For keys written with
  AssumeNew no lock protects anything; there the argument is the contract: every
  writer gives the key the same indexed value. The contract has a conjunct the
  code does not write down: a batch that names a key twice gives it the same
  indexed value both times, since its second item reads the committed pointer,
  not the one staged by the first.
- `CallsAreAtomic`: `AtomicCalls`, the refinement of `DbTable`, under the same
  contract and `NewKeysNotUpdated` (an Update's lock does not keep an AssumeNew
  batch out, which `crud.go` leaves to the callers). A mutating call takes effect
  when its batch is committed, a Get when it has its answer; a pointer found maps
  to `Locate` (`Filed` is the mapping of the look-ups), every other step is a
  stutter. `AtomicInv` is what the mapping needs besides `RowInv`: a batch
  stores, at each key, the row of the last item staged so far that names it
  (`HoldsLast`; so the abstract `LastItem` is found without an induction over the
  items), an Update's batch is fn's answer to the row read (`HoldsAnswer`), and
  that row is the one still stored when the batch is committed (`RowIsFresh`).
  Get needs `Agree`: a payload found under a pointer read earlier is the current
  row, however often the row was moved in between (`GetRowMaps`), and none is
  found only where the pointer stored is another by now, or there is no row.

**`DbSets_proofs`**, for any finite set of goroutines, any names, stripes and
set IDs (`SetsAssumption`, `NoneAssumption`; stripes are numbers, since
`lockAll` takes them in order):

- `SetsAreBornEmpty`: `FreshSetIsEmpty`. `IdInv` says why a crash cannot hand an
  ID out twice: the counter is the one of the disk, and on the disk, as in what a
  crash falls back to, an ID with a record, rows or a drop behind it lies below
  that counter, because `Create` commits record and counter in one batch.
- `NobodyInAClosedStore`: `NoUseAfterClose`. Every operation is counted inside
  before it looks at the store, and `Close` acts only when nobody is.
- `NoDeadlock`: `NoCircularWait`. `LockInv` gives, per place, what a goroutine
  holds. Whoever holds an `s.mu` waits for nothing, so nobody in a circle waits
  for one; nobody waits for a goroutine that waits for its only stripe, or for
  Close. What is left are droppers in `lockAll`; one that holds a stripe holds
  all below it, so no dropper waits for a second one that waits for a third.
- `NothingUnderRetiredIds`: `RetiredStayEmpty`, where writers take their stripe
  (`~AssumeNew`; with it the code breaks the property, section 7). The argument
  is the drain: the drop holds all stripes when it commits, so no goroutine is
  past its look at `dropped` with the ID in its hands (`WriterInv`, `Past`). The
  persist of a column also runs at that moment: it takes `s.mu`, which the drop
  holds, and looks at the flag again under it.
- `MapAndRecordsAgree`: `MapMatchesRecords`, from `MappedInv` (a mapped set is
  alive and its record has the name it is mapped by), `DropperInv` (a set being
  dropped is no longer mapped and is one goroutine's to drop) and `ShownInv` (a
  stored set is mapped or on its way out).

**`DbSchema_proofs`**, for any goroutines, keys and requests, any finite set of
column names and any bound on the colIDs, with the row locks and without them,
with crashes and without (`SchemaAssumption`, `NoneAssumption`):

- `ValuesDoKeepTheirColumn`: `ValuesKeepTheirColumn`. The property speaks of the
  columns that the schema knows now, which a later registration may change. What
  is inductive is `Tells`, of a row with a schema: every colID of the row is below
  `NextColID`, so that a column added later gets another one; and a cell's column
  has that colID still if, and only if, it was not dropped since. It holds of the
  stored rows, of those a crash falls back to *with the record it falls back to*,
  and of those in a goroutine's hand (`TellInv`). Adding columns preserves it
  (`ColumnsAdded`, `TellsOn`), dropping one does (`TellsOff`), and encoding a row
  once its columns are registered establishes it (`Encoded`). A persist that
  fails changes nothing: `s.mu` is held until the memory is restored, so that it
  is one step with what it undoes.
- `RowsAreReadable`: `RowsReadable`. While the first indexed column is not
  dropped, its colID is 0, D/ holds only pointers, each to an entry, and so does
  every writer: no snapshot of the index names another column (`ReadInv`). With
  row locks a writer past its lock holds it and a dropper holds them all
  (`LockInv`), so a writer's snapshot of the index is current when it commits,
  and no entry is left under a column that is not the indexed one.
- `PutsAreVisible`: the action property `PutIsVisible`, from both: what is
  committed is what the next Get decodes, and each of its columns that was not
  dropped since is still known by the colID it was encoded with.

**`WebJobs_proofs`**, for any finite set of jobs, any limits above zero and any
number of restarts (`JobsAssumption`, `LimitAssumption`, `ValuesAssumption`):

- `QueueIsAccounted`: `QueueAccounted`, from `QueueInv`, which adds that a job of
  the inventory never comes to the places where only queued commands are. Every
  step either moves one job between the sets that the counter and the semaphore
  count, together with them, or moves it within one; the facts about cardinality
  are in `AtMoves` and the lemmas of the four steps that count.
- `FileIsTruthful`: `FileTellsTheTruth`. Neither the file alone nor file and
  memory are inductive: a save that began long ago may write its copy after a
  newer one was renamed. `FileInv` therefore speaks of every copy of a record, in
  the file, in the temporary file and in each save that has marshalled one
  (`CopiesInv`): while the executor has not decided the end, no copy tells of
  one; and what a copy tells of an end is true of the process, which changes no
  more once it is over. `MemoryInv` ties the shared Job to the executor's place,
  and `DownInv` says what a dead server leaves.
- `ReportedEndsAreFinal`: `EndsAreFinal`, from the same invariant: whatever
  changes the shared Job in a live server either comes before the end was
  decided or changes neither status nor reason.
- `EndsAreShown`: `EndShowsInInventory`, from `ShowInv`: the poll that a job has
  begun itself, under the mutex, has seen that job's process over, as has every
  poll that begins after it, so no later refresh can take the job out of `seen`.
- `CompleteStreamsAreWhole`: `CompleteStreamIsWhole`. The property says nothing of
  a stream that has seen the end and reads the log once more. `StreamInv` does:
  from that moment the process is over and no executor will start it, and by
  `FileInv` neither a canceller nor a later life of the server takes that back.
  What the last read brings is the log, or the stream is marked as `cut`.

**`PluginReads_proofs`** has two parts. For the labels, with any files of any
clusters, any labels, any hosts (`LabelsAssumption`, `NoneAssumption`):

- `IndexesAreForGood`: `IndexesKeepTheirLabel`. An index that was given out
  means its label in the *stored* catalog (`IndexInv`): rows on their way, stored
  rows and the parsers' caches alike. What makes it inductive is `AheadInv`: but
  for the parser that holds the lock, memory is the stored catalog, and with it
  one upsert ahead; so a failed Put must be undone to exactly what is stored
  (lemma `Undo`), and a Put that succeeds only adds (lemma `Upsert`).
- `AnswersAreNamedRight`: `AnswersNameTheRightLabel`, from `ReaderInv`: the
  plugin's copies are prefixes of the stored entries, and a row keeps its index.

For the queries, with any keys, finite set of columns, rows that fit them
(`PutsAssumption`), queries whose clauses are of the code's kinds
(`QueriesAssumption`), width and number of writes (`QueryAssumption`):

- `AnswersStayRight`: `AnswersAreRight`, and `NothingIsEverMissed`:
  `NothingIsMissed`. Neither speaks of a walk half way, nor of the store. The
  invariant, `QueryInv`, is in three layers. `StoreInv` says what writers keep:
  without an index D/ has the rows, with one D/ has pointers and I/ the one entry
  that each names, and any other entry is an orphan under the guard. `Planned`
  says that the plan is that of some schema `s` which has only grown since
  (`Grew`: what `s` knows kept its colID, the rest got later ones); that is all
  that writers leave of it. `Walking` says of a walk that each delivery is of a
  record it is past, and that each record it is past and wanted is delivered.
  Between them stand three lemmas about one record. `Decodes`: of each column
  that the plan wants, decodeRow, which leaves as soon as it may, has met what
  the row has (`SeesWhatItWants`: it neither stops before the largest colID it
  wants nor before it has as many as it wants). `ClausesAgree`: so the clauses,
  asked of what was decoded, come to what they come to on the row, columns whose
  presence alone was read included. `RecordAnswers`: so a record is wanted
  exactly if its row is asked for, and is told as what was asked of it.
- `RangeIsBetween`: between the bounds of `indexRangeBounds` lie the keys of
  exactly the values from `lo` to `hi`, to both ends of the width.
- `TreesEvaluate`: `Not`, `And` and `Or` evaluate as `notExpr`, `andExpr` and
  `orExpr` do; it is what the model of filters by their satisfying sets rests on.

**`PutBatcher_proofs`**, for any workers, shards, sets, keys, columns, types and rows, any batch, channel and retry limits above
zero (`BatcherAssumption`), rows that are each submitted once (`LoadAssumption`;
the histories could not tell two rows apart otherwise), and a `None` that is not
a row (`NoneAssumption`):

- `Typed`: `TypeOK`, from `TypeInv`, which adds what a shard's goroutine has at
  its place (`Fits`): `pos` points into the batch, `vals` are a row's.
- `RowsAreAccounted`: `RowsAccounted`. The property compares sets; what is
  inductive is where each row is (`PlaceInv`): still to be submitted, or with the
  shard of its key and there exactly once, in the channel, pending with its own
  set or in hand, or in one of `committed`, `failed`, `gaveUp`. A flush that took
  rows of two sets, or a timer that flushed a set twice, would break `OneByOne`.
  `ExitInv` says that a shard which has exited has nothing left.
- `RetriesDoSuffice`: `RetriesSuffice`, where there are fewer columns than tries
  (`FewColumns`; with more of them a row may be given up although it fits). A try
  fails only on a column whose type was still open when the row was coerced and
  has been decided since. Types are decided for good, so each try leaves one
  column more in which the row's value cannot conflict (`FixedBy`, `RetryInv`).
- `LastSubmittedDoesWin`: `LastSubmittedWins`. `OrderInv` says that a shard holds
  its rows in the order of submission, those of a set in hand before those of
  the same set in the channel; two sets do overtake each other, and may, since a
  key belongs to one set. `StoreInv` adds that the stored row came before every
  row of its key that is still held; without it a row could be overwritten by one
  that had been waiting. `FitInv` carries the values: what the fallback has made
  of a row is made of that row's, and what is staged suits its columns.

**`AgiMonitor_proofs`**, for any finite sets of instances and sizes, any makers
among which are the monitor and the user, any events and limits
(`InstsAssumption`, `SizesAssumption`, `MonitorAssumption`, `TasksAssumption`,
`CloudNoneAssumption`). `Invariance` is `Spec => []IInv`; the other four theorems
follow from it and from the steps:

- `OneInstanceHolds`: `OneInstance`. Per maker it follows from `OwnInv`: a maker
  whose call is before its launch has no live instance. For all makers together,
  as long as no command of the user overlapped a rotation, it needs `AloneInv`:
  before a launch nothing is alive, and what is alive during a call is the call's
  own. That rests on `LockInv` and `CallInv` (one task has `execLock`; one call is
  in flight) and on `IdInv`, by which a call that fails removes only an instance
  of its own that has never served.
- `TagsDescribeInstanceHolds`: `TagsDescribeInstance`, from `TagInv`: the volume
  fits the instance, or the call that launched it is about to write the tags, and
  then (`IdInv`) the instance has the size that call resolved; or a call has left
  the instance attached (`left`), and the tags give that size or none.
- `OnDemandSticksHolds`: `OnDemandSticks`, from `DemandInv`: after the capacity
  rotation nothing asks for a spot instance, neither a call on its way nor the
  tags that the next start is made from.
- `ReportsAreTrueHolds`: `ReportsAreTrue`, from `RotationInv`, which follows the
  decided size from the task through its call to the instance, and `ServiceInv`:
  there is service, or a rotation is at work, or an error has been reported.
  `HaltInv` is needed for it: a stopped instance, which a start would only boot,
  exists only if somebody has halted one.

`SmallestOne` and the lemmas after it give what the code's defaults resolve to; a
set of sizes has a smallest one by well-founded induction.

**`AgiHost_proofs`** has two parts as well. For the service, with any finite set
of clients, any number of slots and signals (`SemAssumption`,
`SignalAssumption`):

- `CloseHasWaited`: `CloseWaitsForReaders`. `CountInv` says that each counter is
  the number of handlers in the places it counts, so a wait that sees zero has
  waited for all of them; `CloseInv` says what main knows at each of its places
  after a wait, and that only a forced drain makes handlers it cannot know of.
- `ProfilesAreKept`: `ProfilesKept`. `done` is set, under the profiler's lock,
  before main waits; from then on nothing starts a profile, and what was flushed
  is renamed or stays where it is.

For ingest, with any files, any hosts (`Modes`: lines, lives, WAL, failures,
failing reads, crashes and stops), any look-ahead (`IngestAssumption`):

- `ClaimsHold`: `OnlyExcusedRowsLost`, for every behaviour in which no process
  dies in the middle of `agiWipeOnVersionMismatch` (`MigrationFinishes`). The
  progress files may claim rows that were never flushed, as long as the marker is
  up: without WAL the next start wipes first. So what is inductive (`HostInv`)
  differs by place. While a process runs, whatever it will not read again - what
  the files claim, the positions it holds in memory, the lines it has scanned,
  the collectinfo files it has looked at (`Relied`) - is on disk, volatile or
  excused (`Have`): a file that ends early claims its unread lines, and they are
  excused in the same step. While it is down or about to open the store, a wipe is due
  (of either kind) or what the files claim is on disk or excused; and in
  `agiWipeOnDirty`, which removes the marker last, the marker is up until the
  progress file and the steps claim nothing. A death keeps it because without
  WAL the marker was up or everything volatile is excused (`LifeEnds`); a start
  keeps it because a parser resumes at a position that claims nothing it does not
  have (`ResumesBehind`, `NoteCeiling`).
- `RunningHostHasItsRows`: that middle part, of every process past its wipes.
- `ClaimsHoldUndisturbed`: `OnlyExcusedRowsLost` without the condition, on hosts
  of which those that have an old layout to wipe are not killed
  (`\A m \in Modes : m.upgrade => ~m.canCrash`), as in the run. The condition is
  not one of convenience: a death half way through that wipe leaves progress
  files that claim rows of a store that is gone, and no marker to say so
  (section 7).

TLC checks every one of these properties on the small instances of section 3 as
well.

Every safety property of the passing runs is proved. Only model-checked are the
liveness properties (`CallsReturn`, `RowsArrive` of `IngestRun` and of
`PutBatcher`, `CacheCatchesUp`, `TermStopsService`, `RequestsAnswered`, `JobsEnd`,
`EveryTaskReports`), since liveness under fairness needs ENABLED, which the prover
does not do. No proof here is by induction over data, and no
module declares a recursive operator. Where the least or the greatest of a set is needed, it comes
from well-founded induction on the numbers (`SmallestOne`, `GreatestOne`).

## 7. Where the code and its comments part

One run expects a violation; `findings` in `PROJECT.json` quotes the line.

- `create_failed`: CreateAGI's deferred cleanup (`cmdAgiCreate.go:580`) asks
  whether `err` is set, but the uploads and the start of the services keep their
  error in an `err` of an inner `if`: an agi create that fails there returns the
  error and leaves the instance up.

The following were met while modelling. Where a definition is named it states
the claim in its module and no configuration checks it; add it to the named
instance to see the counterexample.

*Store*

- `PutBatch` reads `s.dropped` under no lock when all items are AssumeNew
  (`crud.go:184`), so DropSet's drain of the stripes does not wait for it and
  rows are written under a retired ID: `RetiredStayEmpty` of `MCDbSets` with
  `AssumeNew = TRUE`.
- On an indexed set the index entries hold the rows, and DropColumn of the
  indexed column (`db.go:710`) deletes them: `DropHidesOneColumn` of
  `MCDbSchema`.
- `scan.go:84` promises "a consistent point-in-time view". A query that made its
  plan before RegisterSet declared the index, and pinned its snapshot after the
  first Put, takes the pointers in D/ for rows: it shows rows without columns, or
  fails to decode (`Late` in `DbQuery`). RegisterSet is modelled on empty sets
  only; an index declared over rows that lack the column makes those unreadable.
- `crud.go:37-43` says an orphan is reclaimed by the next overwrite of its key
  with `AssumeNew=false`. The overwrite reads the pointer, which no longer names
  the orphan, so the orphan stays, also over Delete.

*Ingest and plugin*

- ProcessLogs flushes the memtable and clears the dirty marker
  (`processlogs.go:413`) without draining the batcher, so "every Put is on disk"
  (`processlogs.go:378`) does not hold for the rows in its shards, though nothing
  failed; a kill after that loses them, and nothing makes the next start wipe:
  `MarkerClearedWhenDurable` of `IngestRun` with `Modes <- CalmModes`.
- The positions and Finished flags that `saveProgress` writes
  (`processlogs.go:1104`) are ahead of the rows in resultsChan and in the shards.
  With WAL on, a kill loses those, and no wipe follows, as "the progress
  checkpoint and DB state are still consistent" (`dirtymarker.go:23`):
  `WalKeepsClaims` of `IngestRun` with `Modes <- LoggedModes`.
- `finalizeInit` (`init.go:318`) puts the marker up in every life, but a life
  whose logs are already processed never takes it down, so the second restart
  after a clean stop of a complete host wipes the store: `CleanStopKeepsDb` of
  `IngestRun` with `Modes <- CalmModes`.
- `storeBinList` (`processlogs.go:689`) puts a copy without the lock, and two of
  them may finish in the other order, leaving an old list with nothing left to
  store: `ClearedMeansStored` of `LabelCatalog` with `Modes <- SaverModes`.
- `saveProgress` (`trackprogress.go:115`) promises that "progress must never
  advance past a row whose columns are not yet recorded in BINLIST"; with WAL on
  and a crash between the two writes it can (`ProgressIsCovered`).
- A collectinfo file that was processed is not marked attempted
  (`processcf.go:118`), so a resumed run processes it again; one that failed once
  is, and stays so over a wipe of the store, which keeps cf-processor.json.
- A line longer than `logReadBufferSizeKb`, or a failed read, ends a file as its
  end does (`processlogs.go:1053`), and no error is logged: the file is Finished
  and Processed in full (`processlogs.go:1155`). `Unread` in `IngestRun` is what
  that loses.

*Service*

- A SIGTERM that arrives before `Listen` has set `p.srv`
  (`cmdAgiExecService.go:206`) is used up without effect, and no later one is
  read. `TermStopsService` therefore speaks of signals that arrive once the
  server exists.
- A SIGUSR1 before ingest has begun starts the plugin's profile; a configured
  ingest profile then fails to start and ingest's Init fails with it.
- A flushed profile whose rename fails stays at its path until the next SIGUSR1
  truncates it (`ProfilesKept` leaves that case out with `stuck`).
- ingest's own SIGTERM handler ends the process; where the service owns the
  store, that exit comes without the store's flush.
- `agiWipeOnVersionMismatch` has no marker, so a crash half way leaves a host
  that does not repeat it; `ClaimsHold` (section 6) has that as its condition.

*Web UI*

- `sendRemainingLogs` drops the error of its read (`cmdWebUI.go:1746`), and
  CleanupOldJobs removes a log before its job (`cmdWebUIJobs.go:531`), so a stream
  may be told complete without "any final logs" (`cmdWebUI.go:1800`), or with
  none: `FinalLogsAreRead` of `WebJobs` with the constants of `MCWebJobs`.
- Requests that come at once pass the check of the queue limit
  (`cmdWebUI.go:1228`) together, so `--max-queued-job` is not a maximum:
  `QueueLimitHolds` of `WebJobs` with the constants of `MCWebJobsQueue`.
- `SaveJob` claims to save atomically (`cmdWebUIJobs.go:184`); two saves of one
  job use one temporary name, so the second may truncate what the first renames,
  and the older record may be renamed last: `SaveIsAtomic` of `WebJobs`. What
  still holds then is `FileTellsTheTruth`.
- `ListenAndServe` returns as soon as Shutdown begins, and main returns without
  waiting for the drain or for the jobs (`Exit` in `WebJobs`): saves under way
  may be cut off.
- `handleInventoryAction` asks neither `shuttingDown` nor the queue: such jobs
  run beside the limit and may be created while the server drains.

*AGI hosts*

- `docs/agi/troubleshooting.md:384` says "For GCP with monitor, disk will
  auto-expand". When the filesystem's growth fails after the disk's, the next
  event asks for the size that the disk already has, and `ResizeVolumes`
  (`bgcp/volumes.go:396`) refuses it, from then on always: `DiskCanGrow` of
  `AgiMonitor`.
- A rotation destroys what carries the name when its turn comes. After a second
  event of the same host, or a user's restart, that is the successor:
  `DestroysTheSender` of `AgiMonitor`.
- The spot monitor of the proxy clears `shuttingDown` two minutes later, also
  when somebody else has set it (`cmdAgiExecProxy.go:1036`).

*Elsewhere*

- `waitJobs` (`utils/shutdown/handler.go:65`) takes the mutex of the cleanup
  lists for good and waits for the jobs. A rotation of the monitor is such a job,
  and its CreateAGI registers a cleanup (`cmdAgiCreate.go:565`) under that
  mutex: a signal that comes between leaves both waiting.
- `GetInventory` (`backendInventories.go:595`) reads the maps that the poll
  replaces under a lock it does not take.

## 8. What the models leave out

- **Store.** Byte formats, compression, the Pebble engine (external: a batch
  commits atomically, a flush makes a prefix durable) and prefix collisions.
  `DbSchema` leaves out which indexed value a row has (that is `DbRow`) and folds
  Update's column registration, which the code does under the row lock, into the
  common writer. `DbSets` knows of columns only that a writer may persist the
  record; `botched` is a history of names whose drop failed or was cut short,
  for which the map may hide a stored set. `DbQuery` leaves out the wire form of
  rows (`wire.go`), ReadInto, the static iterators and Close (which `DbSets`
  has), and values other than integers and strings.
- **IngestRun.** Labels and BINLIST (that is `LabelCatalog`), notifications,
  the renaming of collectinfo files and their node rows (each file is one row), a
  marker whose write fails, a RemoveAll cut short, the resource monitor and `agi
  run-ingest`.
- **PutBatcher.** The timestamp column; `close` is called once the workers are
  gone, as ProcessLogs does (the other order is in `IngestRun`).
- **LabelCatalog.** One label key; a parser's send is folded into the
  resolution of its row; progress notes the exact position (the look-ahead is in
  `IngestRun`); a restart is with WAL and keeps every write; the savers of
  ProcessLogsPrep. `overlapped` is a history of two savers at once.
- **AgiService.** `--skip-plugin`, the standalone plugin that owns its store,
  debug routes, what a query computes; a request has at most one iterator. net/http
  is external: Shutdown stops accepting, waits for idle connections and is
  forced at the timeout. A handler that was dispatched but not yet counted when
  Close waited (`late`) exists only after a forced drain.
- **AgiCreate, AgiMonitor.** The template's build, DNS, the text of the
  configuration files and of notifications, the sizing-state map behind agi
  status, authentication of events, `--no-vacuum`, debug mode and signals to the
  CLI. Instance types are the memory sizes of one family; disk sizes are steps of
  `--gcp-disk-grow-gb`. Reading the inventory and deciding on it is one step. An
  event is handled while its sender is up. Nobody deletes the volume.
- **WebJobs.** What the commands do, the REST routes, authentication, pages;
  I/O errors of a save; a limit of zero. Process ids are never reused: with reuse
  a cancel after a restart could signal a stranger, which the code does not
  guard against. GetJob's disk lookup can only miss once the jobs are loaded.
  Three failing refreshes are one step. Jobs are cleaned up hours after their
  end, when no request for them is under way.

Not modelled as components: see the table of section 1 and `PROJECT.json`. I/O
against clouds, SSH and Grafana has no state a model could tell apart; the
others are in the plan. The cloud drivers, which are the largest part of the
repository, are scripts of API calls around that I/O, and so are the cluster and
client commands: a model of them would be a model of the cloud.

## 9. Plan

In this order, the next ones first:

1. `ShutdownHandler`: `waitJobs`, hooks and late registration, composed with the
   tasks of `AgiMonitor`.
2. `CollectInfo`: the renames of `processcf.go`, which move a file's progress entry
   to another key, over asadm failures and restarts; `IngestRun` has the attempt
   flags only.
3. `AgiProxy`: the shuttingDown flag under its idle, uptime, spot and service
   monitors, as the peer that sends `AgiMonitor` its events.
4. `Inventory`: refresh, poll, invalidation list and disk cache.
