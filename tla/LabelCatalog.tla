---------------------------- MODULE LabelCatalog ----------------------------
(* The catalog that ingest keeps for the Grafana plugin in the labels set    *)
(* (ingest/processlogs.go, ingest/struct.go, ingest/trackprogress.go) and    *)
(* the copy the plugin queries with (plugin/backendQueryAndCache.go,         *)
(* plugin/queryTimeseries.go).                                               *)
(*                                                                           *)
(* A metric row holds a label as an index into the entries of the label's    *)
(* row, and BINLIST names every column there is. Parsers assign indexes,     *)
(* workers add columns and write rows, savers write BINLIST and the progress *)
(* file, the plugin reads it all on its own schedule. One label is modelled, *)
(* with the one metaEntries.mu that guards it.                               *)
EXTENDS Naturals, Sequences, FiniteSets, SequencesExt

CONSTANTS
    Files,          \* log files, with one parser each
    ClusterOf,      \* [Files -> clusters]
    Lines,          \* [Files -> sequences of rows, [label, col]]
    LabelCol,       \* the column that holds the label's index
    Interval, Final, AtClose,   \* the callers of storeBinList
    InFlight,       \* rows between a parser and the store, before it waits
    Modes,          \* hosts: [interval, queries : BOOLEAN, fails, lives : Nat]
    None

\* The files are finite; None is not an index, and not a holder of the lock.
ASSUME LabelsAssumption == \A f \in Files : Lines[f] \in Seq(Range(Lines[f]))
ASSUME NoneAssumption == None \notin Nat \cup [file : Files, appended : BOOLEAN]

VARIABLES
    meta,       \* the label's metaEntries: Entries and ByCluster
    mu,         \* metaEntries.mu: its holder, or None
    names,      \* binList.BinNames, and its snapshot
    changed,    \* binList.changed
    store,      \* what Pebble has: the label's row, BINLIST, the metric rows
    pos,        \* rows each parser has sent
    cache,      \* each parser's resolveCache
    chan,       \* rows between the parsers and the database
    prog,       \* Processed of each file in memory
    saved,      \* and in log-processor.json
    saver,      \* where each saver is, and its namesCopy
    overlapped, \* history: two stores of BINLIST were under way at once
    plugin,     \* p.cache: binNames, metadata
    query,      \* a timeseries query that filters on the label and groups by it
    fails, lives,   \* failed writes to the labels set, lives of the process
    mode            \* a member of Modes: whether the interval saver comes round
                    \* before the run is over, whether the plugin is queried,
                    \* and the bounds of fails and lives

labels == <<meta, mu>>
bins == <<names, changed>>
parsers == <<pos, cache>>
progress == <<prog, saved>>
savers == <<saver, overlapped>>
reader == <<plugin, query>>
bounds == <<fails, lives, mode>>
vars == <<labels, bins, store, parsers, chan, progress, savers, reader, bounds>>

Savers == {Interval, Final, AtClose}
Clusters == {ClusterOf[f] : f \in Files}
RowIds == UNION {{<<f, i>> : i \in DOMAIN Lines[f]} : f \in Files}
LineOf(id) == Lines[id[1]][id[2]]
LabelValues == {LineOf(id).label : id \in RowIds}
Columns(r) == {LineOf(r.id).col} \cup (IF r.idx = None THEN {} ELSE {LabelCol})

NoMeta == [entries |-> <<>>, byCluster |-> [c \in Clusters |-> {}]]
NoQuery == [at |-> "idle", filter |-> None, rows |-> {}, entries |-> <<>>]
NoCache == [f \in Files |-> [v \in LabelValues |-> None]]
NoSaves == [s \in Savers |-> [at |-> "idle", copy |-> {}]]
NoPlugin == [bins |-> {}, meta |-> NoMeta]

Init ==
    /\ meta = NoMeta /\ mu = None /\ names = {} /\ changed = TRUE
    /\ pos = [f \in Files |-> 0] /\ prog = pos /\ saved = pos
    /\ cache = NoCache /\ chan = {} /\ saver = NoSaves
    /\ plugin = NoPlugin /\ query = NoQuery
    /\ store = [meta |-> NoMeta, bins |-> {}, rows |-> {}]
    /\ overlapped = FALSE /\ fails = 0 /\ lives = 1 /\ mode \in Modes

-----------------------------------------------------------------------------
(* Parsers *)

IndexOf(m, v) ==
    IF \E i \in DOMAIN m.entries : m.entries[i] = v
    THEN CHOOSE i \in DOMAIN m.entries : m.entries[i] = v
    ELSE None

\* Bug: a new value is put first, which moves the indexes of the others.
WithLabelFirst(m, v, c) ==
    LET es == IF IndexOf(m, v) = None THEN <<v>> \o m.entries ELSE m.entries
    IN  [entries |-> es,
         byCluster |-> [m.byCluster EXCEPT ![c] = @ \cup {IndexOf([m EXCEPT !.entries = es], v)}]]

\* upsertMetaEntry's change of the entries: a new value, and a new cluster.
WithLabel(m, v, c) ==
    LET es == IF IndexOf(m, v) = None THEN Append(m.entries, v) ELSE m.entries
    IN  [entries |-> es,
         byCluster |-> [m.byCluster EXCEPT ![c] = @ \cup {IndexOf([m EXCEPT !.entries = es], v)}]]

\* binList.addNames
AddNames(new) ==
    /\ names' = names \cup new
    /\ changed' = (changed \/ ~(new \subseteq names))

\* The parser sends its next row with the index, if there is one.
Send(f, idx) ==
    /\ chan' = chan \cup {[id |-> <<f, pos[f] + 1>>, idx |-> idx, named |-> FALSE]}
    /\ pos' = [pos EXCEPT ![f] = @ + 1]

\* resultsChan and the workers hold only so many rows.
More(f) == pos[f] < Len(Lines[f]) /\ Cardinality(chan) < InFlight
NextLabel(f) == Lines[f][pos[f] + 1].label

\* resolveLabelsCached finds the label in the cache of the file.
ResolveCached(f) ==
    /\ More(f) /\ cache[f][NextLabel(f)] # None
    /\ Send(f, cache[f][NextLabel(f)])
    /\ UNCHANGED <<labels, bins, store, cache, progress, savers, reader, bounds>>

\* upsertMetaEntry, the label and its cluster are known: nothing to store.
ResolveKnown(f) ==
    LET v == NextLabel(f) IN
    /\ More(f) /\ cache[f][v] = None /\ mu = None
    /\ WithLabel(meta, v, ClusterOf[f]) = meta
    /\ cache' = [cache EXCEPT ![f][v] = IndexOf(meta, v)]
    /\ Send(f, IndexOf(meta, v))
    /\ UNCHANGED <<labels, bins, store, progress, savers, reader, bounds>>

\* upsertMetaEntry up to its db.Put: the lock, the change in memory, the column.
ResolveNew(f) ==
    LET v == NextLabel(f) IN
    /\ More(f) /\ cache[f][v] = None /\ mu = None
    /\ WithLabel(meta, v, ClusterOf[f]) # meta
    /\ mu' = [file |-> f, appended |-> IndexOf(meta, v) = None]
    /\ meta' = WithLabel(meta, v, ClusterOf[f])
    /\ AddNames({LabelCol})
    /\ UNCHANGED <<store, parsers, chan, progress, savers, reader, bounds>>

Holds(f) == mu # None /\ mu.file = f

\* The Put of the label's row succeeds.
StoreLabel(f) ==
    LET v == NextLabel(f) IN
    /\ Holds(f) /\ mu' = None
    /\ store' = [store EXCEPT !.meta = meta]
    /\ cache' = [cache EXCEPT ![f][v] = IndexOf(meta, v)]
    /\ Send(f, IndexOf(meta, v))
    /\ UNCHANGED <<meta, bins, progress, savers, reader, bounds>>

\* Bug: nothing is undone.
RollbackNothing(m, f) == m

\* rollback: what this call appended, for an entry or only for a cluster.
Rollback(m, f) ==
    LET i == IndexOf(m, NextLabel(f)) IN
    [entries |-> IF mu.appended THEN Front(m.entries) ELSE m.entries,
     byCluster |-> [m.byCluster EXCEPT ![ClusterOf[f]] = @ \ {i}]]

\* The Put fails: the change is undone and the row goes out without the label.
StoreLabelFails(f) ==
    /\ Holds(f) /\ mu' = None
    /\ fails < mode.fails /\ fails' = fails + 1
    /\ meta' = Rollback(meta, f)
    /\ Send(f, None)
    /\ UNCHANGED <<bins, store, cache, progress, savers, reader, lives, mode>>

\* processLogFile notes how far it has read.
NoteProgress(f) ==
    /\ prog[f] # pos[f] /\ ~Holds(f)
    /\ prog' = [prog EXCEPT ![f] = pos[f]]
    /\ UNCHANGED <<labels, bins, store, parsers, chan, saved, savers, reader, bounds>>

Parse(f) == \/ ResolveCached(f) \/ ResolveKnown(f) \/ ResolveNew(f)
            \/ StoreLabel(f) \/ StoreLabelFails(f) \/ NoteProgress(f)

-----------------------------------------------------------------------------
(* Workers *)

\* missingNames and addNames of a row's columns.
NameColumns(r) ==
    /\ ~r.named
    /\ chan' = (chan \ {r}) \cup {[r EXCEPT !.named = TRUE]}
    /\ AddNames(Columns(r))
    /\ UNCHANGED <<labels, store, parsers, progress, savers, reader, bounds>>

\* putData: the row replaces what an earlier life stored under its key.
PutRow(r) ==
    /\ r.named
    /\ chan' = chan \ {r}
    /\ store' = [store EXCEPT !.rows =
                    {q \in @ : q.id # r.id} \cup {[id |-> r.id, idx |-> r.idx]}]
    /\ UNCHANGED <<labels, bins, parsers, progress, savers, reader, bounds>>

Work == \E r \in chan : NameColumns(r) \/ PutRow(r)

-----------------------------------------------------------------------------
(* Savers *)

Idle(s) == saver[s].at = "idle"
Storing(s) == saver[s].at \in {"put", "settle"}
Parsed == \A f \in Files : prog[f] = Len(Lines[f])

\* saveProgressInterval sleeps and saves, and once more when Close ends it in its
\* sleep; ProcessLogs stores the list once its workers are done; Close saves
\* after the interval saver is gone.
MayStart(s) ==
    \/ s = Interval /\ Idle(s) /\ (mode.interval \/ ~Idle(AtClose))
    \/ s = Final /\ Idle(s) /\ Parsed /\ chan = {}
    \/ s = AtClose /\ saver[s].at = "ending" /\ saver[Interval].at = "done"

Moves(s, at) == saver' = [saver EXCEPT ![s].at = at]
After(s) == IF s = Final THEN "done" ELSE "progress"

\* storeBinList copies the names under the lock, if they have changed.
CopyNames(s) ==
    /\ MayStart(s)
    /\ IF changed
       THEN saver' = [saver EXCEPT ![s] = [at |-> "put", copy |-> names]]
       ELSE Moves(s, After(s))
    /\ overlapped' = (overlapped \/ (changed /\ \E t \in Savers : Storing(t)))
    /\ UNCHANGED <<labels, bins, store, parsers, chan, progress, reader, bounds>>

\* Close sets end, then waits for the interval saver.
EndInterval ==
    /\ saver[Final].at = "done" /\ Idle(AtClose)
    /\ Moves(AtClose, "ending")
    /\ UNCHANGED <<labels, bins, store, parsers, chan, progress, overlapped, reader, bounds>>

\* It writes the copy without the lock.
PutNames(s) ==
    /\ saver[s].at = "put"
    /\ store' = [store EXCEPT !.bins = saver[s].copy]
    /\ Moves(s, "settle")
    /\ UNCHANGED <<labels, bins, parsers, chan, progress, overlapped, reader, bounds>>

\* saveProgress goes on when the list could not be stored.
PutNamesFails(s) ==
    /\ saver[s].at = "put"
    /\ fails < mode.fails /\ fails' = fails + 1
    /\ Moves(s, After(s))
    /\ UNCHANGED <<labels, bins, store, parsers, chan, progress, overlapped, reader, lives, mode>>

\* Bug: changed is cleared whatever was added during the Put.
SettleClears(s) ==
    /\ saver[s].at = "settle"
    /\ changed' = FALSE
    /\ Moves(s, After(s))
    /\ UNCHANGED <<labels, names, store, parsers, chan, progress, overlapped, reader, bounds>>

\* With the lock again: changed is cleared unless the list has grown.
Settle(s) ==
    /\ saver[s].at = "settle"
    /\ changed' = (changed /\ names # saver[s].copy)
    /\ Moves(s, After(s))
    /\ UNCHANGED <<labels, names, store, parsers, chan, progress, overlapped, reader, bounds>>

\* The rest of saveProgress; the interval saver looks at end after it.
SaveProgress(s) ==
    /\ saver[s].at = "progress"
    /\ saved' = prog
    /\ Moves(s, IF Idle(AtClose) THEN "idle" ELSE "done")
    /\ UNCHANGED <<labels, bins, store, parsers, chan, prog, overlapped, reader, bounds>>

Save(s) == \/ CopyNames(s) \/ PutNames(s) \/ PutNamesFails(s) \/ Settle(s)
           \/ SaveProgress(s)

-----------------------------------------------------------------------------
(* The plugin *)

\* cacheBinList; a missing BINLIST leaves the cache alone.
RefreshBins ==
    /\ store.bins # {}
    /\ plugin' = [plugin EXCEPT !.bins = store.bins]
    /\ UNCHANGED <<labels, bins, store, parsers, chan, progress, savers, query, bounds>>

\* cacheMetadataList reads the labels set at one snapshot.
RefreshMeta ==
    /\ plugin' = [plugin EXCEPT !.meta = store.meta]
    /\ UNCHANGED <<labels, bins, store, parsers, chan, progress, savers, query, bounds>>

\* The filter of a query, looked up in the cache: a value that is not there
\* leaves the query without a filter.
ChooseFilter(v) ==
    /\ mode.queries /\ query.at = "idle"
    /\ query' = [NoQuery EXCEPT !.at = "open",
                    !.filter = IF IndexOf(plugin.meta, v) = None THEN None
                               ELSE [label |-> v, idx |-> IndexOf(plugin.meta, v)]]
    /\ UNCHANGED <<labels, bins, store, parsers, chan, progress, savers, plugin, bounds>>

\* Run opens the iterator, a snapshot of the rows.
OpenQuery ==
    /\ query.at = "open"
    /\ query' = [query EXCEPT !.at = "group", !.rows =
                    {r \in store.rows : query.filter = None \/ r.idx = query.filter.idx}]
    /\ UNCHANGED <<labels, bins, store, parsers, chan, progress, savers, plugin, bounds>>

\* The entries for the group names are copied after that.
CopyEntries ==
    /\ query.at = "group"
    /\ query' = [query EXCEPT !.at = "answer", !.entries = plugin.meta.entries]
    /\ UNCHANGED <<labels, bins, store, parsers, chan, progress, savers, plugin, bounds>>

\* A row whose index is not among the copied entries fails the query.
Resolves(r) == r.idx = None \/ r.idx \in DOMAIN query.entries

EndQuery ==
    /\ query.at = "answer"
    /\ query' = NoQuery
    /\ UNCHANGED <<labels, bins, store, parsers, chan, progress, savers, plugin, bounds>>

Read == \/ RefreshBins \/ RefreshMeta \/ OpenQuery \/ CopyEntries \/ EndQuery
        \/ \E v \in LabelValues : ChooseFilter(v)

-----------------------------------------------------------------------------

\* The process dies and starts again on a store whose WAL kept every write:
\* finalizeInit and ProcessLogsPrep load BINLIST, the label and the progress.
Restart ==
    /\ lives < mode.lives /\ lives' = lives + 1
    /\ meta' = store.meta /\ mu' = None /\ names' = store.bins /\ changed' = TRUE
    /\ pos' = saved /\ prog' = saved
    /\ cache' = NoCache /\ chan' = {} /\ saver' = NoSaves
    /\ plugin' = NoPlugin /\ query' = NoQuery
    /\ UNCHANGED <<store, saved, overlapped, fails, mode>>

Next == \/ \E f \in Files : Parse(f)
        \/ Work
        \/ \E s \in Savers : Save(s)
        \/ EndInterval
        \/ Read
        \/ Restart

Spec == Init /\ [][Next]_vars

\* Goroutines run, the refresher comes round; nobody has to crash or fail.
FairSpec ==
    /\ Spec
    /\ \A f \in Files : WF_vars(Parse(f))
    /\ WF_vars(Work)
    /\ \A s \in Savers : WF_vars(Save(s))
    /\ WF_vars(EndInterval)
    /\ WF_vars(RefreshBins) /\ WF_vars(RefreshMeta)

-----------------------------------------------------------------------------
(* Properties *)

MetaType == [entries : Seq(LabelValues), byCluster : [Clusters -> SUBSET Nat]]

\* Every variable holds what its Go counterpart can.
TypeOK ==
    /\ meta \in MetaType /\ store.meta \in MetaType /\ plugin.meta \in MetaType
    /\ mu = None \/ mu.file \in Files
    /\ changed \in BOOLEAN /\ overlapped \in BOOLEAN
    /\ {pos, prog, saved} \subseteq [Files -> Nat]
    /\ \A f \in Files : saved[f] <= Len(Lines[f]) /\ prog[f] <= pos[f]
    /\ \A r \in chan \cup store.rows \cup query.rows :
          r.id \in RowIds /\ (r.idx # None => r.idx \in Nat)
    /\ \A s \in Savers : saver[s].at \in {"idle", "put", "settle", "progress",
                                          "ending", "done"}

\* A row's index stands for the row's own label: whatever parsers race to add
\* a value, a failed Put is undone or the process is restarted, the stored
\* entries never give an index that is in use to another value, nor two indexes
\* to one value, of which the plugin would look up the first and miss the rows of
\* the second (upsertMetaEntry, ProcessLogsPrep).  The values listed for a
\* cluster exist and are its own, in the stored row and in the cache, and the
\* store lists every value that the cluster has rows of (handleVariable).
IndexesKeepTheirLabel ==
    /\ TypeOK
    /\ \A m \in {store.meta, plugin.meta} : \A c \in Clusters : \A i \in m.byCluster[c] :
          /\ i \in DOMAIN m.entries
          /\ \E id \in RowIds : ClusterOf[id[1]] = c /\ LineOf(id).label = m.entries[i]
    /\ \A r \in store.rows :
          r.idx # None => r.idx \in store.meta.byCluster[ClusterOf[r.id[1]]]
    /\ IsInjective(store.meta.entries)
    /\ \A r \in chan \cup store.rows : r.idx # None =>
          /\ r.idx \in DOMAIN store.meta.entries
          /\ store.meta.entries[r.idx] = LineOf(r.id).label

\* A query on a stale cache may fail, or lose its filter, but it never puts a
\* row under another row's label.
AnswersNameTheRightLabel ==
    query.at = "answer" => \A r \in query.rows :
        /\ query.filter # None => query.filter.label = LineOf(r.id).label
        /\ r.idx # None /\ Resolves(r) => query.entries[r.idx] = LineOf(r.id).label

\* Once the parsers are done the plugin's cache catches up with every index in
\* the store, over failures and restarts; and in a life without a crash BINLIST,
\* and the plugin's copy of it, end up with every column of the store, as long
\* as no two savers stored it at once (storeBinList, the refresher).
CacheCatchesUp ==
    /\ <>[](\A r \in store.rows : r.idx # None => r.idx \in DOMAIN plugin.meta.entries)
    /\ <>[](lives = 1 /\ ~overlapped =>
              \A r \in store.rows : Columns(r) \subseteq plugin.bins)

\* storeBinList: changed is cleared only if nothing was added, "otherwise the
\* next caller re-flushes"; so once cleared, BINLIST is the list.
ClearedMeansStored ==
    ~changed /\ (\A s \in Savers : ~Storing(s)) => store.bins = names

\* saveProgress: "progress must never advance past a row whose columns are not
\* yet recorded in BINLIST".
ProgressIsCovered ==
    \A id \in RowIds : id[2] <= saved[id[1]] => LineOf(id).col \in store.bins
=============================================================================
