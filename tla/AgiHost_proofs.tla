--------------------------- MODULE AgiHost_proofs ---------------------------
(***************************************************************************)
(* Proofs about the process `agi exec service`: its shutdown, for every    *)
(* number of clients, slots and signals (AgiService), and the ingest it    *)
(* hosts, for every set of files and hosts and any number of lives         *)
(* (IngestRun).  The second part holds of `agi exec ingest` as well.       *)
(***************************************************************************)
EXTENDS AgiService, IngestRun, TLAPS, FiniteSetTheorems

-----------------------------------------------------------------------------
(*                  The WaitGroup and the two semaphores                   *)

\* The connections whose handler is in one of the states S.
In(S) == {r \in Reqs : req[r] \in S}
Held  == {"counted"} \cup Slotted
Job   == {"job", "iter"}

\* The counters count handlers: deferred releases lose none on any return.
CountInv ==
    /\ req \in [Reqs -> ReqStates]
    /\ handlers = Cardinality(In(Held))
    /\ requests = Cardinality(In(Slotted)) /\ requests <= MaxRequests
    /\ jobs = Cardinality(In(Job)) /\ jobs <= MaxJobs

LEMMA InIsFinite ==
    ASSUME NEW S
    PROVE  IsFiniteSet(In(S)) /\ Cardinality(In(S)) \in Nat /\ Cardinality(In(S)) <= Cardinality(Reqs)
<1>1. In(S) \subseteq Reqs
  BY DEF In
<1>2. IsFiniteSet(In(S)) /\ Cardinality(In(S)) <= Cardinality(Reqs)
  BY <1>1, SemAssumption, FS_Subset
<1>3. QED
  BY <1>2, FS_CardinalityType

\* One handler's step from one state to another, as a set of states sees it.
LEMMA InMoves ==
    ASSUME req \in [Reqs -> ReqStates], NEW r \in Reqs, NEW to \in ReqStates,
           req' = [req EXCEPT ![r] = to], NEW S
    PROVE  Cardinality(In(S))' = Cardinality(In(S)) + (IF to \in S THEN 1 ELSE 0) - (IF req[r] \in S THEN 1 ELSE 0)
<1>1. In(S)' = IF to \in S THEN In(S) \cup {r} ELSE In(S) \ {r}
  BY DEF In
<1>2. r \in In(S) <=> req[r] \in S
  BY DEF In
<1>3. IsFiniteSet(In(S)) /\ Cardinality(In(S)) \in Nat
  BY InIsFinite
<1>4. Cardinality(In(S) \cup {r}) = IF r \in In(S) THEN Cardinality(In(S)) ELSE Cardinality(In(S)) + 1
  BY <1>3, FS_AddElement
<1>5. Cardinality(In(S) \ {r}) = IF r \in In(S) THEN Cardinality(In(S)) - 1 ELSE Cardinality(In(S))
  BY <1>3, FS_RemoveElement
<1>6. QED
  BY <1>1, <1>2, <1>3, <1>4, <1>5

LEMMA HandlerCounts ==
    ASSUME CountInv, NEW r \in Reqs, Handler(r)
    PROVE  CountInv'
<1> DEFINE Moves(to) == req' = [req EXCEPT ![r] = to]
<1>1. PICK to \in ReqStates :
        /\ Moves(to)
        /\ handlers' = handlers + (IF to \in Held THEN 1 ELSE 0) - (IF req[r] \in Held THEN 1 ELSE 0)
        /\ requests' = requests + (IF to \in Slotted THEN 1 ELSE 0) - (IF req[r] \in Slotted THEN 1 ELSE 0)
        /\ jobs' = jobs + (IF to \in Job THEN 1 ELSE 0) - (IF req[r] \in Job THEN 1 ELSE 0)
        /\ requests' <= MaxRequests /\ jobs' <= MaxJobs
  <2>1. handlers \in Nat /\ requests \in Nat /\ jobs \in Nat /\ requests <= MaxRequests /\ jobs <= MaxJobs
    BY InIsFinite DEF CountInv
  <2> USE <2>1, SemAssumption DEF ReqStates, Waiting, Slotted, Held, Job
  <2>2. CASE Dispatch(r)
    BY <2>2 DEF Dispatch
  <2>3. CASE Count(r)
    BY <2>3 DEF Count
  <2>4. CASE HandleShutdown(r) \/ HandleLight(r)
    BY <2>4 DEF HandleShutdown, HandleLight
  <2>5. CASE TakeRequest(r)
    BY <2>5 DEF TakeRequest
  <2>6. CASE ReadBody(r)
    BY <2>6 DEF ReadBody
  <2>7. CASE BadBody(r)
    BY <2>7 DEF BadBody
  <2>8. CASE TakeJob(r)
    BY <2>8 DEF TakeJob
  <2>9. CASE OpenIter(r)
    BY <2>9 DEF OpenIter
  <2>10. CASE FinishJob(r)
    BY <2>10 DEF FinishJob
  <2>11. QED
    BY <2>2, <2>3, <2>4, <2>5, <2>6, <2>7, <2>8, <2>9, <2>10 DEF Handler
<1>2. req \in [Reqs -> ReqStates]
  BY DEF CountInv
<1>3. handlers' = Cardinality(In(Held))' /\ requests' = Cardinality(In(Slotted))' /\ jobs' = Cardinality(In(Job))'
  BY <1>1, <1>2, InMoves DEF CountInv
<1>4. QED
  BY <1>1, <1>2, <1>3 DEF CountInv

LEMMA CountInit == Init => CountInv
<1> SUFFICES ASSUME Init PROVE CountInv
  OBVIOUS
<1>1. In(Held) = {} /\ In(Slotted) = {} /\ In(Job) = {}
  BY DEF Init, In, Held, Slotted, Job
<1>2. handlers = 0 /\ requests = 0 /\ jobs = 0 /\ req = [r \in Reqs |-> "away"]
  BY DEF Init
<1>3. QED
  BY <1>1, <1>2, FS_EmptySet, SemAssumption DEF CountInv, ReqStates

LEMMA CountStep ==
    ASSUME CountInv, [Next]_vars
    PROVE  CountInv'
<1>1. CASE \E r \in Reqs : Handler(r)
  BY <1>1, HandlerCounts
<1>2. CASE UNCHANGED <<req, handlers, requests, jobs>>
  BY <1>2 DEF CountInv, In
<1>3. Main => UNCHANGED <<req, handlers, requests, jobs>>
  BY DEF Main
<1>4. Signals => UNCHANGED <<req, handlers, requests, jobs>>
  <2>1. SignalTerm \/ IngestExit => UNCHANGED <<req, handlers, requests, jobs>>
    BY DEF SignalTerm, IngestExit, http
  <2>2. TakeTerm => UNCHANGED <<req, handlers, requests, jobs>>
    BY DEF TakeTerm
  <2>3. ForceClose => UNCHANGED <<req, handlers, requests, jobs>>
    BY DEF ForceClose
  <2>4. QED
    BY <2>1, <2>2, <2>3 DEF Signals
<1>5. Refresh \/ Profiler \/ Ingest \/ UNCHANGED vars => UNCHANGED <<req, handlers, requests, jobs>>
  BY DEF Refresh, Profiler, Ingest, vars, http
<1>6. QED
  BY <1>1, <1>2, <1>3, <1>4, <1>5 DEF Next

-----------------------------------------------------------------------------
(*                         What Close has waited for                       *)

Waited == {"waitBg", "stopProfile", "waitIngest", "unhooked"}

(* What main knows at each of its waits: a handler that is still there was *)
(* dispatched before the drain, on a connection that was then cut.         *)
CloseInv ==
    /\ main \in {"waitHandlers"} \cup Waited => done /\ (srv = "forced" \/ \A r \in Reqs : req[r] = "away")
    /\ main \in Waited => {r \in Reqs : req[r] # "away"} \subseteq late
    /\ main \in Waited \ {"waitBg"} => refresher = "gone"
    /\ late # {} => srv = "forced" /\ main \in Waited \cup {"exited"}
    /\ db = "leaked" => late # {}
    /\ main \in {"waitIngest", "unhooked"} => prof # "plugin"
    /\ file = "flushed" /\ ~stuck => done /\ prof # "plugin"

ServiceInv == TypeOK /\ CountInv /\ CloseInv
\* Starting the profile does nothing once Close has begun to wait.
LEMMA ProfileStarts ==
    ASSUME TypeOK, StartCPUProfile
    PROVE  /\ prof' \in {"free", "ingest", "plugin"} /\ file' \in {"none", "empty", "flushed"}
           /\ done => prof' = prof /\ file' = file
           /\ ~done => file' # "flushed" \/ file' = file
BY DEF TypeOK, StartCPUProfile, Profiling

LEMMA ProfilerKeeps ==
    ASSUME ServiceInv, Profiler
    PROVE  ServiceInv'
<1>1. UNCHANGED <<main, http, refresher, db, ingest, term, terms>>
  BY DEF Profiler
<1>2. /\ prof' \in {"free", "ingest", "plugin"} /\ file' \in {"none", "empty", "flushed"}
      /\ rotator' \in {"idle", "pending", "restart"} /\ usrs' \in 0 .. MaxUsr /\ stuck' \in BOOLEAN
      /\ coord' \in {"waiting", "gone"}
      /\ done => prof' \in {prof, "free"} /\ file' \in {file, "none", "flushed"}
      /\ (file' = "flushed" /\ ~stuck') => file = "flushed" /\ ~stuck
  <2> USE DEF ServiceInv, TypeOK, CloseInv
  <2>1. CASE Coordinate
    BY <2>1, ProfileStarts DEF Coordinate
  <2>2. CASE SignalUsr
    BY <2>2, SignalAssumption DEF SignalUsr
  <2>3. CASE RotateFlush
    BY <2>3 DEF RotateFlush
  <2>4. CASE RotateStart
    BY <2>4, ProfileStarts DEF RotateStart
  <2>5. QED
    BY <2>1, <2>2, <2>3, <2>4 DEF Profiler
<1>3. TypeOK'
  BY <1>1, <1>2 DEF ServiceInv, TypeOK, http
<1>4. CountInv'
  BY <1>1 DEF ServiceInv, CountInv, In, http
<1>5. CloseInv'
  BY <1>1, <1>2 DEF ServiceInv, CloseInv, TypeOK, Waited, http
<1>6. QED
  BY <1>3, <1>4, <1>5 DEF ServiceInv

\* What every handler's step leaves alone.
LEMMA HandlerTouches ==
    ASSUME ServiceInv, NEW r \in Reqs, Handler(r)
    PROVE  /\ UNCHANGED <<main, refresher, db, ingest, term, terms, pprof, done, late>>
           /\ srv' = srv \/ (srv = "up" /\ srv' = "draining")
           /\ req[r] # "away" \/ (main = "serving" /\ srv = "up")
           /\ \A q \in Reqs \ {r} : req'[q] = req[q]
<1> USE DEF ServiceInv, CountInv, TypeOK, Waiting, Slotted
<1>1. CASE Dispatch(r) \/ Count(r)
  BY <1>1 DEF Handler, Dispatch, Count
<1>2. CASE HandleShutdown(r) \/ HandleLight(r)
  BY <1>2 DEF Handler, HandleShutdown, HandleLight
<1>3. CASE TakeRequest(r) \/ ReadBody(r) \/ BadBody(r)
  BY <1>3 DEF Handler, TakeRequest, ReadBody, BadBody
<1>4. CASE TakeJob(r) \/ OpenIter(r) \/ FinishJob(r)
  BY <1>4 DEF Handler, TakeJob, OpenIter, FinishJob
<1>5. QED
  BY <1>1, <1>2, <1>3, <1>4 DEF Handler

LEMMA HandlerKeeps ==
    ASSUME ServiceInv, NEW r \in Reqs, Handler(r)
    PROVE  ServiceInv'
<1>1. CountInv'
  BY HandlerCounts DEF ServiceInv
<1>2. TypeOK'
  <2>1. In(Held)' \subseteq Reqs /\ In(Slotted)' \subseteq Reqs /\ In(Job)' \subseteq Reqs
    BY DEF In
  <2>2. /\ IsFiniteSet(In(Held)') /\ IsFiniteSet(In(Slotted)') /\ IsFiniteSet(In(Job)')
        /\ Cardinality(In(Held)') <= Cardinality(Reqs)
    BY <2>1, SemAssumption, FS_Subset
  <2>3. handlers' \in 0 .. Cardinality(Reqs) /\ requests' \in 0 .. MaxRequests /\ jobs' \in 0 .. MaxJobs
    BY <1>1, <2>2, FS_CardinalityType, SemAssumption DEF CountInv
  <2>4. req' \in [Reqs -> ReqStates]
    BY <1>1 DEF CountInv
  <2>5. srv' \in {"nil", "up", "draining", "forced"}
    BY HandlerTouches DEF ServiceInv, TypeOK
  <2>6. UNCHANGED <<main, refresher, db, ingest, term, terms, pprof, done, late>>
    BY HandlerTouches
  <2>7. QED
    BY <2>3, <2>4, <2>5, <2>6 DEF ServiceInv, TypeOK, pprof
<1>3. CloseInv'
  <2>1. /\ UNCHANGED <<main, refresher, db, done, late, prof, file, stuck>>
        /\ srv' = srv \/ (srv = "up" /\ srv' = "draining")
        /\ req[r] # "away" \/ main = "serving"
        /\ \A q \in Reqs \ {r} : req'[q] = req[q]
    BY HandlerTouches DEF pprof
  <2>2. main \in {"waitHandlers"} \cup Waited => (srv' = "forced" \/ \A q \in Reqs : req'[q] = "away")
    BY <2>1 DEF ServiceInv, CloseInv, Waited
  <2>3. main \in Waited => {q \in Reqs : req'[q] # "away"} \subseteq late
    BY <2>1 DEF ServiceInv, CloseInv, Waited
  <2>4. late # {} => srv' = "forced"
    BY <2>1 DEF ServiceInv, CloseInv
  <2>5. QED
    BY <2>1, <2>2, <2>3, <2>4 DEF ServiceInv, CloseInv
<1>4. QED
  BY <1>1, <1>2, <1>3 DEF ServiceInv

LEMMA RefreshKeeps ==
    ASSUME ServiceInv, Refresh
    PROVE  ServiceInv'
<1>1. UNCHANGED <<main, http, db, ingest, term, terms, pprof>> /\ refresher' \in {"scan", "sleep", "gone"}
      /\ refresher # "gone"
  BY DEF Refresh, EndRefresh, WakeRefresh
<1>2. TypeOK' /\ CountInv'
  BY <1>1 DEF ServiceInv, TypeOK, CountInv, In, http, pprof
<1>3. CloseInv'
  BY <1>1 DEF ServiceInv, CloseInv, Waited, http, pprof
<1>4. QED
  BY <1>2, <1>3 DEF ServiceInv

LEMMA IngestKeeps ==
    ASSUME ServiceInv, Ingest
    PROVE  ServiceInv'
<1>1. UNCHANGED <<main, http, refresher, db, terms, file, rotator, usrs, stuck, coord>>
  BY DEF Ingest
<1>2. /\ ingest' \in {"starting", "running", "closing", "done", "failed"}
      /\ term' \in [service : {"armed", "pending", "gone"}, ingest : {"off", "armed", "pending"}]
      /\ prof' \in {prof, "free", "ingest"}
  <2> USE DEF ServiceInv, TypeOK
  <2>1. CASE IngestInit
    BY <2>1 DEF IngestInit
  <2>2. CASE IngestReturn
    BY <2>2 DEF IngestReturn
  <2>3. CASE IngestClose
    BY <2>3 DEF IngestClose
  <2>4. QED
    BY <2>1, <2>2, <2>3 DEF Ingest
<1>3. TypeOK'
  BY <1>1, <1>2 DEF ServiceInv, TypeOK, http
<1>4. CountInv'
  BY <1>1 DEF ServiceInv, CountInv, In, http
<1>5. CloseInv'
  BY <1>1, <1>2 DEF ServiceInv, CloseInv, Waited, http
<1>6. QED
  BY <1>3, <1>4, <1>5 DEF ServiceInv

LEMMA SignalsKeep ==
    ASSUME ServiceInv, Signals
    PROVE  ServiceInv'
<1>1. UNCHANGED <<refresher, db, ingest, pprof, done, req, handlers, requests, jobs, late>>
  <2>1. CASE SignalTerm \/ IngestExit
    BY <2>1 DEF Signals, SignalTerm, IngestExit, http
  <2>2. CASE TakeTerm
    BY <2>2 DEF Signals, TakeTerm
  <2>3. CASE ForceClose
    BY <2>3 DEF Signals, ForceClose
  <2>4. QED
    BY <2>1, <2>2, <2>3 DEF Signals
<1>2. /\ main' \in {main, "exited"} /\ terms' \in 0 .. MaxTerm
      /\ term' \in [service : {"armed", "pending", "gone"}, ingest : {"off", "armed", "pending"}]
      /\ srv' \in {"nil", "up", "draining", "forced"} /\ (srv = "forced" => srv' = "forced")
  <2> USE DEF ServiceInv, TypeOK
  <2>1. CASE SignalTerm
    BY <2>1, SignalAssumption DEF SignalTerm, http
  <2>2. CASE TakeTerm
    BY <2>2 DEF TakeTerm
  <2>3. CASE IngestExit
    BY <2>3 DEF IngestExit, http
  <2>4. CASE ForceClose
    BY <2>4 DEF ForceClose
  <2>5. QED
    BY <2>1, <2>2, <2>3, <2>4 DEF Signals
<1>3. TypeOK'
  BY <1>1, <1>2 DEF ServiceInv, TypeOK, Mains, pprof
<1>4. CountInv'
  BY <1>1 DEF ServiceInv, CountInv, In
<1>5. CloseInv'
  BY <1>1, <1>2 DEF ServiceInv, CloseInv, Waited, pprof
<1>6. QED
  BY <1>3, <1>4, <1>5 DEF ServiceInv

\* The steps of Execute and of Close, in their order.
LEMMA MainKeeps ==
    ASSUME ServiceInv, Main
    PROVE  ServiceInv'
<1>1. UNCHANGED <<req, handlers, requests, jobs, refresher, ingest, term, terms, rotator, usrs, stuck, coord>>
  BY DEF Main
<1>2. CountInv'
  BY <1>1 DEF ServiceInv, CountInv, In
<1> USE DEF ServiceInv, TypeOK, CloseInv, Mains, Waited
<1>3. CASE Listen
  BY <1>1, <1>2, <1>3 DEF Listen
<1>4. CASE ListenReturn
  BY <1>1, <1>2, <1>4 DEF ListenReturn
<1>5. CASE CloseServer
  <2>1. main = "closing" /\ late = {} /\ UNCHANGED <<late, db, prof, file>>
    BY <1>5 DEF CloseServer
  <2>2. CASE srv' = "draining" /\ UNCHANGED <<main, done>>
    BY <1>1, <1>2, <2>1, <2>2
  <2>3. CASE /\ srv = "forced" \/ \A r \in Reqs : req[r] = "away"
             /\ main' = "waitHandlers" /\ done' = TRUE /\ UNCHANGED srv
    BY <1>1, <1>2, <2>1, <2>3
  <2>4. QED
    BY <1>5, <2>2, <2>3 DEF CloseServer
<1>6. CASE WaitHandlers
  <2>1. In(Held) = {}
    BY <1>6, InIsFinite, FS_EmptySet DEF WaitHandlers, CountInv
  <2>2. {q \in Reqs : req[q] # "away"} \subseteq late'
    BY <1>6, <2>1 DEF WaitHandlers, In, Held, ReqStates, Waiting
  <2>3. main' = "waitBg" /\ main = "waitHandlers" /\ UNCHANGED <<srv, done, db, prof, file>> /\ late' \subseteq Reqs
        /\ late' \subseteq {q \in Reqs : req[q] # "away"}
    BY <1>6 DEF WaitHandlers
  <2>4. late = {} /\ db # "leaked" /\ done /\ (srv = "forced" \/ \A q \in Reqs : req[q] = "away")
    BY <2>3
  <2>5. TypeOK'
    BY <1>1, <2>3
  <2>6. CloseInv'
    BY <1>1, <2>2, <2>3, <2>4
  <2>7. QED
    BY <1>2, <2>5, <2>6
<1>7. CASE WaitBg
  BY <1>1, <1>2, <1>7 DEF WaitBg
<1>8. CASE StopProfile
  BY <1>1, <1>2, <1>8 DEF StopProfile, Profiling
<1>9. CASE WaitIngest
  BY <1>1, <1>2, <1>9 DEF WaitIngest
<1>10. CASE DbClose
  BY <1>1, <1>2, <1>10 DEF DbClose, IterOpen
<1>11. CASE Exit
  BY <1>1, <1>2, <1>11 DEF Exit
<1>12. QED
  BY <1>3, <1>4, <1>5, <1>6, <1>7, <1>8, <1>9, <1>10, <1>11 DEF Main

LEMMA ServiceStep ==
    ASSUME ServiceInv, [Next]_vars
    PROVE  ServiceInv'
<1>1. CASE UNCHANGED vars
  BY <1>1 DEF vars, http, pprof, ServiceInv, TypeOK, CountInv, CloseInv, In
<1>2. QED
  BY <1>1, MainKeeps, RefreshKeeps, ProfilerKeeps, IngestKeeps, SignalsKeep, HandlerKeeps DEF Next

LEMMA ServiceInit == Init => ServiceInv
<1> SUFFICES ASSUME Init PROVE ServiceInv
  OBVIOUS
<1>1. Cardinality(Reqs) \in Nat
  BY SemAssumption, FS_CardinalityType
<1>2. TypeOK
  <2>1. req \in [Reqs -> ReqStates] /\ handlers \in 0 .. Cardinality(Reqs) /\ requests \in 0 .. MaxRequests
        /\ jobs \in 0 .. MaxJobs /\ terms \in 0 .. MaxTerm /\ usrs \in 0 .. MaxUsr
    BY <1>1, SemAssumption, SignalAssumption DEF Init, ReqStates
  <2>2. QED
    BY <2>1 DEF Init, TypeOK, Mains
<1>3. CloseInv
  BY DEF Init, CloseInv, Waited
<1>4. QED
  BY <1>2, <1>3, CountInit DEF ServiceInv

(* Wherever the signals, the drain and the requests fall, Close waits for  *)
(* every handler it can know of, and the flush is not refused for one.     *)
THEOREM CloseHasWaited == Spec => []CloseWaitsForReaders
<1>1. ServiceInv => CloseWaitsForReaders
  BY DEF ServiceInv, CloseInv, CloseWaitsForReaders, Waited
<1>2. QED
  BY <1>1, ServiceInit, ServiceStep, PTL DEF Spec

(* No start of the profile, late or half of a rotation, survives Close or  *)
(* truncates a profile that was flushed.                                   *)
THEOREM ProfilesAreKept == Spec => ProfilesKept
<1> DEFINE Stopped == main \in {"waitIngest", "unhooked"} => prof # "plugin"
           Kept    == file = "flushed" /\ ~stuck => file' = "flushed"
<1>1. ServiceInv => Stopped
  BY DEF ServiceInv, CloseInv
<1>2. ASSUME ServiceInv, [Next]_vars PROVE Kept
  <2> SUFFICES ASSUME file = "flushed", ~stuck PROVE file' = "flushed"
    OBVIOUS
  <2>1. done /\ prof # "plugin"
    BY <1>2 DEF ServiceInv, CloseInv
  <2>2. CASE Main
    BY <2>1, <2>2 DEF Main, Listen, ListenReturn, CloseServer, WaitHandlers, WaitBg, StopProfile, WaitIngest,
       DbClose, Exit, Profiling
  <2>3. CASE Profiler
    BY <2>1, <2>3 DEF Profiler, Coordinate, SignalUsr, RotateFlush, RotateStart, StartCPUProfile, Profiling
  <2>4. CASE Refresh \/ Ingest \/ Signals \/ (\E r \in Reqs : Handler(r)) \/ UNCHANGED vars
    BY <2>4 DEF Refresh, Ingest, Signals, Handler, vars, pprof
  <2>5. QED
    BY <1>2, <2>2, <2>3, <2>4 DEF Next
<1>3. (ServiceInv /\ [Next]_vars) => [Kept]_file
  BY <1>2
<1>4. Spec => []ServiceInv
  BY ServiceInit, ServiceStep, PTL DEF Spec
<1> HIDE DEF Stopped, Kept
<1>5. Spec => []Stopped /\ [][Kept]_file
  BY <1>1, <1>3, <1>4, PTL DEF Spec
<1>6. QED
  BY <1>5 DEF ProfilesKept, Stopped, Kept

-----------------------------------------------------------------------------
(*        The ingest: what the files on disk claim over several lives      *)

Wiping    == {"wipe_db", "wipe_progress", "wipe_steps", "wipe_marker"}
Migrating == {"mismatch_steps", "mismatch_progress"}
Running   == Pipeline \cup {"finished", "serving"}

\* The rows the host still has: stored, on their way, or excused.
Volatile == chan \cup batch \cup mem
Have     == disk \cup Volatile \cup excused

\* What a life relies on beside the files: the positions it has in memory, the
\* lines it has scanned, the collectinfo files it has processed.
Noted   == {r \in LogRows : prog[r[1]].fin \/ r[2] <= ResumeAt(prog[r[1]])}
Scanned == {r \in LogRows : r[2] <= read[r[1]]}
Relied  == Claimed \cup Noted \cup Scanned \cup cf

HostInv ==
    /\ HostTypeOK
    /\ phase \notin Running =>
          /\ Volatile = {} /\ gaveUp = {} /\ cf = {} /\ cfOn = "wait"
          /\ closing = "no" /\ ~signal /\ read = [f \in Files |-> 0]
    /\ ~Wal /\ ~marker => Volatile \subseteq disk \cup excused
    /\ oldDb => mode.upgrade /\ ~marker /\ phase \in {"down", "open"}
    /\ phase \in Migrating => mode.upgrade
    /\ phase = "mismatch_progress" => steps = {}
    /\ phase \in Wiping => marker /\ ~Wal
    /\ phase \in {"wipe_steps", "wipe_marker"} => logFile = Fresh
    /\ phase = "wipe_marker" => steps \cap Process = {}
    /\ (phase = "down" /\ ~WipeDue) \/ phase = "open" =>
          oldDb \/ Claimed \subseteq disk \cup excused
    /\ phase \in Running => Relied \subseteq Have

\* Where the parsers resume: never past the saved position, nor, since that is
\* at most a buffer ahead, past the lines whose rows were pushed.
LEMMA ResumesBehind ==
    ASSUME mode \in Modes, NEW p \in [pos : 0..Lines, fin : BOOLEAN]
    PROVE  /\ ResumeAt(p) \in 0..Lines
           /\ \A n \in 0..Lines : p.pos <= n + Ahead => ResumeAt(p) <= n
<1>1. Lines \in Nat \ {0} /\ Ahead \in Nat
  BY IngestAssumption DEF Lines
<1>2. p.pos \in 0..Lines
  OBVIOUS
<1>3. QED
  BY <1>1, <1>2 DEF ResumeAt

\* The positions that may be noted go up to a buffer ahead, within the file.
LEMMA NoteCeiling ==
    ASSUME NEW n \in Nat, NEW l \in Nat, NEW a \in Nat
    PROVE  \A p \in n..Min({l, n + a}) : p \in 0..l /\ p <= n + a
<1> DEFINE S == {l, n + a}
<1>1. \E x \in S : \A y \in S : x <= y
  BY DEF S
<1>2. Min(S) \in S /\ \A y \in S : Min(S) <= y
  <2> HIDE DEF S
  <2>1. QED
    BY <1>1 DEF Min
<1>3. Min(S) \in Int /\ Min(S) <= l /\ Min(S) <= n + a
  BY <1>2
<1>4. QED
  BY <1>3

\* A saved progress nobody has worked on claims nothing.
LEMMA FreshClaimsNothing ==
    ASSUME mode \in Modes, UNCHANGED mode, logFile' = Fresh, steps' \cap Process = {}
    PROVE  Claimed' = {}
<1>1. Lines \in Nat \ {0} /\ Ahead \in Nat
  BY IngestAssumption DEF Lines
<1>2. LogRows' = LogRows /\ \A r \in LogRows : r[1] \in Files /\ r[2] \in Nat /\ r[2] > 0
  BY <1>1 DEF LogRows, Lines
<1>3. ASSUME NEW r \in LogRows PROVE ~(logFile[r[1]].fin)' /\ ~(r[2] <= ResumeAt(logFile[r[1]]))'
  BY <1>1, <1>2 DEF Fresh, ResumeAt
<1>4. QED
  BY <1>2, <1>3 DEF Claimed, Process

\* The history variable takes in what a step leaves unwatched, drops or never
\* reads, and keeps what it holds unless the store is wiped.
LEMMA ExcuseTakesIn ==
    ASSUME Excuse
    PROVE  /\ Unguarded' \cup Dropped \cup Unread \subseteq excused' \cup disk'
           /\ ~StoreWiped => excused \subseteq excused' \cup disk'
BY DEF Excuse

\* No step takes a variable out of its type.
LEMMA StaysTyped ==
    ASSUME HostTypeOK, HostNext
    PROVE  HostTypeOK'
<1> DEFINE T == /\ disk \subseteq Rows
                /\ chan \subseteq LogRows /\ batch \subseteq LogRows /\ mem \subseteq Rows
                /\ {oldDb, marker, signal} \subseteq BOOLEAN /\ steps \subseteq Stages
                /\ {logFile, prog} \subseteq [Files -> [pos : 0..Lines, fin : BOOLEAN]]
                /\ read \in [Files -> 0..Lines] /\ gaveUp \subseteq Files
                /\ cf \subseteq CfFiles /\ cfBad \subseteq CfFiles /\ cfFile \subseteq CfFiles
                /\ phase \in Pipeline \cup {"down", "wipe_db", "wipe_progress", "wipe_steps",
                       "wipe_marker", "mismatch_steps", "mismatch_progress", "open",
                       "finished", "serving"}
                /\ batcher \in {"open", "closed", "nil"} /\ cfOn \in {"wait", "run", "done"}
                /\ closing \in {"no", "drain", "progress", "db", "done"}
                /\ boots \in 0..mode.boots /\ ended \in {"never", "killed", "stopped", "clean"}
<1>1. mode \in Modes /\ mode' = mode /\ T /\ excused \subseteq Rows
  BY DEF HostTypeOK, HostNext
<1>2. Lines \in Nat \ {0} /\ Ahead \in Nat /\ mode.boots \in Nat
  BY <1>1, IngestAssumption DEF Lines
<1>3. Lines' = Lines /\ Rows' = Rows /\ LogRows' = LogRows /\ Wal' = Wal
  BY <1>1 DEF Lines, Rows, LogRows, Wal
<1>4. LogRows \subseteq Rows /\ CfFiles \subseteq Rows
  BY DEF Rows
<1>5. Fresh \in [Files -> [pos : 0..Lines, fin : BOOLEAN]]
  BY <1>2 DEF Fresh
<1>6. \A i \in 1..3 : Early[i] \in Stages
  BY DEF Early, Stages, Range
<1>7. Process \subseteq Stages
  BY DEF Stages
<1>8. T'
  <2> USE <1>1, <1>2, <1>3 DEF saved, logs, infos
  <2>1. CASE Boot
    BY SMTT(60), <2>1 DEF Boot, files, rows, work, life, Pipeline
  <2>2. CASE WipeOnDirty
    BY ZenonT(60), <2>2, <1>5 DEF WipeOnDirty, WipeDb, WipeProgress, WipeSteps, WipeMarker, files, rows, work, life, past, Pipeline
  <2>3. CASE WipeOnVersionMismatch
    BY ZenonT(60), <2>3, <1>5 DEF WipeOnVersionMismatch, rows, work, life, past, Pipeline
  <2>4. CASE FinalizeInit
    BY SMTT(60), <2>4 DEF FinalizeInit, rows, past, Pipeline
  <2>5. ASSUME NEW kept, NEW how \in {"killed", "stopped", "clean"}, Die(kept, how), kept \subseteq Rows PROVE T'
    <3>1. disk' \subseteq Rows /\ phase' = "down" /\ ended' = how
      BY <2>5 DEF Die
    <3>2. chan' = {} /\ batch' = {} /\ mem' = {} /\ cf' = {} /\ cfOn' = "wait" /\ cfBad' = {}
      BY <2>5 DEF Die
    <3>3. prog' = Fresh /\ read' \in [Files -> 0..Lines] /\ gaveUp' = {}
      BY <2>5 DEF Die
    <3>4. batcher' = "nil" /\ closing' = "no" /\ signal' = FALSE
      BY <2>5 DEF Die
    <3>5. UNCHANGED <<oldDb, marker, steps, logFile, cfFile, boots>>
      BY <2>5 DEF Die
    <3>6. QED
      BY <3>1, <3>2, <3>3, <3>4, <3>5, <1>5
  <2>6. CASE EarlyStage
    BY <2>6, <1>6 DEF EarlyStage, rows, work, life, past, Pipeline
  <2>7. CASE StageFails \/ StagesDone \/ PrepError
    BY <2>7 DEF StageFails, StagesDone, PrepError, files, rows, work, life, past, Pipeline
  <2>8. CASE Prep
    <3>1. read' \in [Files -> 0..Lines]
      BY <2>8, ResumesBehind DEF Prep
    <3>2. QED
      BY <2>8, <3>1 DEF Prep, rows, life, past, Pipeline
  <2>9. ASSUME NEW f \in Files, ScanLine(f) PROVE T'
    <3>1. <<f, read[f] + 1>> \in LogRows
      BY <2>9 DEF ScanLine, Parsing, LogRows
    <3>2. read' \in [Files -> 0..Lines]
      BY <2>9 DEF ScanLine
    <3>3. chan' \subseteq LogRows
      BY <2>9, <3>1 DEF ScanLine
    <3>4. UNCHANGED <<files, phase, prog, gaveUp, infos, batch, mem, life, past>>
      BY <2>9 DEF ScanLine
    <3>5. QED
      BY <3>2, <3>3, <3>4 DEF files, life, past
  <2>10. ASSUME NEW f \in Files, FinishFile(f) \/ GiveUpFile(f) PROVE T'
    <3>1. prog' \in [Files -> [pos : 0..Lines, fin : BOOLEAN]]
      <4>1. [pos |-> Lines, fin |-> TRUE] \in [pos : 0..Lines, fin : BOOLEAN]
        OBVIOUS
      <4>2. prog' \in {prog, [prog EXCEPT ![f] = [pos |-> Lines, fin |-> TRUE]]}
        BY <2>10 DEF FinishFile, GiveUpFile
      <4>3. QED
        BY <4>1, <4>2
    <3>2. gaveUp' \subseteq Files /\ UNCHANGED <<files, phase, read, infos, rows, life, past>>
      BY <2>10 DEF FinishFile, GiveUpFile
    <3>3. UNCHANGED <<disk, oldDb, marker, steps, logFile, cfFile, phase, read, cf, cfOn, cfBad,
                      chan, batch, mem, batcher, closing, signal, boots, ended>>
      BY <3>2 DEF files, rows, life, past
    <3>4. {logFile, prog}' \subseteq [Files -> [pos : 0..Lines, fin : BOOLEAN]]
      BY <3>1, <3>3
    <3>5. QED
      BY <3>2, <3>3, <3>4
  <2>11. ASSUME NEW f \in Files, NotePosition(f) PROVE T'
    <3>1. read[f] \in Nat
      OBVIOUS
    <3>2. \A p \in read[f]..Min({Lines, read[f] + Ahead}) : p \in 0..Lines
      BY <3>1, NoteCeiling
    <3>3. PICK p \in read[f]..Min({Lines, read[f] + Ahead}) : prog' = [prog EXCEPT ![f].pos = p]
      BY <2>11 DEF NotePosition
    <3>4. p \in 0..Lines
      BY <3>2, Zenon
    <3>5. QED
      BY <2>11, <3>3, <3>4 DEF NotePosition, files, rows, life, past
  <2>12. ASSUME NEW r \in LogRows, PutData(r) PROVE T'
    BY <2>12, <2>5, <1>4 DEF PutData, files, work, life, past
  <2>13. CASE FlushShard
    BY <2>13, <1>4 DEF FlushShard, files, work, life, past
  <2>14. CASE LogsDurable \/ LogsNotDurable \/ ClearMarker \/ MemtableFlush
    <3>1. CASE LogsDurable \/ MemtableFlush
      BY <3>1 DEF LogsDurable, MemtableFlush, work, life, past, Pipeline
    <3>2. CASE LogsNotDurable \/ ClearMarker
      BY <3>2 DEF LogsNotDurable, ClearMarker, files, rows, work, life, past, Pipeline
    <3>3. QED
      BY <2>14, <3>1, <3>2
  <2>15. CASE StartCollectInfo \/ CollectInfoDone
    BY <2>15 DEF StartCollectInfo, CollectInfoDone, files, rows, life, past
  <2>16. ASSUME NEW c \in CfFiles, ProcessCollectInfoFile(c) PROVE T'
    BY <2>16, <1>4 DEF ProcessCollectInfoFile, files, life, past
  <2>17. CASE FinishSteps
    BY <2>17, <1>7 DEF FinishSteps, rows, work, life, past, Pipeline
  <2>18. CASE Close
    BY <2>18 DEF Close, work, past
  <2>19. CASE SignalExit \/ Crash
    BY <2>19, <2>5 DEF SignalExit, Crash
  <2>20. CASE RunReturns \/ StopService
    BY <2>20, <2>5 DEF RunReturns, StopService, files, rows, work, life, past, Pipeline
  <2>21. CASE Signal \/ SaveProgress
    BY <2>21 DEF Signal, SaveProgress, files, rows, work, life, past
  <2>22. QED
    BY <2>1, <2>2, <2>3, <2>4, <2>6, <2>7, <2>8, <2>9, <2>10, <2>11, <2>12, <2>13, <2>14,
       <2>15, <2>16, <2>17, <2>18, <2>19, <2>20, <2>21 DEF HostNext, Step
<1>9. excused' \subseteq Rows
  <2>1. Excuse
    BY DEF HostNext
  <2>2. Unguarded' \cup Dropped \cup Unread \subseteq Rows
    BY <1>1, <1>3, <1>4, <1>8 DEF Unguarded, Dropped, Unread
  <2>3. QED
    BY <2>1, <2>2, <1>1 DEF Excuse
<1>10. QED
  BY <1>1, <1>8, <1>9, <1>3 DEF HostTypeOK

LEMMA Unmoved ==
    ASSUME UNCHANGED mode
    PROVE  /\ UNCHANGED <<steps, logFile>> => UNCHANGED Claimed
           /\ UNCHANGED prog => UNCHANGED Noted
           /\ UNCHANGED read => UNCHANGED Scanned
           /\ UNCHANGED LogRows /\ UNCHANGED Wal
BY DEF Claimed, Noted, Scanned, LogRows, ResumeAt, Lines, Wal

\* Saving the progress claims no more than the life relied on before.
LEMMA SaveClaims ==
    ASSUME UNCHANGED <<mode, steps>>, logFile' = prog
    PROVE  Claimed' \subseteq Claimed \cup Noted
BY DEF Claimed, Noted, LogRows, ResumeAt, Lines

\* A step within a life loses nothing the host still has, whatever the store
\* refuses: a batch it fails to commit counts as excused.
LEMMA HaveGrows ==
    ASSUME Excuse, disk \subseteq disk', phase' \in Running,
           mem \subseteq Have'
    PROVE  Have \subseteq Have'
<1>1. excused \cup Dropped \subseteq excused' \cup disk'
  BY ExcuseTakesIn DEF StoreWiped, Running, Pipeline
<1>2. chan \cup batch \subseteq Dropped \cup chan' \cup batch' \cup mem' \cup disk'
  BY DEF Dropped, Running, Pipeline
<1>3. QED
  BY <1>1, <1>2 DEF Have, Volatile

\* A step within a life keeps the invariant if it still has what it relies on.
LEMMA LifeGoesOn ==
    ASSUME HostInv, HostTypeOK', Excuse, UNCHANGED <<mode, oldDb>>,
           phase \in Running, phase' \in Running,
           Relied' \subseteq Have'
    PROVE  HostInv'
<1>1. ~Wal' /\ ~marker' => Volatile' \subseteq disk' \cup excused'
  BY ExcuseTakesIn DEF Unguarded, Volatile
<1>2. ~oldDb'
  BY DEF HostInv, Running, Pipeline
<1>3. phase' \notin {"down", "open"} \cup Wiping \cup Migrating
  BY DEF Running, Pipeline, Wiping, Migrating
<1>4. QED
  BY <1>1, <1>2, <1>3 DEF HostInv, Wiping, Migrating

\* However a life ends, its files claim nothing that is neither stored nor
\* excused, or the next one will wipe: with WAL a row not yet in the memtable
\* is excused when it goes; without, either the marker is there, or nothing
\* volatile was unexcused.
LEMMA LifeEnds ==
    ASSUME HostInv, HostTypeOK', Excuse, UNCHANGED mode,
           NEW kept, NEW how, Die(kept, how), phase # "down", phase \notin Migrating
    PROVE  HostInv'
<1>1. /\ phase' = "down" /\ Volatile' = {} /\ gaveUp' = {} /\ cf' = {} /\ cfOn' = "wait"
      /\ closing' = "no" /\ ~signal' /\ read' = [f \in Files |-> 0]
      /\ UNCHANGED <<oldDb, marker, steps, logFile>>
      /\ disk \subseteq disk' /\ (Wal => mem \subseteq disk')
  BY DEF Die, Volatile, saved
<1>2. UNCHANGED Claimed /\ UNCHANGED Wal /\ UNCHANGED WipeDue
  BY <1>1, Unmoved DEF WipeDue
<1>3. excused \cup Dropped \subseteq excused' \cup disk'
  BY <1>1, ExcuseTakesIn DEF StoreWiped
<1>4. ASSUME ~WipeDue, ~oldDb PROVE Claimed \subseteq disk' \cup excused'
  <2>1. CASE phase = "open"
    BY <2>1, <1>1, <1>3, <1>4 DEF HostInv
  <2>2. CASE phase \in Wiping
    BY <2>2, <1>4 DEF HostInv, WipeDue
  <2>3. CASE phase \in Running
    <3>1. Claimed \subseteq Have
      BY <2>3 DEF HostInv, Relied
    <3>2. Volatile \subseteq disk' \cup excused'
      <4>1. CASE Wal
        BY <4>1, <1>1, <1>3 DEF Dropped, Volatile
      <4>2. CASE ~Wal
        BY <4>2, <1>1, <1>3, <1>4 DEF HostInv, WipeDue
      <4>3. QED
        BY <4>1, <4>2
    <3>3. QED
      BY <3>1, <3>2, <1>1, <1>3 DEF Have
  <2>4. QED
    BY <2>1, <2>2, <2>3 DEF HostInv, HostTypeOK, Running, Wiping, Migrating, Pipeline
<1>5. "down" \notin Running \cup Wiping \cup Migrating
  BY DEF Running, Pipeline, Wiping, Migrating
<1>6. oldDb' => mode'.upgrade /\ ~marker' /\ phase' \in {"down", "open"}
  BY <1>1 DEF HostInv
<1>7. QED
  BY <1>1, <1>2, <1>4, <1>5, <1>6 DEF HostInv

\* The steps between two lives: the boot, the two wipes, and the start of the next.
LEMMA NextLifeStarts ==
    ASSUME HostInv, HostTypeOK', Excuse, UNCHANGED mode,
           Boot \/ WipeOnDirty \/ WipeOnVersionMismatch
    PROVE  HostInv'
<1> USE DEF Running, Pipeline, Wiping, Migrating, saved, logs, infos
<1>1. phase \notin Running /\ phase' \notin Running /\ UNCHANGED <<rows, work, closing, signal>>
  BY DEF Boot, WipeOnDirty, WipeDb, WipeProgress, WipeSteps, WipeMarker, WipeOnVersionMismatch, life, work
<1>2. /\ Volatile' = {} /\ gaveUp' = {} /\ cf' = {} /\ cfOn' = "wait"
      /\ closing' = "no" /\ ~signal' /\ read' = [f \in Files |-> 0]
  BY <1>1 DEF HostInv, Volatile, rows, work
<1>3. UNCHANGED Wal
  BY DEF Wal
<1>4. Boot => excused \subseteq excused' \cup disk'
  BY ExcuseTakesIn DEF Boot, StoreWiped
<1>5. UNCHANGED <<steps, logFile>> => UNCHANGED Claimed
  BY Unmoved
<1>6. CASE Boot
  BY <1>1, <1>2, <1>3, <1>4, <1>5, <1>6 DEF Boot, HostInv, WipeDue, files
<1>7. CASE WipeDb
  BY <1>1, <1>2, <1>3, <1>7 DEF WipeDb, HostInv
<1>8. CASE WipeProgress
  BY <1>1, <1>2, <1>3, <1>8 DEF WipeProgress, HostInv, Fresh
<1>9. CASE WipeSteps
  BY <1>1, <1>2, <1>3, <1>9 DEF WipeSteps, HostInv, Fresh
<1>10. CASE WipeMarker
  <2>1. Claimed' = {}
    BY <1>10, FreshClaimsNothing DEF WipeMarker, HostInv, HostTypeOK
  <2>2. QED
    BY <2>1, <1>1, <1>2, <1>3, <1>10 DEF WipeMarker, HostInv
<1>11. CASE WipeOnVersionMismatch
  <2>1. CASE phase = "open"
    BY <2>1, <1>1, <1>2, <1>3, <1>11 DEF WipeOnVersionMismatch, HostInv
  <2>2. CASE phase = "mismatch_steps"
    BY <2>2, <1>1, <1>2, <1>3, <1>11 DEF WipeOnVersionMismatch, HostInv
  <2>3. CASE phase = "mismatch_progress"
    <3>1. steps' = {} /\ logFile' = Fresh /\ phase' = "open" /\ ~marker' /\ ~oldDb'
      BY <2>3, <1>11 DEF WipeOnVersionMismatch, HostInv
    <3>2. Claimed' = {}
      BY <3>1, FreshClaimsNothing DEF HostInv, HostTypeOK
    <3>3. QED
      BY <3>1, <3>2, <1>1, <1>2, <1>3 DEF HostInv
  <2>4. QED
    BY <2>1, <2>2, <2>3, <1>11 DEF WipeOnVersionMismatch
<1>12. QED
  BY <1>6, <1>7, <1>8, <1>9, <1>10, <1>11 DEF WipeOnDirty

\* finalizeInit: the new life relies on the files, and they claim what is stored.
LEMMA LifeStarts ==
    ASSUME HostInv, HostTypeOK', Excuse, UNCHANGED mode, FinalizeInit
    PROVE  HostInv'
<1>1. /\ Volatile' = {} /\ gaveUp' = {} /\ cf' = {} /\ cfOn' = "wait" /\ read' = [f \in Files |-> 0]
      /\ disk' = disk /\ phase' = "stages" /\ ~oldDb' /\ marker' /\ prog' = logFile'
      /\ UNCHANGED <<steps, logFile>>
  BY DEF FinalizeInit, HostInv, Volatile, rows, saved, Running, Pipeline
<1>2. Claimed \subseteq disk' \cup excused'
  BY <1>1, ExcuseTakesIn DEF FinalizeInit, HostInv, StoreWiped
<1>3. Claimed' = Claimed
  BY <1>1, Unmoved
<1>4. Noted' \subseteq Claimed'
  BY <1>1 DEF Noted, Claimed
<1>5. Scanned' = {}
  <2>1. Lines' \in Nat
    BY IngestAssumption DEF HostTypeOK, Lines
  <2>2. QED
    BY <1>1, <2>1 DEF Scanned, LogRows
<1>6. Relied' \subseteq Have'
  BY <1>1, <1>2, <1>3, <1>4, <1>5 DEF Relied, Have
<1>7. QED
  BY <1>1, <1>6 DEF HostInv, Running, Pipeline, Wiping, Migrating

\* The pipeline's own steps.
LEMMA PipelineKeeps ==
    ASSUME HostInv, HostTypeOK', Excuse, UNCHANGED mode,
           \/ EarlyStage \/ StageFails \/ StagesDone \/ Prep \/ PrepError
           \/ LogsDurable \/ LogsNotDurable \/ ClearMarker
           \/ FinishSteps \/ Signal \/ SaveProgress
    PROVE  HostInv'
<1> USE DEF Running, Pipeline, LogsDone, saved, logs, infos
<1>1. /\ phase \in Running /\ phase' \in Running /\ UNCHANGED <<oldDb, chan, batch, cf, cfOn, prog>>
      /\ disk \subseteq disk' /\ mem \subseteq mem' \cup disk'
  <2>1. CASE EarlyStage \/ StageFails \/ StagesDone \/ PrepError
    BY <2>1 DEF EarlyStage, StageFails, StagesDone, PrepError, files, rows, work
  <2>2. CASE Prep \/ FinishSteps \/ Signal \/ SaveProgress
    BY <2>2 DEF Prep, FinishSteps, Signal, SaveProgress, files, rows, work
  <2>3. CASE LogsDurable \/ LogsNotDurable \/ ClearMarker
    BY <2>3 DEF LogsDurable, LogsNotDurable, ClearMarker, files, rows, work
  <2>4. QED
    BY <2>1, <2>2, <2>3
<1>2. Have \subseteq Have'
  BY <1>1, HaveGrows DEF Have, Volatile
<1>3. Relied \subseteq Have'
  BY <1>1, <1>2 DEF HostInv
<1>4. Noted' = Noted /\ cf' = cf
  BY <1>1, Unmoved
<1>5. Claimed' \cup Scanned' \subseteq Have'
  <2>1. CASE UNCHANGED <<steps, logFile, read>>
    BY <2>1, <1>3, Unmoved DEF Relied
  <2>2. CASE EarlyStage
    <3>1. steps' \cap Process = steps \cap Process /\ UNCHANGED <<logFile, read>>
      BY <2>2 DEF EarlyStage, Early, Process, work
    <3>2. Claimed' = Claimed /\ Scanned' = Scanned
      BY <3>1 DEF Claimed, Process, Scanned, LogRows, ResumeAt, Lines
    <3>3. QED
      BY <3>2, <1>3 DEF Relied
  <2>3. CASE SaveProgress
    BY <2>3, <1>3, SaveClaims, Unmoved DEF SaveProgress, Relied, work
  <2>4. CASE Prep
    <3>1. Claimed' \subseteq Claimed \cup Noted
      BY <2>4, SaveClaims DEF Prep
    <3>2. Scanned' \subseteq Noted
      BY <2>4 DEF Prep, Scanned, Noted, LogRows, Lines
    <3>3. QED
      BY <3>1, <3>2, <1>3 DEF Relied
  <2>5. CASE FinishSteps
    <3>1. steps' = steps \cup Process /\ UNCHANGED <<logFile, read, prog, mode>>
      BY <2>5 DEF FinishSteps, work
    <3>2. Unread \subseteq Have'
      BY ExcuseTakesIn DEF Have
    <3>3. /\ \A r \in LogRows : \/ "ProcessLogs" \in steps \/ prog[r[1]].fin
                                \/ r[2] <= read[r[1]] \/ r \in Unread
          /\ \A c \in CfFiles : "ProcessCollectInfo" \in steps \/ c \in cf \/ c \in Unread
      <4>1. /\ \A r \in LogRows : read[r[1]] < r[2] \/ r[2] <= read[r[1]]
            /\ steps' \ steps = Process \ steps
        BY <3>1, IngestAssumption DEF HostInv, HostTypeOK, LogRows, Lines
      <4>2. QED
        BY <4>1 DEF Unread, Process
    <3>4. LogRows \subseteq Have'
      BY <3>2, <3>3, <1>3 DEF Relied, Claimed, Noted, Scanned
    <3>5. CfFiles \subseteq Have'
      BY <3>2, <3>3, <1>3 DEF Relied, Claimed
    <3>6. Claimed' \subseteq LogRows \cup CfFiles /\ Scanned' = Scanned
      BY <3>1, Unmoved DEF Claimed
    <3>7. QED
      BY <3>4, <3>5, <3>6, <1>3 DEF Relied
  <2>6. CASE StageFails \/ StagesDone \/ PrepError \/ LogsDurable \/ LogsNotDurable \/ ClearMarker \/ Signal
    BY <2>1, <2>6 DEF StageFails, StagesDone, PrepError, LogsDurable, LogsNotDurable, ClearMarker, Signal, files, work
  <2>7. QED
    BY <2>2, <2>3, <2>4, <2>5, <2>6
<1>6. Relied' \subseteq Have'
  BY <1>3, <1>4, <1>5 DEF Relied
<1>7. QED
  BY <1>1, <1>6, LifeGoesOn

\* The parsers: a row is pushed as its line is scanned, and the position noted
\* is at most a buffer ahead of it.
LEMMA ParsersKeep ==
    ASSUME HostInv, HostTypeOK', Excuse, UNCHANGED mode, NEW f \in Files,
           ScanLine(f) \/ FinishFile(f) \/ GiveUpFile(f) \/ NotePosition(f)
    PROVE  HostInv'
<1>1. /\ phase \in Running /\ phase' \in Running /\ disk' = disk /\ mem' = mem
      /\ chan \subseteq chan' /\ batch' = batch
      /\ UNCHANGED <<oldDb, steps, logFile, cf, cfOn>>
  BY DEF ScanLine, FinishFile, GiveUpFile, NotePosition, Parsing, files, rows, saved, infos, Running, Pipeline
<1>2. Have \subseteq Have'
  BY <1>1, HaveGrows DEF Have, Volatile, Running, Pipeline
<1>3. Relied \subseteq Have'
  BY <1>1, <1>2 DEF HostInv
<1>4. Claimed' = Claimed /\ cf' = cf
  BY <1>1, Unmoved
<1>5. /\ Lines \in Nat \ {0} /\ Ahead \in Nat /\ mode \in Modes
      /\ prog \in [Files -> [pos : 0..Lines, fin : BOOLEAN]] /\ read \in [Files -> 0..Lines]
  BY IngestAssumption DEF HostInv, HostTypeOK, Lines
<1>6. LogRows' = LogRows /\ Lines' = Lines /\ \A r \in LogRows : r[1] \in Files /\ r[2] \in 1..Lines
  BY DEF LogRows, Lines
<1>7. Noted' \cup Scanned' \subseteq Have'
  <2>1. CASE ScanLine(f)
    <3>1. Noted' = Noted
      BY <2>1, Unmoved DEF ScanLine
    <3>2. Scanned' \subseteq Scanned \cup {<<f, read[f] + 1>>}
      <4>1. ASSUME NEW r \in Scanned', r \notin Scanned PROVE r = <<f, read[f] + 1>>
        <5>1. r \in LogRows /\ r[2] <= read'[r[1]] /\ ~(r[2] <= read[r[1]])
          BY <4>1, <1>6 DEF Scanned
        <5>2. read' = [read EXCEPT ![f] = read[f] + 1] /\ read \in [Files -> 0..Lines] /\ Lines \in Nat
          BY <2>1, <1>5 DEF ScanLine
        <5>3. r[1] \in Files /\ r[2] \in 1..Lines
          BY <5>1, <1>6
        <5>4. r[1] = f
          BY <5>1, <5>2, <5>3
        <5>5. r[2] = read[f] + 1
          BY <5>1, <5>2, <5>3, <5>4
        <5>6. QED
          BY <5>1, <5>4, <5>5 DEF LogRows
      <4>2. QED
        BY <4>1
    <3>3. <<f, read[f] + 1>> \in Have'
      BY <2>1 DEF ScanLine, Have, Volatile
    <3>4. QED
      BY <3>1, <3>2, <3>3, <1>3 DEF Relied
  <2>2. CASE FinishFile(f)
    <3>1. Scanned' = Scanned
      BY <2>2, Unmoved DEF FinishFile
    <3>2. ASSUME NEW r \in Noted' PROVE r \in Noted \cup Scanned \cup Unread
      <4>1. CASE r[1] = f
        <5>1. phase = "logs" /\ ~prog[f].fin /\ prog'[f].fin
          BY <2>2, <1>5 DEF FinishFile, Parsing
        <5>2. r \in LogRows /\ (read[f] < r[2] \/ r[2] <= read[f])
          BY <4>1, <3>2, <1>5, <1>6 DEF Noted
        <5>3. QED
          BY <4>1, <5>1, <5>2 DEF Unread, Scanned
      <4>2. CASE r[1] # f
        BY <4>2, <3>2, <2>2, <1>5, <1>6 DEF FinishFile, Noted, ResumeAt
      <4>3. QED
        BY <4>1, <4>2
    <3>3. Unread \subseteq Have'
      BY ExcuseTakesIn DEF Have
    <3>4. QED
      BY <3>1, <3>2, <3>3, <1>3 DEF Relied
  <2>3. CASE NotePosition(f)
    <3>1. Scanned' = Scanned
      BY <2>3, Unmoved DEF NotePosition
    <3>2. PICK p \in read[f]..Min({Lines, read[f] + Ahead}) : prog' = [prog EXCEPT ![f].pos = p]
      BY <2>3 DEF NotePosition
    <3>3. \A q \in read[f]..Min({Lines, read[f] + Ahead}) : q \in 0..Lines /\ q <= read[f] + Ahead
      <4>1. read[f] \in Nat
        BY <1>5
      <4>2. QED
        BY <4>1, <1>5, NoteCeiling
    <3>4. p \in 0..Lines /\ p <= read[f] + Ahead
      BY <3>3, Zenon
    <3>5. prog'[f].pos = p /\ ~prog'[f].fin /\ \A g \in Files \ {f} : prog'[g] = prog[g]
      BY <3>2, <1>5, <2>3 DEF NotePosition, Parsing
    <3>6. ASSUME NEW r \in Noted' PROVE r \in Noted \cup Scanned
      <4>1. CASE r[1] = f
        <5>1. r \in LogRows /\ r[2] <= ResumeAt(prog[f])'
          BY <4>1, <3>5, <3>6, <1>6 DEF Noted
        <5>2. ResumeAt(prog[f])' <= read[f]
          BY <3>4, <3>5, <1>5, <1>6 DEF ResumeAt
        <5>3. ResumeAt(prog[f])' \in Nat
          BY <3>4, <3>5, <1>5, <1>6 DEF ResumeAt
        <5>4. QED
          BY <4>1, <5>1, <5>2, <5>3, <1>5, <1>6 DEF Scanned
      <4>2. CASE r[1] # f
        BY <4>2, <3>5, <3>6, <1>6 DEF Noted, ResumeAt
      <4>3. QED
        BY <4>1, <4>2
    <3>7. QED
      BY <3>1, <3>6, <1>3 DEF Relied
  <2>4. CASE GiveUpFile(f)
    BY <2>4, <1>3, Unmoved DEF GiveUpFile, Relied
  <2>5. QED
    BY <2>1, <2>2, <2>3, <2>4
<1>8. Relied' \subseteq Have'
  BY <1>3, <1>4, <1>7 DEF Relied
<1>9. QED
  BY <1>1, <1>8, LifeGoesOn

\* The rows on their way, the collectinfo goroutine, Ingest.Close and the
\* return of run into the service.
LEMMA CarriersKeep ==
    ASSUME HostInv, HostTypeOK', Excuse, UNCHANGED mode,
           \/ \E r \in LogRows : PutData(r) /\ phase' # "down"
           \/ FlushShard \/ MemtableFlush
           \/ StartCollectInfo \/ CollectInfoDone
           \/ \E c \in CfFiles : ProcessCollectInfoFile(c)
           \/ Close \/ (RunReturns /\ Service)
    PROVE  HostInv'
<1> USE DEF Running, Pipeline, LogsDone, saved, logs, infos
<1> DEFINE Keeps ==
      /\ disk \subseteq disk' /\ mem \subseteq mem' \cup disk'
      /\ UNCHANGED <<oldDb, steps, prog, read>>
      /\ phase \in Running /\ phase' \in Running
      /\ cf' \subseteq cf \cup mem' \cup Unread
      /\ logFile' \in {logFile, prog}
<1>1. Keeps
  <2>1. ASSUME NEW r \in LogRows, PutData(r), phase' # "down" PROVE Keeps
    BY <2>1 DEF PutData, Die, HostInv, Volatile, files, work
  <2>2. CASE FlushShard \/ MemtableFlush
    BY <2>2 DEF FlushShard, MemtableFlush, HostInv, Volatile, files, work
  <2>3. CASE StartCollectInfo \/ CollectInfoDone
    BY <2>3 DEF StartCollectInfo, CollectInfoDone, HostInv, files, rows
  <2>4. ASSUME NEW c \in CfFiles, ProcessCollectInfoFile(c) PROVE Keeps
    BY <2>4 DEF ProcessCollectInfoFile, HostInv, files, Unread
  <2>5. CASE Close
    BY <2>5 DEF Close, HostInv, work
  <2>6. CASE RunReturns /\ Service
    BY <2>6 DEF RunReturns, HostInv, files, rows, work
  <2>7. QED
    BY <2>1, <2>2, <2>3, <2>4, <2>5, <2>6
<1>2. Have \subseteq Have'
  BY <1>1, HaveGrows DEF Have, Volatile
<1>3. Relied \subseteq Have'
  BY <1>1, <1>2 DEF HostInv
<1>4. Noted' = Noted /\ Scanned' = Scanned
  BY <1>1, Unmoved
<1>5. Claimed' \subseteq Claimed \cup Noted
  BY <1>1, Unmoved, SaveClaims
<1>6. Unread \subseteq Have'
  BY ExcuseTakesIn DEF Have
<1>7. Relied' \subseteq Have'
  BY <1>1, <1>3, <1>4, <1>5, <1>6 DEF Relied, Have, Volatile
<1>8. QED
  BY <1>1, <1>7, LifeGoesOn

\* The process does not die in the middle of agiWipeOnVersionMismatch.
MigrationFinishes == phase \in Migrating => phase' # "down"

\* Every step keeps the invariant, but the death of a process that is in the
\* middle of agiWipeOnVersionMismatch.
LEMMA HostSteps ==
    ASSUME HostInv, HostNext, MigrationFinishes
    PROVE  HostInv'
<1>1. HostTypeOK' /\ Excuse /\ UNCHANGED mode
  BY StaysTyped DEF HostInv, HostNext
<1>2. CASE Boot \/ WipeOnDirty \/ WipeOnVersionMismatch
  BY <1>1, <1>2, NextLifeStarts
<1>3. CASE FinalizeInit
  BY <1>1, <1>3, LifeStarts
<1>4. CASE \/ EarlyStage \/ StageFails \/ StagesDone \/ Prep \/ PrepError
           \/ LogsDurable \/ LogsNotDurable \/ ClearMarker
           \/ FinishSteps \/ Signal \/ SaveProgress
  BY <1>1, <1>4, PipelineKeeps
<1>5. ASSUME NEW f \in Files, ScanLine(f) \/ FinishFile(f) \/ GiveUpFile(f) \/ NotePosition(f)
      PROVE HostInv'
  BY <1>1, <1>5, ParsersKeep
<1>6. CASE \/ FlushShard \/ MemtableFlush \/ StartCollectInfo \/ CollectInfoDone \/ Close
           \/ \E c \in CfFiles : ProcessCollectInfoFile(c)
  BY <1>1, <1>6, CarriersKeep
<1>7. ASSUME NEW r \in LogRows, PutData(r) PROVE HostInv'
  <2>1. CASE phase' = "down"
    <3>1. Die({}, "killed") /\ phase # "down"
      BY <1>7, <2>1 DEF PutData, HostInv, Volatile, files, Running, Pipeline
    <3>2. QED
      BY <1>1, <3>1, LifeEnds DEF Die, MigrationFinishes
  <2>2. CASE phase' # "down"
    BY <1>1, <1>7, <2>2, CarriersKeep
  <2>3. QED
    BY <2>1, <2>2
<1>8. CASE SignalExit
  <2>1. Die({}, "stopped") /\ phase # "down"
    BY <1>8 DEF SignalExit, HostInv, Running, Pipeline
  <2>2. QED
    BY <1>1, <2>1, LifeEnds DEF Die, MigrationFinishes
<1>9. CASE RunReturns
  <2>1. CASE Service
    BY <1>1, <1>9, <2>1, CarriersKeep
  <2>2. CASE ~Service
    <3>1. Die(mem, "clean") /\ phase # "down"
      BY <1>9, <2>2 DEF RunReturns
    <3>2. QED
      BY <1>1, <3>1, LifeEnds DEF Die, MigrationFinishes
  <2>3. QED
    BY <2>1, <2>2
<1>10. CASE StopService
  <2>1. Die(mem, "clean") /\ phase # "down"
    BY <1>10 DEF StopService
  <2>2. QED
    BY <1>1, <2>1, LifeEnds DEF Die, MigrationFinishes
<1>11. CASE Crash
  <2>1. Die({}, "killed") /\ phase # "down"
    BY <1>11 DEF Crash
  <2>2. QED
    BY <1>1, <2>1, LifeEnds DEF Die, MigrationFinishes
<1>12. QED
  BY <1>2, <1>3, <1>4, <1>5, <1>6, <1>7, <1>8, <1>9, <1>10, <1>11 DEF HostNext, Step

\* The steps that can end a life.
LEMMA OnlyDeathsEndLives ==
    ASSUME HostNext, phase # "down", phase' = "down"
    PROVE  (\E r \in LogRows : PutData(r)) \/ SignalExit \/ RunReturns \/ StopService \/ Crash
<1>1. ~(Boot \/ WipeOnDirty \/ WipeOnVersionMismatch \/ FinalizeInit)
  BY DEF Boot, WipeOnDirty, WipeDb, WipeProgress, WipeSteps, WipeMarker, WipeOnVersionMismatch, FinalizeInit
<1>2. ~(EarlyStage \/ StageFails \/ StagesDone \/ Prep \/ PrepError \/ LogsDurable \/ LogsNotDurable \/ ClearMarker)
  BY DEF EarlyStage, StageFails, StagesDone, Prep, PrepError, LogsDurable, LogsNotDurable, ClearMarker
<1>3. \A f \in Files : ~(ScanLine(f) \/ FinishFile(f) \/ GiveUpFile(f) \/ NotePosition(f))
  BY DEF ScanLine, FinishFile, GiveUpFile, NotePosition, Parsing
<1>4. ~(FlushShard \/ MemtableFlush \/ StartCollectInfo \/ CollectInfoDone \/ FinishSteps)
  BY DEF FlushShard, MemtableFlush, StartCollectInfo, CollectInfoDone, FinishSteps
<1>5. (\A c \in CfFiles : ~ProcessCollectInfoFile(c)) /\ ~(Close \/ Signal \/ SaveProgress)
  BY DEF ProcessCollectInfoFile, Close, Signal, SaveProgress
<1>6. QED
  BY <1>1, <1>2, <1>3, <1>4, <1>5 DEF HostNext, Step

LEMMA HostStarts ==
    ASSUME HostInit
    PROVE  HostInv
<1>1. Lines \in Nat \ {0} /\ Ahead \in Nat /\ mode \in Modes /\ mode.boots \in Nat /\ mode.upgrade \in BOOLEAN
  BY IngestAssumption DEF HostInit, Lines
<1>2. {Fresh, AllFinished} \subseteq [Files -> [pos : 0..Lines, fin : BOOLEAN]]
  BY <1>1 DEF Fresh, AllFinished
<1>3. HostTypeOK
  <2>1. disk = {} /\ excused = {} /\ chan = {} /\ batch = {} /\ mem = {} /\ cf = {} /\ steps \subseteq Stages
        /\ gaveUp = {} /\ cfBad = {} /\ cfFile = {}
    BY DEF HostInit
  <2>2. {oldDb, marker, signal} \subseteq BOOLEAN
    BY <1>1 DEF HostInit
  <2>3. {logFile, prog} \subseteq [Files -> [pos : 0..Lines, fin : BOOLEAN]] /\ read \in [Files -> 0..Lines]
    BY <1>1, <1>2 DEF HostInit
  <2>4. boots \in 0..mode.boots
    BY <1>1 DEF HostInit
  <2>5. QED
    BY <2>1, <2>2, <2>3, <2>4, <1>1 DEF HostInit, HostTypeOK
<1>4. Claimed = {} \/ oldDb
  <2>1. CASE ~mode.upgrade
    <3>1. \A r \in LogRows : r[1] \in Files /\ r[2] \in Nat /\ r[2] > 0
      BY <1>1 DEF LogRows
    <3>2. steps = {} /\ logFile = Fresh
      BY <2>1 DEF HostInit
    <3>3. \A r \in LogRows : ~logFile[r[1]].fin /\ ~(r[2] <= ResumeAt(logFile[r[1]]))
      BY <1>1, <3>1, <3>2 DEF Fresh, ResumeAt
    <3>4. QED
      BY <3>2, <3>3 DEF Claimed
  <2>2. QED
    BY <2>1, <1>1 DEF HostInit
<1>5. QED
  BY <1>1, <1>3, <1>4 DEF HostInit, HostInv, Volatile, Running, Pipeline, Wiping, Migrating

LEMMA HostStutters ==
    ASSUME HostInv, UNCHANGED hostVars
    PROVE  HostInv'
<1>1. UNCHANGED <<disk, oldDb, marker, steps, logFile, cfFile, chan, batch, mem, prog, read, gaveUp,
                  cf, cfOn, cfBad, batcher, closing, signal, boots, ended, phase, excused, mode>>
  BY DEF hostVars, files, saved, rows, work, logs, infos, life, past
<1>2. /\ UNCHANGED HostTypeOK /\ UNCHANGED Volatile /\ UNCHANGED Have /\ UNCHANGED Relied
      /\ UNCHANGED Claimed /\ UNCHANGED WipeDue /\ UNCHANGED Wal /\ UNCHANGED Fresh
  BY <1>1, Unmoved DEF HostTypeOK, Volatile, Have, Relied, WipeDue, Rows, LogRows, Lines, Fresh
<1>3. QED
  BY <1>1, <1>2 DEF HostInv

\* What the progress files claim is in the store, or was excused, or the next
\* start wipes: over any number of lives, crashes and stops of any host, as
\* long as no process dies half way through agiWipeOnVersionMismatch, the wipe
\* that leaves nothing behind to make the next start repeat it.
THEOREM ClaimsHold ==
    HostSpec /\ [][MigrationFinishes]_hostVars => []OnlyExcusedRowsLost
<1>1. HostInit => HostInv
  BY HostStarts
<1>2. HostInv /\ [HostNext]_hostVars /\ [MigrationFinishes]_hostVars => HostInv'
  BY HostSteps, HostStutters
<1>3. HostInv => OnlyExcusedRowsLost
  BY DEF HostInv, OnlyExcusedRowsLost
<1>4. QED
  BY <1>1, <1>2, <1>3, PTL DEF HostSpec

\* And while a process runs, every row that its files, its positions in memory,
\* the lines it has scanned or the collectinfo files it has processed stand for
\* is stored, on its way to the store, or excused.
THEOREM RunningHostHasItsRows ==
    HostSpec /\ [][MigrationFinishes]_hostVars
        => [](phase \in Running => Relied \subseteq Have)
<1>1. HostInit => HostInv
  BY HostStarts
<1>2. HostInv /\ [HostNext]_hostVars /\ [MigrationFinishes]_hostVars => HostInv'
  BY HostSteps, HostStutters
<1>3. HostInv => (phase \in Running => Relied \subseteq Have)
  BY DEF HostInv
<1>4. QED
  BY <1>1, <1>2, <1>3, PTL DEF HostSpec

\* In particular on every set of hosts where those that upgrade are not killed,
\* as in the runs.
THEOREM ClaimsHoldUndisturbed ==
    ASSUME \A m \in Modes : m.upgrade => ~m.canCrash
    PROVE  HostSpec => []OnlyExcusedRowsLost
<1>1. HostInit => HostInv
  BY HostStarts
<1>2. HostInv /\ [HostNext]_hostVars => HostInv'
  <2>1. ASSUME HostInv, HostNext, phase \in Migrating, phase' = "down" PROVE FALSE
    <3>1. ~mode.canCrash /\ phase \notin Running /\ Volatile = {} /\ closing = "no" /\ phase # "down"
      BY <2>1 DEF HostInv, HostTypeOK, Migrating, Running, Pipeline
    <3>2. (\E r \in LogRows : PutData(r)) \/ SignalExit \/ RunReturns \/ StopService \/ Crash
      BY <2>1, <3>1, OnlyDeathsEndLives
    <3>3. QED
      BY <2>1, <3>1, <3>2 DEF PutData, SignalExit, RunReturns, StopService, Crash, Volatile, Migrating
  <2>2. QED
    BY <2>1, HostSteps, HostStutters DEF MigrationFinishes
<1>3. HostInv => OnlyExcusedRowsLost
  BY DEF HostInv, OnlyExcusedRowsLost
<1>4. QED
  BY <1>1, <1>2, <1>3, PTL DEF HostSpec
=============================================================================
