----------------------------- MODULE AgiService -----------------------------
(***************************************************************************)
(* The life of the merged AGI service (cli/cmd/v1/cmdAgiExecService.go):   *)
(* one process that runs the ingest pipeline and the Grafana plugin over   *)
(* one shared database, and has to stop them in the right order.  Modelled *)
(* are main (AgiExecServiceCmd.Execute), the plugin's HTTP handlers with   *)
(* their two semaphores, its cache refresher, Shutdown and Close           *)
(* (pkg/agi/plugin), the SIGTERM goroutines of the service and of ingest,  *)
(* and the process-wide CPU profiler that ingest, a coordinator goroutine  *)
(* and the SIGUSR1 rotator share.                                          *)
(*                                                                         *)
(* What a query computes is left out; a request opens at most one          *)
(* iterator.  What ingest writes is module IngestRun's subject.            *)
(***************************************************************************)
EXTENDS Integers, FiniteSets

CONSTANTS Reqs,          \* client connections, each with one request at a time
          MaxRequests,   \* Config.MaxConcurrentRequests
          MaxJobs,       \* Config.MaxConcurrentJobs
          MaxTerm,       \* bound: SIGTERMs delivered
          MaxUsr         \* bound: SIGUSR1s delivered

ASSUME SemAssumption == IsFiniteSet(Reqs) /\ MaxRequests \in Nat \ {0} /\ MaxJobs \in Nat \ {0}
ASSUME SignalAssumption == MaxTerm \in Nat /\ MaxUsr \in Nat

VARIABLES
  main,       \* where Execute is
  srv,        \* p.srv: nil, serving, draining, or its connections force-closed
  done,       \* p.done is closed
  req,        \* where the handler of each connection is
  handlers,   \* p.handlers, the WaitGroup's counter
  requests,   \* len(p.requests)
  jobs,       \* len(p.jobs)
  late,       \* handlers Close did not wait for: not counted when Wait returned
  refresher,  \* queryAndCache
  db,         \* the shared handle: open, closed, or left open by ErrIteratorsOpen
  ingest,     \* the ingest goroutine
  term,       \* the SIGTERM channels of the service and of ingest
  terms,      \* SIGTERMs delivered
  prof,       \* who holds the process-wide CPU profiler
  file,       \* what lies at the plugin's profile path
  rotator,    \* the SIGUSR1 goroutine
  usrs,       \* SIGUSR1s delivered
  stuck,      \* a rename failed: the flushed file is still at the profile path
  coord       \* the goroutine that starts the profile after ingest

http  == <<srv, done, req, handlers, requests, jobs, late>>
pprof == <<prof, file, rotator, usrs, stuck, coord>>
vars  == <<main, http, refresher, db, ingest, term, terms, pprof>>

Waiting   == {"dispatched", "counted"}
Slotted   == {"reading", "waitJob", "job", "iter"}
ReqStates == {"away"} \cup Waiting \cup Slotted
Mains     == {"starting", "serving", "closing", "waitHandlers", "waitBg",
              "stopProfile", "waitIngest", "unhooked", "exited"}

TypeOK ==
  /\ main \in Mains
  /\ srv \in {"nil", "up", "draining", "forced"}
  /\ done \in BOOLEAN
  /\ req \in [Reqs -> ReqStates]
  /\ handlers \in 0 .. Cardinality(Reqs)
  /\ requests \in 0 .. MaxRequests
  /\ jobs \in 0 .. MaxJobs
  /\ late \subseteq Reqs
  /\ refresher \in {"scan", "sleep", "gone"}
  /\ db \in {"open", "closed", "leaked"}
  /\ ingest \in {"starting", "running", "closing", "done", "failed"}
  /\ term \in [service : {"armed", "pending", "gone"},
               ingest  : {"off", "armed", "pending"}]
  /\ terms \in 0 .. MaxTerm
  /\ prof \in {"free", "ingest", "plugin"}
  /\ file \in {"none", "empty", "flushed"}
  /\ rotator \in {"idle", "pending", "restart"}
  /\ usrs \in 0 .. MaxUsr
  /\ stuck \in BOOLEAN
  /\ coord \in {"waiting", "gone"}

(* The handlers are registered, the refresher's first cycle has begun, and *)
(* ingest was started (or skipped, --skip-ingest); Listen is yet to run.   *)
Init ==
  /\ main = "starting" /\ srv = "nil" /\ done = FALSE
  /\ req = [r \in Reqs |-> "away"]
  /\ handlers = 0 /\ requests = 0 /\ jobs = 0 /\ late = {}
  /\ refresher = "scan" /\ db = "open"
  /\ ingest \in {"starting", "done"}
  /\ term = [service |-> "armed", ingest |-> "off"] /\ terms = 0
  /\ prof = "free" /\ file = "none"
  /\ rotator = "idle" /\ usrs = 0 /\ stuck = FALSE /\ coord = "waiting"

Alive == main # "exited"

-----------------------------------------------------------------------------
(*                          The request handlers                           *)

(* net/http reads a request and calls its handler in a goroutine: the      *)
(* connection is active from here on, but not yet counted by trackHandler. *)
Dispatch(r) ==
  /\ main = "serving" /\ srv = "up" /\ req[r] = "away"
  /\ req' = [req EXCEPT ![r] = "dispatched"]
  /\ UNCHANGED <<srv, done, handlers, requests, jobs, late>>

Count(r) ==
  /\ req[r] = "dispatched"
  /\ req' = [req EXCEPT ![r] = "counted"]
  /\ handlers' = handlers + 1
  /\ UNCHANGED <<srv, done, requests, jobs, late>>

(* handleShutdown answers and leaves the drain to a goroutine of its own.  *)
HandleShutdown(r) ==
  /\ req[r] = "counted"
  /\ req' = [req EXCEPT ![r] = "away"]
  /\ handlers' = handlers - 1
  /\ srv' = IF srv = "up" THEN "draining" ELSE srv
  /\ UNCHANGED <<done, requests, jobs, late>>

(* A handler that needs no slot (ping, metrics, variables) just returns.   *)
HandleLight(r) ==
  /\ req[r] = "counted"
  /\ req' = [req EXCEPT ![r] = "away"]
  /\ handlers' = handlers - 1
  /\ UNCHANGED <<srv, done, requests, jobs, late>>

TakeRequest(r) ==
  /\ req[r] = "counted" /\ requests < MaxRequests
  /\ req' = [req EXCEPT ![r] = "reading"]
  /\ requests' = requests + 1
  /\ UNCHANGED <<srv, done, handlers, jobs, late>>

ReadBody(r) ==
  /\ req[r] = "reading"
  /\ req' = [req EXCEPT ![r] = "waitJob"]
  /\ UNCHANGED <<srv, done, handlers, requests, jobs, late>>

\* Bug: the early return of a malformed request keeps its slot.
BadBody_Leak(r) ==
  /\ req[r] = "reading"
  /\ req' = [req EXCEPT ![r] = "away"]
  /\ handlers' = handlers - 1
  /\ UNCHANGED <<srv, done, requests, jobs, late>>

(* The client went away, the forced close cut the connection, or the body  *)
(* does not parse: the deferred release gives the slot back.               *)
BadBody(r) ==
  /\ req[r] = "reading"
  /\ req' = [req EXCEPT ![r] = "away"]
  /\ handlers' = handlers - 1
  /\ requests' = requests - 1
  /\ UNCHANGED <<srv, done, jobs, late>>

TakeJob(r) ==
  /\ req[r] = "waitJob" /\ jobs < MaxJobs
  /\ req' = [req EXCEPT ![r] = "job"]
  /\ jobs' = jobs + 1
  /\ UNCHANGED <<srv, done, handlers, requests, late>>

(* The query opens an iterator; on a closed db it gets ErrClosed instead.  *)
OpenIter(r) ==
  /\ req[r] = "job" /\ db # "closed"
  /\ req' = [req EXCEPT ![r] = "iter"]
  /\ UNCHANGED <<srv, done, handlers, requests, jobs, late>>

(* The handler returns, with an answer, an error or a panic trackHandler   *)
(* recovers: the deferred calls close the iterator, give back both slots   *)
(* and count the handler out, in this order.                               *)
FinishJob(r) ==
  /\ req[r] \in {"job", "iter"}
  /\ req' = [req EXCEPT ![r] = "away"]
  /\ handlers' = handlers - 1
  /\ requests' = requests - 1
  /\ jobs' = jobs - 1
  /\ UNCHANGED <<srv, done, late>>

Handler(r) ==
  /\ Alive
  /\ \/ Dispatch(r) \/ Count(r) \/ HandleShutdown(r) \/ HandleLight(r)
     \/ TakeRequest(r) \/ ReadBody(r) \/ BadBody(r)
     \/ TakeJob(r) \/ OpenIter(r) \/ FinishJob(r)
  /\ UNCHANGED <<main, refresher, db, ingest, term, terms, pprof>>

-----------------------------------------------------------------------------
(*                          The cache refresher                            *)

(* One refresh ends; the select that follows finds done closed, or sleeps. *)
EndRefresh ==
  /\ refresher = "scan"
  /\ refresher' = IF done THEN "gone" ELSE "sleep"

(* The sleep ends: by its timer (which may beat a done that has just been  *)
(* closed), or because done is closed.                                     *)
WakeRefresh ==
  /\ refresher = "sleep"
  /\ \/ refresher' = "scan"
     \/ done /\ refresher' = "gone"

Refresh ==
  /\ Alive
  /\ EndRefresh \/ WakeRefresh
  /\ UNCHANGED <<main, http, db, ingest, term, terms, pprof>>

-----------------------------------------------------------------------------
(*                       The process-wide CPU profiler                     *)

Profiling == prof = "plugin"       \* p.pprofRunning

\* Bug: a profile may start on a plugin that is shutting down.
StartCPUProfile_Late ==
  IF Profiling
  THEN UNCHANGED <<prof, file>>
  ELSE /\ file' = "empty"
       /\ prof' = IF prof = "free" THEN "plugin" ELSE prof

(* A no-op when the profile runs or the plugin is shutting down; otherwise *)
(* os.Create truncates the file before pprof may refuse to start.          *)
StartCPUProfile ==
  IF Profiling \/ done
  THEN UNCHANGED <<prof, file>>
  ELSE /\ file' = "empty"
       /\ prof' = IF prof = "free" THEN "plugin" ELSE prof

(* The coordinator: the plugin's profile starts once ingest is done.       *)
Coordinate ==
  /\ coord = "waiting" /\ ingest \in {"done", "failed"}
  /\ coord' = "gone"
  /\ StartCPUProfile
  /\ UNCHANGED <<rotator, usrs, stuck>>

(* SIGUSR1, while its handler is installed.                                *)
SignalUsr ==
  /\ usrs < MaxUsr /\ main # "unhooked" /\ rotator = "idle"
  /\ usrs' = usrs + 1
  /\ rotator' = "pending"
  /\ UNCHANGED <<prof, file, stuck, coord>>

(* The first half of RotateCPUProfile, under pprofMu: flush and rename.    *)
(* When the rename fails, nothing is restarted.                            *)
RotateFlush ==
  /\ rotator = "pending"
  /\ \/ /\ ~Profiling
        /\ rotator' = "restart"
        /\ UNCHANGED <<prof, file, stuck>>
     \/ /\ Profiling
        /\ rotator' = "restart"
        /\ prof' = "free" /\ file' = "none"
        /\ UNCHANGED stuck
     \/ /\ Profiling
        /\ rotator' = "idle"
        /\ prof' = "free" /\ file' = "flushed" /\ stuck' = TRUE
  /\ UNCHANGED <<usrs, coord>>

(* The second half, after pprofMu was released and taken again.            *)
RotateStart ==
  /\ rotator = "restart"
  /\ rotator' = "idle"
  /\ StartCPUProfile
  /\ UNCHANGED <<usrs, stuck, coord>>

Profiler ==
  /\ Alive
  /\ Coordinate \/ SignalUsr \/ RotateFlush \/ RotateStart
  /\ UNCHANGED <<main, http, refresher, db, ingest, term, terms>>

-----------------------------------------------------------------------------
(*                            The ingest goroutine                         *)

(* ingest.InitWithDB starts ingest's own profile, when one is configured;  *)
(* then the SIGTERM handler is installed and the pipeline runs.  Init      *)
(* fails when the profiler is taken, and for other reasons of its own.     *)
IngestInit ==
  /\ ingest = "starting"
  /\ \/ /\ ingest' = "running"
        /\ term' = [term EXCEPT !.ingest = "armed"]
        /\ prof' \in {prof} \cup (IF prof = "free" THEN {"ingest"} ELSE {})
     \/ /\ ingest' = "failed"
        /\ UNCHANGED <<term, prof>>

(* The pipeline returns, with an error or not.  The deferred calls run in  *)
(* reverse: the signal handler goes first (a signal it already holds is    *)
(* still acted on), then i.Close stops the profile.                        *)
IngestReturn ==
  /\ ingest = "running"
  /\ ingest' = "closing"
  /\ term' = [term EXCEPT !.ingest = IF @ = "armed" THEN "off" ELSE @]
  /\ UNCHANGED prof

IngestClose ==
  /\ ingest = "closing"
  /\ ingest' \in {"done", "failed"}
  /\ prof' = IF prof = "ingest" THEN "free" ELSE prof
  /\ UNCHANGED term

Ingest ==
  /\ Alive
  /\ IngestInit \/ IngestReturn \/ IngestClose
  /\ UNCHANGED <<main, http, refresher, db, terms,
                 file, rotator, usrs, stuck, coord>>

-----------------------------------------------------------------------------
(*                           Signals and shutdown                          *)

(* SIGTERM goes to every channel that still listens; the service's counts  *)
(* as listening until main has unhooked it, even when its goroutine is     *)
(* gone.  After that the default action ends the process.                  *)
SignalTerm ==
  /\ terms < MaxTerm
  /\ terms' = terms + 1
  /\ term' = [service |-> IF term.service = "armed" THEN "pending"
                                                    ELSE term.service,
              ingest  |-> IF term.ingest = "armed" THEN "pending"
                                                   ELSE term.ingest]
  /\ main' = IF main = "unhooked" THEN "exited" ELSE main
  /\ UNCHANGED http

(* The service's goroutine takes one signal and calls Shutdown, which does *)
(* nothing while p.srv is nil.                                             *)
TakeTerm ==
  /\ term.service = "pending"
  /\ term' = [term EXCEPT !.service = "gone"]
  /\ srv' = IF srv = "up" THEN "draining" ELSE srv
  /\ UNCHANGED <<main, terms, done, req, handlers, requests, jobs, late>>

(* Ingest's goroutine closes ingest and exits the process.                 *)
IngestExit ==
  /\ term.ingest = "pending"
  /\ main' = "exited"
  /\ UNCHANGED <<term, terms, http>>

\* Bug: a drain that times out is given up, and leaves the connections open.
ForceClose_Never ==
  /\ srv = "draining" /\ (\E r \in Reqs : req[r] # "away")
  /\ UNCHANGED <<main, term, terms, http>>

(* ShutdownTimeout passes with a connection still active: srv.Close.       *)
ForceClose ==
  /\ srv = "draining" /\ (\E r \in Reqs : req[r] # "away")
  /\ srv' = "forced"
  /\ UNCHANGED <<main, term, terms, done, req, handlers, requests, jobs, late>>

Signals ==
  /\ Alive
  /\ SignalTerm \/ TakeTerm \/ IngestExit \/ ForceClose
  /\ UNCHANGED <<refresher, db, ingest, pprof>>

-----------------------------------------------------------------------------
(*                          Execute, in its order                          *)

(* Listen sets p.srv and serves, or returns at once when it cannot listen. *)
Listen ==
  /\ main = "starting"
  /\ main' \in {"serving", "closing"}
  /\ srv' = "up"
  /\ UNCHANGED <<done, late, db, prof, file>>

(* ListenAndServe returns as soon as some Shutdown has begun.              *)
ListenReturn ==
  /\ main = "serving" /\ srv # "up"
  /\ main' = "closing"
  /\ UNCHANGED <<srv, done, late, db, prof, file>>

(* Close, step 1: its own Shutdown, which returns when no connection is    *)
(* active, or after the forced close; step 2: close(p.done).               *)
CloseServer ==
  /\ main = "closing"
  /\ IF srv = "up"
     THEN srv' = "draining" /\ UNCHANGED <<main, done>>
     ELSE /\ srv = "forced" \/ \A r \in Reqs : req[r] = "away"
          /\ main' = "waitHandlers"
          /\ done' = TRUE
          /\ UNCHANGED srv
  /\ UNCHANGED <<late, db, prof, file>>

\* Bug: Close trusts Shutdown to have waited for the handlers.
WaitHandlers_Skip ==
  /\ main = "waitHandlers"
  /\ main' = "waitBg"
  /\ late' = {r \in Reqs : req[r] = "dispatched"}
  /\ UNCHANGED <<srv, done, db, prof, file>>

(* Step 3: p.handlers.Wait, which sees the counted handlers only, ...      *)
WaitHandlers ==
  /\ main = "waitHandlers" /\ handlers = 0
  /\ main' = "waitBg"
  /\ late' = {r \in Reqs : req[r] = "dispatched"}
  /\ UNCHANGED <<srv, done, db, prof, file>>

(* ... and p.bg.Wait.                                                      *)
WaitBg ==
  /\ main = "waitBg" /\ refresher = "gone"
  /\ main' = "stopProfile"
  /\ UNCHANGED <<srv, done, late, db, prof, file>>

(* stopCPUProfileLocked; the injected db is not the plugin's to close.     *)
StopProfile ==
  /\ main = "stopProfile"
  /\ main' = "waitIngest"
  /\ prof' = IF Profiling THEN "free" ELSE prof
  /\ file' = IF Profiling THEN "flushed" ELSE file
  /\ UNCHANGED <<srv, done, late, db>>

(* ingestWG.Wait, then the deferred signal.Stop of both handlers.          *)
WaitIngest ==
  /\ main = "waitIngest" /\ ingest \in {"done", "failed"}
  /\ main' = "unhooked"
  /\ UNCHANGED <<srv, done, late, db, prof, file>>

IterOpen == refresher = "scan" \/ \E r \in Reqs : req[r] = "iter"

(* The deferred d.Close, which refuses while an iterator is open (the      *)
(* refusal is logged and the process ends without the flush).              *)
DbClose ==
  /\ main = "unhooked" /\ db = "open"
  /\ db' = IF IterOpen THEN "leaked" ELSE "closed"
  /\ UNCHANGED <<main, srv, done, late, prof, file>>

Exit ==
  /\ main = "unhooked" /\ db # "open"
  /\ main' = "exited"
  /\ UNCHANGED <<srv, done, late, db, prof, file>>

Main ==
  /\ \/ Listen \/ ListenReturn \/ CloseServer \/ WaitHandlers \/ WaitBg
     \/ StopProfile \/ WaitIngest \/ DbClose \/ Exit
  /\ UNCHANGED <<req, handlers, requests, jobs, refresher, ingest, term, terms,
                 rotator, usrs, stuck, coord>>

-----------------------------------------------------------------------------
Next ==
  \/ Main \/ Refresh \/ Profiler \/ Ingest \/ Signals
  \/ \E r \in Reqs : Handler(r)

Spec == Init /\ [][Next]_vars

HandlerFrame == UNCHANGED <<main, refresher, db, ingest, term, terms, pprof>>
Do(A)        == Alive /\ A /\ HandlerFrame

(* Goroutines run.  A blocked send on a channel is served in order, so a   *)
(* waiter is not passed over for ever (SF).  A client owes nobody its      *)
(* body: reading is fair only once its connection has been cut.  The       *)
(* actions of one goroutine are enabled at different places of it, so one  *)
(* condition on their disjunction says the same as one on each.            *)
Fairness ==
  /\ WF_vars(Main) /\ WF_vars(Refresh) /\ WF_vars(Ingest)
  /\ WF_vars(Alive /\ (TakeTerm \/ ForceClose) /\ UNCHANGED <<refresher, db, ingest, pprof>>)
  /\ \A r \in Reqs :
       /\ WF_vars(Do(Count(r) \/ FinishJob(r) \/ (srv = "forced" /\ BadBody(r))))
       /\ SF_vars(Do(TakeRequest(r) \/ TakeJob(r)))

FairSpec == Spec /\ Fairness

-----------------------------------------------------------------------------
(*                              Properties                                 *)

(* Once Close has done its waiting, the refresher is gone and no handler   *)
(* still works on the db but one the WaitGroup could not know of; such a   *)
(* handler exists only if the drain had to be forced; and without one the  *)
(* db is not refused its close, and so its flush, for an open iterator.    *)
CloseWaitsForReaders ==
  /\ TypeOK
  /\ main \in {"waitIngest", "unhooked"} =>
       /\ refresher = "gone"
       /\ {r \in Reqs : req[r] # "away"} \subseteq late
  /\ late # {} => srv = "forced"
  /\ db = "leaked" => late # {}

(* After Close has stopped the profile, nothing starts it again: neither   *)
(* the coordinator when ingest ends later, nor a rotation caught half way; *)
(* and a profile that was flushed to disk is never truncated by the next   *)
(* one, as long as its rename did not fail.                                *)
ProfilesKept ==
  /\ [](main \in {"waitIngest", "unhooked"} => prof # "plugin")
  /\ [][file = "flushed" /\ ~stuck => file' = "flushed"]_file

(* A SIGTERM the service holds once the server exists ends the process,    *)
(* whatever clients, queries and the refresher are doing.                  *)
TermStopsService ==
  (term.service = "pending" /\ srv # "nil") ~> (main = "exited")

(* If no client keeps its body for ever, every request that reached its    *)
(* handler is answered: no slot is lost and the two semaphores, taken one  *)
(* after the other, do not lock each other out.                            *)
RequestsAnswered ==
  (\A r \in Reqs : []<>(req[r] # "reading")) =>
     \A r \in Reqs : (req[r] = "counted") ~> (req[r] = "away" \/ ~Alive)
=============================================================================
