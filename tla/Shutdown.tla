------------------------------- MODULE Shutdown -------------------------------
(***************************************************************************)
(* How the programs end: runContentFetcher (cmd/server/content_fetcher.go), *)
(* runQueueProcessor (cmd/server/queue_processor.go) and runAPI             *)
(* (cmd/server/api.go), with their HTTP servers, the prestop hook, the      *)
(* SIGTERM handling and the drain of the worker that the first two start.   *)
(*                                                                         *)
(* One behaviour is the life of one process.  The worker is the one of     *)
(* JobQueue, reduced to what ending it takes: its loop, its semaphore and  *)
(* its context; here the drain takes the slots one by one.                 *)
(***************************************************************************)
EXTENDS Naturals, Sequences

CONSTANTS
  Slots,       \* workerConcurrency
  MaxRequests  \* bound: requests in flight that use what will be closed

ASSUME BoundsAssumption == Slots \in Nat \ {0} /\ MaxRequests \in Nat

VARIABLES
  service,    \* which program this is
  signalled,  \* SIGINT or SIGTERM has arrived
  main,       \* the goroutine that returns from run*
  watcher,    \* runQueueProcessor's signal goroutine
  open,       \* the HTTP server accepts requests
  prestop,    \* the GET /lifecycle/prestop handler
  requests,   \* POST / handlers that fetch content; requests to the API
  gaveUp,     \* history: the requests that runAPI stopped waiting for
  failed,     \* history: ListenAndServe returned an error
  cancelled,  \* the worker's context is done
  loop,       \* run()
  busy,       \* slots held by processJob goroutines
  drained,    \* slots taken by the drain
  closed      \* what has been closed

serverVars == <<open, prestop, requests, gaveUp, failed>>
workerVars == <<loop, busy, drained>>
vars == <<service, signalled, main, watcher, serverVars, cancelled, workerVars, closed>>

Fetcher == service = "content-fetcher"
Processor == service = "queue-processor"
API == service = "api"

TypeOK ==
  /\ service \in {"content-fetcher", "queue-processor", "api"}
  /\ signalled \in BOOLEAN
  /\ main \in {"serve", "conns", "cancel", "wait", "close", "exited"}
  /\ watcher \in {"select", "shutdown", "conns", "done"}
  /\ open \in BOOLEAN
  /\ prestop \in {"none", "called", "reply", "answered"}
  /\ requests \in 0..MaxRequests
  /\ gaveUp \in 0..MaxRequests
  /\ failed \in BOOLEAN
  /\ cancelled \in BOOLEAN
  /\ loop \in {"check", "pop", "slot", "drain", "exited"}
  /\ busy \in 0..Slots
  /\ drained \in 0..Slots
  /\ closed \subseteq {"browser", "storage", "redis", "database"}

\* The API has no worker.
Init ==
  /\ service \in {"content-fetcher", "queue-processor", "api"}
  /\ signalled = FALSE
  /\ main = "serve"
  /\ watcher = "select"
  /\ open = TRUE
  /\ prestop = "none"
  /\ requests = 0
  /\ gaveUp = 0
  /\ failed = FALSE
  /\ cancelled = FALSE
  /\ loop = IF API THEN "exited" ELSE "check"
  /\ busy = 0
  /\ drained = 0
  /\ closed = {}

-----------------------------------------------------------------------------
(* The worker.                                                             *)

\* A bug: the worker was given a context that nobody cancels.
NeverDone == FALSE

\* The context that run() selects on and passes to PopJob.
ContextDone == cancelled

Check ==
  /\ loop = "check"
  /\ loop' = IF ContextDone THEN "drain" ELSE "pop"
  /\ UNCHANGED <<busy, drained>>

\* PopJob finds a job, or none, or fails: it always fails on a done context.
Pop ==
  /\ loop = "pop"
  /\ \/ loop' = "check"
     \/ ~ContextDone /\ loop' = "slot"
  /\ UNCHANGED <<busy, drained>>

\* The semaphore does not look at the context.
Dispatch ==
  /\ loop = "slot"
  /\ busy + drained < Slots
  /\ busy' = busy + 1
  /\ loop' = "check"
  /\ UNCHANGED drained

\* A bug: the drain counts from one.
DrainFewer ==
  /\ loop = "drain"
  /\ busy + drained < Slots
  /\ drained' = drained + 1
  /\ loop' = IF drained' + 1 = Slots THEN "exited" ELSE "drain"
  /\ UNCHANGED busy

DrainSlot ==
  /\ loop = "drain"
  /\ busy + drained < Slots
  /\ drained' = drained + 1
  /\ loop' = IF drained' = Slots THEN "exited" ELSE "drain"
  /\ UNCHANGED busy

\* A bug: the goroutine takes from the semaphore twice.
ReleaseTwice == busy' = IF busy = 1 THEN Slots + 1 ELSE busy - 2

Release == busy' = busy - 1

JobEnds ==
  /\ busy > 0
  /\ Release
  /\ UNCHANGED <<loop, drained>>

\* A bug: the resources are closed without waiting for the worker.
NoWait == TRUE

\* Wait(): the WaitGroup counts run() and every processJob goroutine.
WorkerEnded == loop = "exited" /\ busy = 0

Worker ==
  /\ main # "exited"
  /\ Check \/ Pop \/ Dispatch \/ DrainSlot \/ JobEnds
  /\ UNCHANGED <<service, signalled, main, watcher, serverVars, cancelled, closed>>

-----------------------------------------------------------------------------
(* HTTP handlers.                                                          *)

\* POST / of the content-fetcher: ProcessFetchContentJob in the handler; or any
\* request to the API.
RequestArrives ==
  /\ Fetcher \/ API
  /\ open /\ main # "exited"
  /\ requests < MaxRequests
  /\ requests' = requests + 1
  /\ UNCHANGED <<service, signalled, main, watcher, open, prestop, gaveUp, failed, cancelled, workerVars, closed>>

RequestEnds ==
  /\ requests > 0 /\ main # "exited"
  /\ requests' = requests - 1
  /\ UNCHANGED <<service, signalled, main, watcher, open, prestop, gaveUp, failed, cancelled, workerVars, closed>>

PrestopCalled ==
  /\ ~API /\ open /\ main # "exited"
  /\ prestop = "none"
  /\ prestop' = "called"
  /\ UNCHANGED <<service, signalled, main, watcher, open, requests, gaveUp, failed, cancelled, workerVars, closed>>

\* server.go's prestop waits for the worker; queue_processor.go's cancels it.
PrestopActs ==
  /\ main # "exited"
  /\ prestop = "called"
  /\ \/ Fetcher /\ WorkerEnded /\ UNCHANGED cancelled
     \/ Processor /\ cancelled' = TRUE
  /\ prestop' = "reply"
  /\ UNCHANGED <<service, signalled, main, watcher, open, requests, gaveUp, failed, workerVars, closed>>

PrestopReplies ==
  /\ main # "exited"
  /\ prestop = "reply"
  /\ prestop' = "answered"
  /\ UNCHANGED <<service, signalled, main, watcher, open, requests, gaveUp, failed, cancelled, workerVars, closed>>

\* No handler is running: Shutdown(context.Background()) may return.
NoConnections == requests = 0 /\ prestop \in {"none", "answered"}

-----------------------------------------------------------------------------
(* Ending the process.                                                     *)

Signal ==
  /\ main # "exited" /\ ~signalled
  /\ signalled' = TRUE
  /\ UNCHANGED <<service, main, watcher, serverVars, cancelled, workerVars, closed>>

\* <-quit and Shutdown of the HTTP server, which closes the listener first.
FetcherStops ==
  /\ Fetcher \/ API
  /\ main = "serve" /\ signalled
  /\ main' = "conns"
  /\ open' = FALSE
  /\ UNCHANGED <<service, signalled, watcher, prestop, requests, gaveUp, failed, cancelled, workerVars, closed>>

\* Shutdown returns when no request is left, or gives up after 30 s; either
\* way runAPI returns.
APIStops ==
  /\ API /\ main = "conns"
  /\ main' = "close"
  /\ gaveUp' = requests
  /\ UNCHANGED <<service, signalled, watcher, open, prestop, requests, failed, cancelled, workerVars, closed>>

\* Shutdown returns, and then workerCancel().
FetcherCancels ==
  /\ \/ Fetcher /\ main = "conns" /\ NoConnections /\ main' = "cancel" /\ UNCHANGED cancelled
     \/ main = "cancel" /\ main' = "wait" /\ cancelled' = TRUE
  /\ UNCHANGED <<service, signalled, watcher, serverVars, workerVars, closed>>

\* A bug: the signal goroutine shuts the HTTP server down and cancels nothing.
WatcherOnlyShutsDown ==
  /\ Processor /\ watcher = "select" /\ main # "exited"
  /\ signalled \/ cancelled
  /\ watcher' = "shutdown"
  /\ UNCHANGED <<service, signalled, main, serverVars, cancelled, workerVars, closed>>

\* A bug: the signal goroutine waits for the signal alone.
WatcherIgnoresContext ==
  /\ Processor /\ watcher = "select" /\ main # "exited"
  /\ signalled
  /\ cancelled' = TRUE
  /\ watcher' = "shutdown"
  /\ UNCHANGED <<service, signalled, main, serverVars, workerVars, closed>>

\* select: a signal, which cancels the context, or a context that is done.
WatcherWakes ==
  /\ Processor /\ watcher = "select" /\ main # "exited"
  /\ \/ signalled /\ cancelled' = TRUE
     \/ cancelled /\ UNCHANGED cancelled
  /\ watcher' = "shutdown"
  /\ UNCHANGED <<service, signalled, main, serverVars, workerVars, closed>>

\* srv.Shutdown: the listener is closed, then it waits for the handlers.
WatcherShutsDown ==
  /\ main # "exited"
  /\ \/ watcher = "shutdown" /\ watcher' = "conns" /\ open' = FALSE
     \/ watcher = "conns" /\ NoConnections /\ watcher' = "done" /\ UNCHANGED open
  /\ UNCHANGED <<service, signalled, main, prestop, requests, gaveUp, failed, cancelled, workerVars, closed>>

\* ListenAndServe returns as soon as the listener is closed.
ProcessorStops ==
  /\ Processor /\ main = "serve" /\ ~open
  /\ main' = "wait"
  /\ UNCHANGED <<service, signalled, watcher, serverVars, cancelled, workerVars, closed>>

\* ListenAndServe returns an error (the port is taken, Accept fails).  The
\* serving goroutines of the content-fetcher and of the API exit the process at
\* once (log.Fatalf, os.Exit); runQueueProcessor returns without worker.Wait,
\* so that its deferred calls run beside the worker.
ServeFails ==
  /\ main = "serve" /\ open
  /\ open' = FALSE
  /\ failed' = TRUE
  /\ main' = IF Processor THEN "close" ELSE "exited"
  /\ UNCHANGED <<service, signalled, watcher, prestop, requests, gaveUp, cancelled, workerVars, closed>>

Waited ==
  /\ main = "wait" /\ WorkerEnded
  /\ main' = "close"
  /\ UNCHANGED <<service, signalled, watcher, serverVars, cancelled, workerVars, closed>>

\* The content-fetcher closes the browser, then Redis; the deferred calls of
\* the queue-processor close the database pool, then Redis, and cancel the
\* context last; those of the API close the storage, Redis and the database.
ToClose == IF Fetcher THEN <<"browser", "redis">>
           ELSE IF Processor THEN <<"database", "redis">>
           ELSE <<"storage", "redis", "database">>

Close ==
  /\ main = "close"
  /\ \E i \in 1..Len(ToClose) :
       /\ closed = {ToClose[j] : j \in 1..(i - 1)}
       /\ closed' = closed \cup {ToClose[i]}
       /\ main' = IF i = Len(ToClose) THEN "exited" ELSE main
  /\ cancelled' = (cancelled \/ (Processor /\ main' = "exited"))
  /\ UNCHANGED <<service, signalled, watcher, serverVars, workerVars>>

Stop == FetcherStops \/ FetcherCancels \/ APIStops \/ ProcessorStops \/ Waited \/ Close
Watch == WatcherWakes \/ WatcherShutsDown
Prestop == PrestopActs \/ PrestopReplies

Next ==
  \/ Worker
  \/ RequestArrives \/ RequestEnds
  \/ PrestopCalled \/ Prestop
  \/ Signal \/ ServeFails \/ Stop \/ Watch

Spec == Init /\ [][Next]_vars

\* Goroutines are scheduled, and the handlers that fetch content return, as
\* fetches and jobs run under timeouts.  A request to the API need not: runAPI
\* has its 30 s for that.  Nobody need send a signal, a request or a prestop
\* call, the server need not fail, and the queue may hold no job.
Fairness ==
  /\ WF_vars(Worker /\ (Check \/ Pop))
  /\ WF_vars(Worker /\ (Dispatch \/ DrainSlot))
  /\ WF_vars(Worker /\ JobEnds)
  /\ WF_vars(Fetcher /\ RequestEnds)
  /\ WF_vars(Prestop)
  /\ WF_vars(Stop)
  /\ WF_vars(Watch)

FairSpec == Spec /\ Fairness

-----------------------------------------------------------------------------
\* What a process closes is closed only when nothing of this process can use
\* it: no worker loop, no processJob goroutine and no handler, with the two
\* exceptions that the code makes: a queue-processor whose ListenAndServe failed
\* closes the pool and Redis under its running worker, and the API closes all
\* under the requests that it gave up on after 30 s, and no others
\* (runContentFetcher, runQueueProcessor, runAPI).
NoUseAfterClose ==
  closed # {} =>
    /\ (loop = "exited" /\ busy = 0) \/ (Processor /\ failed)
    /\ requests <= gaveUp

LoopState ==
  IF loop = "exited" THEN "down" ELSE IF loop = "slot" THEN "slot" ELSE "poll"

Loop == INSTANCE WorkerLoop WITH
  Workers <- {"worker"}, Concurrency <- Slots, loop <- [w \in {"worker"} |-> LoopState],
  busy <- [w \in {"worker"} |-> busy], done <- [w \in {"worker"} |-> cancelled]

\* The worker of the process is the one that JobQueue's workers are, so that
\* what holds of it there holds here, where the drain takes its slots one by
\* one: once its context is done it starts one more handler at most, of the
\* job that it had popped and that was waiting for a slot (run, processJob).
ImplementsLoop == Loop!Spec

\* Who can take a step towards the end of the process.
WorkerCan ==
  /\ cancelled
  /\ loop \in {"check", "pop"} \/ (loop \in {"slot", "drain"} /\ busy + drained < Slots) \/ busy > 0

HandlerCan ==
  (Fetcher /\ requests > 0) \/ prestop = "reply" \/ (prestop = "called" /\ (Processor \/ WorkerEnded))

WatcherCan == Processor /\ (watcher \in {"select", "shutdown"} \/ (watcher = "conns" /\ NoConnections))

MainCan ==
  \/ main = "serve" /\ IF Processor THEN ~open ELSE signalled
  \/ main = "conns" /\ (API \/ NoConnections)
  \/ main = "cancel"
  \/ main = "wait" /\ WorkerEnded
  \/ main = "close" /\ \E i \in 1..Len(ToClose) : ToClose[i] \notin closed

\* A process that is to end never waits for itself: the main goroutine, the
\* signal goroutine, the HTTP handlers, the semaphore and the WaitGroup wait
\* for each other in a circle only where the content-fetcher's prestop handler
\* waits for a worker that is cancelled after it (prestop, Shutdown, run).
NoCircularWait ==
  (signalled \/ failed \/ (Processor /\ cancelled)) /\ main # "exited" =>
    \/ WorkerCan \/ HandlerCan \/ WatcherCan \/ MainCan
    \/ Fetcher /\ main = "conns" /\ prestop = "called"

\* What is left to do before a process that is to end stands still.
MainSteps ==
  CASE main = "serve" -> 5 [] main = "conns" -> 4 [] main = "cancel" -> 3
    [] main = "wait" -> 2 [] main = "close" -> 1 [] OTHER -> 0

WatcherSteps ==
  CASE watcher = "select" -> 3 [] watcher = "shutdown" -> 2 [] watcher = "conns" -> 1 [] OTHER -> 0

PrestopSteps == CASE prestop = "called" -> 2 [] prestop = "reply" -> 1 [] OTHER -> 0

LoopSteps == CASE loop = "slot" -> 3 [] loop = "pop" -> 2 [] loop = "check" -> 1 [] OTHER -> 0

Left(r) == IF r \in closed THEN 0 ELSE 1

Distance ==
  requests + busy + (Slots - drained) + (IF signalled THEN 0 ELSE 1)
    + MainSteps + WatcherSteps + PrestopSteps + LoopSteps
    + Left("browser") + Left("storage") + Left("redis") + Left("database")

\* Once the listener is closed and the context is done, every step of the
\* process brings it closer to its end: none starts anything that another
\* would have to wait for again (run, prestop, runContentFetcher,
\* runQueueProcessor, runAPI).
EndingShrinks == [][~open /\ (cancelled \/ API) => Distance' < Distance]_vars

\* A process that was told to end ends: any of them by a signal, also when a
\* prestop call came first, and the queue-processor by a prestop call alone, as
\* does one whose server failed; but for a content-fetcher whose prestop handler
\* is still waiting.  The API ends also when a request never does.
ProcessEnds ==
  signalled \/ failed \/ (Processor /\ prestop = "reply")
    ~> main = "exited" \/ (Fetcher /\ prestop = "called")

=============================================================================
