------------------------------- MODULE JobQueue -------------------------------
(***************************************************************************)
(* The processes around one BullMQ queue: the producers that call AddBulk  *)
(* (the API, the fetch handler, the feed refresh) and the worker processes *)
(* of internal/queue/worker.go and internal/queueprocessor/worker.go, each *)
(* a polling loop, a semaphore of Slots goroutines, and a context that a   *)
(* shutdown cancels.                                                       *)
(*                                                                         *)
(* The worker passes its own context to every Redis call and drops the     *)
(* error of CompleteJob and FailJob: once the context is cancelled those   *)
(* calls do nothing, and the job stays in the active list.                 *)
(***************************************************************************)
EXTENDS BullMQ, FiniteSets

CONSTANTS
  Producers, Workers,
  Slots,       \* slot numbers of a worker's semaphore (workerConcurrency)
  NoJob,       \* no job id
  MaxAdds,     \* bound: how often callers get past EXISTS with their own ids
  Faulty,      \* Redis calls may fail
  MayStop,     \* worker processes may be told to stop, and be started again
  MayCrash,    \* worker processes may be killed
  Scheduler    \* a BullMQ scheduler promotes delayed jobs

ASSUME SystemAssumption ==
  /\ NoJob \notin Job
  /\ MaxAdds \in Nat
  /\ {Faulty, MayStop, MayCrash, Scheduler} \subseteq BOOLEAN

\* make(chan struct{}, workerConcurrency)
ASSUME SlotsAssumption == IsFiniteSet(Slots)

VARIABLES
  producer,   \* [pc, job] of each producer's AddBulk
  loop,       \* where each worker's run() is
  popped,     \* [job, limit] that run() holds between PopJob and the goroutine
  task,       \* [pc, job, limit] of the goroutine in each slot
  cancelled,  \* the worker's context is done
  adds,       \* bound counter: EXISTS checks passed
  runs        \* history: handler calls per auto id

workerVars == <<loop, popped, task, cancelled>>
vars == <<queueVars, producer, workerVars, adds, runs>>

Idle == [pc |-> "idle", job |-> NoJob]
Nothing == [job |-> NoJob, limit |-> 0]
Free == [pc |-> "free", job |-> NoJob, limit |-> 0]

Adding == [pc: {"idle", "store", "push"}, job: Job \cup {NoJob}]
Popped == [job: Job \cup {NoJob}, limit: Nat]
Task == [pc: {"free", "handle", "complete", "fail", "retry", "bury"},
         job: Job \cup {NoJob}, limit: Nat]

TypeOK ==
  /\ QueueTypeOK
  /\ producer \in [Producers -> Adding]
  /\ loop \in [Workers -> {"poll", "get", "slot", "exited", "dead"}]
  /\ popped \in [Workers -> Popped]
  /\ task \in [Workers \X Slots -> Task]
  /\ cancelled \in [Workers -> BOOLEAN]
  /\ adds \in 0..MaxAdds
  /\ runs \in [AutoIds -> Nat]

Init ==
  /\ QueueInit
  /\ producer = [p \in Producers |-> Idle]
  /\ loop = [w \in Workers |-> "poll"]
  /\ popped = [w \in Workers |-> Nothing]
  /\ task = [t \in Workers \X Slots |-> Free]
  /\ cancelled = [w \in Workers |-> FALSE]
  /\ adds = 0
  /\ runs = [a \in AutoIds |-> 0]

-----------------------------------------------------------------------------
(* AddBulk, one job of the batch at a time.                                *)

\* A bug: the id is used without asking whether it is taken.
AddUnchecked(p, d) ==
  /\ producer[p].pc = "idle"
  /\ adds < MaxAdds
  /\ producer' = [producer EXCEPT ![p] = [pc |-> "store", job |-> d]]
  /\ adds' = adds + 1
  /\ UNCHANGED <<queueVars, workerVars, runs>>

\* EXISTS says no: go on with the caller's id.  When it says yes the job is
\* skipped and nothing changes.
CheckExists(p, d) ==
  /\ producer[p].pc = "idle"
  /\ adds < MaxAdds
  /\ ~hash[d].exists
  /\ producer' = [producer EXCEPT ![p] = [pc |-> "store", job |-> d]]
  /\ adds' = adds + 1
  /\ UNCHANGED <<queueVars, workerVars, runs>>

NextJobID(p, a) ==
  /\ producer[p].pc = "idle"
  /\ IncrId(a)
  /\ producer' = [producer EXCEPT ![p] = [pc |-> "store", job |-> a]]
  /\ UNCHANGED <<hash, lists, workerVars, adds, runs>>

StoreJob(p) ==
  /\ producer[p].pc = "store"
  /\ StoreHash(producer[p].job)
  /\ producer' = [producer EXCEPT ![p].pc = "push"]
  /\ UNCHANGED <<issued, lists, workerVars, adds, runs>>

PushJob(p) ==
  /\ producer[p].pc = "push"
  /\ Enqueue(producer[p].job)
  /\ producer' = [producer EXCEPT ![p] = Idle]
  /\ UNCHANGED <<hash, issued, active, delayed, completed, failed,
                 workerVars, adds, runs>>

\* The connection breaks or the process dies: AddBulk returns an error and
\* the rest of the batch is not added.
AddFails(p) ==
  /\ Faulty
  /\ producer[p].pc # "idle"
  /\ producer' = [producer EXCEPT ![p] = Idle]
  /\ UNCHANGED <<queueVars, workerVars, adds, runs>>

-----------------------------------------------------------------------------
(* run(): the polling loop.                                                *)

Pop(w, j) ==
  /\ loop[w] = "poll"
  /\ ~cancelled[w]
  /\ MoveToActive(j)
  /\ loop' = [loop EXCEPT ![w] = "get"]
  /\ popped' = [popped EXCEPT ![w].job = j]
  /\ UNCHANGED <<producer, task, cancelled, adds, runs>>

\* The script ran and its reply was lost: PopJob returns an error.
PopReplyLost(w, j) ==
  /\ Faulty
  /\ loop[w] = "poll"
  /\ ~cancelled[w]
  /\ MoveToActive(j)
  /\ UNCHANGED <<producer, workerVars, adds, runs>>

GetJob(w) ==
  LET h == hash[popped[w].job] IN
  /\ loop[w] = "get"
  /\ ~cancelled[w]
  /\ h.exists
  /\ loop' = [loop EXCEPT ![w] = "slot"]
  /\ popped' = [popped EXCEPT ![w].limit =
                  IF h.body THEN Attempts[popped[w].job] ELSE 0]
  /\ UNCHANGED <<queueVars, producer, task, cancelled, adds, runs>>

\* HGETALL fails or finds no hash: PopJob returns an error, run() polls on,
\* and the id stays in the active list.
GetJobFails(w) ==
  /\ loop[w] = "get"
  /\ cancelled[w] \/ Faulty \/ ~hash[popped[w].job].exists
  /\ loop' = [loop EXCEPT ![w] = "poll"]
  /\ popped' = [popped EXCEPT ![w] = Nothing]
  /\ UNCHANGED <<queueVars, producer, task, cancelled, adds, runs>>

\* sem <- struct{}{} and go processJob, whether or not the context is done.
Dispatch(w, s) ==
  LET j == popped[w].job IN
  /\ loop[w] = "slot"
  /\ task[<<w, s>>].pc = "free"
  /\ task' = [task EXCEPT ![<<w, s>>] =
                [pc |-> "handle", job |-> j, limit |-> popped[w].limit]]
  /\ loop' = [loop EXCEPT ![w] = "poll"]
  /\ popped' = [popped EXCEPT ![w] = Nothing]
  /\ runs' = IF j \in AutoIds THEN [runs EXCEPT ![j] = @ + 1] ELSE runs
  /\ UNCHANGED <<queueVars, producer, cancelled, adds>>

\* A bug: run() returns without draining the semaphore.
ExitAtOnce(w) ==
  /\ loop[w] = "poll"
  /\ cancelled[w]
  /\ loop' = [loop EXCEPT ![w] = "exited"]
  /\ UNCHANGED <<queueVars, producer, popped, task, cancelled, adds, runs>>

\* The drain takes every slot of the semaphore, then run() returns and Wait
\* is released.
Drain(w) ==
  /\ loop[w] = "poll"
  /\ cancelled[w]
  /\ \A s \in Slots : task[<<w, s>>].pc = "free"
  /\ loop' = [loop EXCEPT ![w] = "exited"]
  /\ UNCHANGED <<queueVars, producer, popped, task, cancelled, adds, runs>>

-----------------------------------------------------------------------------
(* processJob(): the goroutine in slot s of worker w.                      *)

\* A bug: the goroutine ends and the slot stays taken.
SlotLeaked(w, s) == task' = [task EXCEPT ![<<w, s>>].pc = "leaked"]

\* defer func() { <-w.sem }()
ReleaseSlot(w, s) == task' = [task EXCEPT ![<<w, s>>] = Free]

\* The handler returned nil (next: CompleteJob) or an error (next: FailJob).
HandlerReturns(w, s) ==
  /\ task[<<w, s>>].pc = "handle"
  /\ \E next \in {"complete", "fail"} : task' = [task EXCEPT ![<<w, s>>].pc = next]
  /\ UNCHANGED <<queueVars, producer, loop, popped, cancelled, adds, runs>>

CompleteJob(w, s) ==
  /\ task[<<w, s>>].pc = "complete"
  /\ ~cancelled[w]
  /\ MoveToCompleted(task[<<w, s>>].job)
  /\ ReleaseSlot(w, s)
  /\ UNCHANGED <<producer, loop, popped, cancelled, adds, runs>>

\* FailJob, first round trip: count the failure, then choose the branch.
FailJob(w, s) ==
  LET j == task[<<w, s>>].job
      made == hash[j].made + 1
  IN
  /\ task[<<w, s>>].pc = "fail"
  /\ ~cancelled[w]
  /\ CountFailure(j)
  /\ task' = [task EXCEPT ![<<w, s>>].pc =
                IF RetryLeft(made, task[<<w, s>>].limit) THEN "retry" ELSE "bury"]
  /\ UNCHANGED <<producer, loop, popped, cancelled, adds, runs>>

\* FailJob, second round trip.
FailJobMoves(w, s) ==
  LET j == task[<<w, s>>].job IN
  /\ ~cancelled[w]
  /\ \/ task[<<w, s>>].pc = "retry" /\ MoveToDelayed(j)
     \/ task[<<w, s>>].pc = "bury" /\ MoveToFailed(j)
  /\ ReleaseSlot(w, s)
  /\ UNCHANGED <<producer, loop, popped, cancelled, adds, runs>>

\* The Redis call at hand fails, with a done context always: its error is
\* dropped and the goroutine ends.
ResultLost(w, s) ==
  /\ task[<<w, s>>].pc \in {"complete", "fail", "retry", "bury"}
  /\ cancelled[w] \/ Faulty
  /\ ReleaseSlot(w, s)
  /\ UNCHANGED <<queueVars, producer, loop, popped, cancelled, adds, runs>>

-----------------------------------------------------------------------------
(* The life of a worker process.                                           *)

Cancel(w) ==
  /\ MayStop
  /\ loop[w] \notin {"exited", "dead"}
  /\ ~cancelled[w]
  /\ cancelled' = [cancelled EXCEPT ![w] = TRUE]
  /\ UNCHANGED <<queueVars, producer, loop, popped, task, adds, runs>>

Kill(w) ==
  /\ MayCrash
  /\ loop[w] \notin {"exited", "dead"}
  /\ loop' = [loop EXCEPT ![w] = "dead"]
  /\ popped' = [popped EXCEPT ![w] = Nothing]
  /\ task' = [t \in Workers \X Slots |-> IF t[1] = w THEN Free ELSE task[t]]
  /\ UNCHANGED <<queueVars, producer, cancelled, adds, runs>>

\* Nothing is recovered at start: EnsureQueueMeta only writes the meta hash.
Restart(w) ==
  /\ loop[w] \in {"exited", "dead"}
  /\ loop' = [loop EXCEPT ![w] = "poll"]
  /\ cancelled' = [cancelled EXCEPT ![w] = FALSE]
  /\ UNCHANGED <<queueVars, producer, popped, task, adds, runs>>

-----------------------------------------------------------------------------
(* Outside this repository's code.                                         *)

HashExpires(j) ==
  /\ Expire(j)
  /\ UNCHANGED <<producer, workerVars, adds, runs>>

PromoteDelayed(j) ==
  /\ Scheduler
  /\ Promote(j)
  /\ UNCHANGED <<producer, workerVars, adds, runs>>

Produce(p) ==
  \/ \E d \in CallerIds : CheckExists(p, d)
  \/ \E a \in AutoIds : NextJobID(p, a)
  \/ StoreJob(p)
  \/ PushJob(p)
  \/ AddFails(p)

Poll(w) ==
  \/ \E j \in Job : Pop(w, j)
  \/ \E j \in Job : PopReplyLost(w, j)
  \/ GetJob(w)
  \/ GetJobFails(w)
  \/ \E s \in Slots : Dispatch(w, s)
  \/ Drain(w)

Process(w, s) ==
  \/ HandlerReturns(w, s)
  \/ CompleteJob(w, s)
  \/ FailJob(w, s)
  \/ FailJobMoves(w, s)
  \/ ResultLost(w, s)

Next ==
  \/ \E p \in Producers : Produce(p)
  \/ \E w \in Workers : Poll(w)
  \/ \E w \in Workers, s \in Slots : Process(w, s)
  \/ \E w \in Workers : Cancel(w) \/ Kill(w) \/ Restart(w)
  \/ \E j \in Job : HashExpires(j) \/ PromoteDelayed(j)

Spec == Init /\ [][Next]_vars

\* The Go scheduler runs every goroutine, handlers return and Redis answers.
\* Nothing makes a producer add a job, and nothing makes the scheduler run
\* where there is none.
Fairness ==
  /\ \A p \in Producers : WF_vars(StoreJob(p)) /\ WF_vars(PushJob(p))
  /\ \A w \in Workers :
       /\ WF_vars(\E j \in Job : Pop(w, j))
       /\ WF_vars(GetJob(w) \/ GetJobFails(w))
       /\ WF_vars(\E s \in Slots : Dispatch(w, s))
       /\ WF_vars(Drain(w))
       /\ \A s \in Slots : WF_vars(Process(w, s))
  /\ \A j \in Job : WF_vars(PromoteDelayed(j))

FairSpec == Spec /\ Fairness

-----------------------------------------------------------------------------
(* What the queue must keep true.                                          *)

InWait(j) == \E i \in DOMAIN wait : wait[i] = j

Holding(j) ==
  [wait |-> InWait(j), prioritized |-> j \in prioritized, active |-> active[j] > 0,
   delayed |-> j \in delayed, completed |-> j \in completed, failed |-> j \in failed]

\* The lists and sorted sets that job j is in.
Where(j) == {place \in DOMAIN Holding(j) : Holding(j)[place]}

\* An id from the counter is in one list or sorted set only, and there only
\* once, whatever producers, workers, crashes and lost replies do
\* (AddBulk, moveToActive, CompleteJob, FailJob).
SinglePlace ==
  \A j \in AutoIds :
    /\ \A x, y \in Where(j) : x = y
    /\ \A m, n \in DOMAIN wait : wait[m] = j /\ wait[n] = j => m = n
    /\ active[j] <= 1

\* One polling loop or goroutine at most, of all the worker processes, has j.
HeldByOne(j) ==
  /\ \A v, w \in Workers : popped[v].job = j /\ popped[w].job = j => v = w
  /\ \A t, u \in Workers \X Slots : task[t].job = j /\ task[u].job = j => t = u
  /\ \A w \in Workers, t \in Workers \X Slots :
       ~(popped[w].job = j /\ task[t].job = j)

\* Two goroutines or polling loops, of one worker process or of two, never
\* hold the same counter-given job: moveToActive hands it to one of them.
SingleRunner == \A j \in AutoIds : HeldByOne(j)

Limit(j) == IF Attempts[j] = 0 THEN 1 ELSE Attempts[j]

\* A counter-given job's handler is never called more often than
\* opts.attempts allows, whoever runs it and however its calls end.
RunsBounded == \A j \in AutoIds : runs[j] <= Limit(j)

\* A job waits for a retry only with an attempt left, and is given up only
\* when all of them are used (FailJob's two branches, against the counter
\* they read).
RetryBudget ==
  \A j \in AutoIds :
    /\ j \in delayed => hash[j].made < Attempts[j]
    /\ j \in failed /\ hash[j].exists => hash[j].made >= Attempts[j]

\* A job that is still to be run can be read: its hash is stored before the
\* id is pushed and no EXPIRE is running, so getJob never says "not found"
\* of a counter-given job.
JobReadable ==
  \A j \in AutoIds :
    (Where(j) \cap {"wait", "prioritized", "delayed", "active"}) # {} =>
      hash[j].exists /\ hash[j].body /\ ~hash[j].ttl

\* "Wait blocks until all in-flight jobs complete and the worker exits"
\* (queueprocessor.Worker): a job whose handler was started leaves the active
\* list before the worker that runs it lets go of it.
InFlightCompletes ==
  \A j \in AutoIds :
    active[j] > 0 /\ runs[j] > 0 =>
      \/ \E w \in Workers : popped[w].job = j
      \/ \E t \in Workers \X Slots : task[t].job = j

Occurrences(j) ==
  Cardinality({i \in DOMAIN wait : wait[i] = j})
    + (IF j \in prioritized THEN 1 ELSE 0)
    + (IF j \in delayed THEN 1 ELSE 0) + active[j]

\* No two calls of AddBulk are at work on the same caller's id.
NoOverlap ==
  \A p, q \in Producers :
    producer[p].job = producer[q].job /\ producer[p].job \in CallerIds => p = q

\* "a new job is only added when no job with this key already exists"
\* (AddJobOpts.JobID): an id chosen by the caller is never queued, delayed or
\* active twice, nor run by two workers.  AddBulk's EXISTS and HSET are two
\* round trips, so this needs NoOverlap.
OneCopy == \A d \in CallerIds : Occurrences(d) <= 1 /\ HeldByOne(d)

Held(j) ==
  CASE \E w \in Workers : popped[w].job = j -> "taken"
    [] \E t \in Workers \X Slots : task[t].job = j -> "running"
    [] OTHER -> "lost"

JobState(j) ==
  CASE Where(j) = {} -> "new"
    [] InWait(j) \/ j \in prioritized -> "waiting"
    [] active[j] > 0 -> Held(j)
    [] j \in delayed -> "delayed"
    [] j \in completed -> "completed"
    [] OTHER -> "failed"

Holds(w, j) == popped[w].job = j \/ \E s \in Slots : task[<<w, s>>].job = j

\* No job is left behind in the active list by the worker's own doing: when
\* no Redis call fails, only a worker that is stopped or killed while it has
\* the job leaves it there (moveToActive and getJob are two round trips, and
\* so are FailJob's two).
LostOnlyToStop ==
  [][\A j \in AutoIds :
       JobState(j) # "lost" /\ JobState(j)' = "lost" =>
         \/ Faulty
         \/ \E w \in Workers : Holds(w, j) /\ (cancelled[w] \/ loop'[w] = "dead")]_vars

Lifecycle == INSTANCE JobLifecycle WITH
  Job <- AutoIds, Attempts <- [j \in AutoIds |-> Attempts[j]],
  state <- [j \in AutoIds |-> JobState(j)], tries <- runs

\* Counter-given jobs live the life that JobLifecycle promises, under every
\* interleaving of producers, workers, shutdowns, crashes and Redis faults.
ImplementsLifecycle == Lifecycle!Spec

Phase(state) ==
  CASE state \in {"waiting", "taken", "running", "delayed"} -> "open"
    [] state = "completed" -> "done"
    [] OTHER -> state

\* How many of its runs have failed, of a job that is still to be run.
Failures(state, tries) ==
  CASE state \in {"new", "waiting", "taken", "delayed"} -> tries
    [] state = "running" -> tries - 1
    [] OTHER -> 0

Outcome == INSTANCE JobOutcome WITH
  Job <- AutoIds, Attempts <- [j \in AutoIds |-> Attempts[j]],
  phase <- [j \in AutoIds |-> Phase(JobState(j))],
  failures <- [j \in AutoIds |-> Failures(JobState(j), runs[j])]

\* What comes of a counter-given job is what those who add it count on
\* (JobOutcome, SaveFlow), whatever lists and hands it goes through.
ImplementsOutcome == Outcome!Spec

LoopState(w) ==
  IF loop[w] \in {"exited", "dead"} THEN "down"
  ELSE IF loop[w] = "slot" THEN "slot" ELSE "poll"

\* The slots whose goroutine has not ended.
Occupied(w) == {s \in Slots : task[<<w, s>>].pc # "free"}

Loop == INSTANCE WorkerLoop WITH
  Concurrency <- Cardinality(Slots), loop <- [w \in Workers |-> LoopState(w)],
  busy <- [w \in Workers |-> Cardinality(Occupied(w))], done <- cancelled

\* Each worker process runs the loop of WorkerLoop: its semaphore bounds its
\* handlers, it pops nothing once its context is done, and it exits only when
\* its last handler has ended (run, processJob).
ImplementsLoop == Loop!Spec

\* Every job that was pushed is run until it is completed or failed, if a
\* scheduler promotes delayed jobs and no worker is stopped.
EveryJobSettles ==
  (\A w \in Workers : []~cancelled[w]) =>
    \A j \in AutoIds : Where(j) # {} ~> j \in completed \cup failed

\* A cancelled worker ends: its drain gets every slot back, whatever its
\* goroutines are doing when the context is cancelled.
DrainFinishes == \A w \in Workers : cancelled[w] ~> loop[w] = "exited"

=============================================================================
