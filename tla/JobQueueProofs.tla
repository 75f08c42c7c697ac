---------------------------- MODULE JobQueueProofs ----------------------------
(***************************************************************************)
(* Safety of JobQueue for any number of jobs, producers, workers and slots, *)
(* and that it implements JobLifecycle and WorkerLoop.                     *)
(* The inductive invariant IndInv says of each counter-given job where it  *)
(* is, who holds it, and how its attempts counter relates to the number of *)
(* times its handler was called.                                           *)
(***************************************************************************)
EXTENDS JobQueue, SequenceTheorems, FiniteSetTheorems, TLAPS

\* Where the processes are fits what they hold.
Shape ==
  /\ \A p \in Producers : producer[p].pc = "idle" <=> producer[p].job = NoJob
  /\ \A w \in Workers : loop[w] \in {"get", "slot"} <=> popped[w].job # NoJob
  /\ \A t \in Workers \X Slots : task[t].pc = "free" <=> task[t].job = NoJob

Once(j) == \A m, n \in DOMAIN wait : wait[m] = j /\ wait[n] = j => m = n

Queued(j) == InWait(j) \/ j \in prioritized

\* At most one list or sorted set has j, and has it once.
Placed(j) ==
  /\ Once(j)
  /\ active[j] <= 1
  /\ InWait(j) => j \notin prioritized
  /\ Queued(j) => active[j] = 0 /\ j \notin delayed \cup completed \cup failed
  /\ active[j] = 1 => j \notin delayed \cup completed \cup failed
  /\ j \in delayed => j \notin completed \cup failed
  /\ j \in completed => j \notin failed

\* j is in no list, and nothing has run it.
Unborn(j) ==
  /\ ~Queued(j) /\ active[j] = 0
  /\ j \notin delayed \cup completed \cup failed
  /\ runs[j] = 0

\* An id is pushed once, by the producer the counter gave it to.
Born(j) ==
  /\ j \notin issued => Unborn(j) /\ ~hash[j].ttl
  /\ \A p \in Producers : producer[p].job = j =>
       /\ j \in issued
       /\ Unborn(j)
       /\ ~hash[j].ttl
       /\ producer[p].pc = "push" =>
            hash[j].exists /\ hash[j].body /\ hash[j].made = 0
       /\ \A q \in Producers : producer[q].job = j => p = q

\* One process holds j at most, and only while j is in the active list.
HeldOnce(j) ==
  /\ \A w \in Workers : popped[w].job = j =>
       /\ active[j] = 1
       /\ loop[w] = "slot" => popped[w].limit = Attempts[j]
       /\ \A v \in Workers : popped[v].job = j => v = w
       /\ \A t \in Workers \X Slots : task[t].job # j
  /\ \A t \in Workers \X Slots : task[t].job = j =>
       /\ active[j] = 1
       /\ task[t].limit = Attempts[j]
       /\ \A u \in Workers \X Slots : task[u].job = j => u = t

\* The stored hash of a job that is still to be run or retried.
Stored(j) ==
  Queued(j) \/ active[j] = 1 \/ j \in delayed =>
    hash[j].exists /\ hash[j].body /\ ~hash[j].ttl

\* An attempt is left, and the counter has counted every handler call.
Fresh(j) == runs[j] = hash[j].made /\ runs[j] < Limit(j)

Counted(j) ==
  /\ runs[j] <= Limit(j)
  /\ Queued(j) => Fresh(j)
  /\ j \in delayed => runs[j] = hash[j].made /\ hash[j].made < Attempts[j]
  /\ j \in failed /\ hash[j].exists => hash[j].made >= Attempts[j]
  /\ \A w \in Workers : popped[w].job = j => Fresh(j)
  /\ \A t \in Workers \X Slots : task[t].job = j =>
       /\ task[t].pc \in {"handle", "complete", "fail"} => runs[j] = hash[j].made + 1
       /\ task[t].pc \in {"retry", "bury"} => runs[j] = hash[j].made
       /\ task[t].pc = "retry" => hash[j].made < Attempts[j]
       /\ task[t].pc = "bury" => hash[j].made >= Attempts[j]

JobInv(j) ==
  Placed(j) /\ Born(j) /\ HeldOnce(j) /\ Stored(j) /\ Counted(j)

IndInv == TypeOK /\ Shape /\ \A j \in AutoIds : JobInv(j)

-----------------------------------------------------------------------------
(* Lists: what LPUSH and RPOP do to them.                                  *)

\* LPUSH puts the id in front and shifts the others.
LEMMA PushedAtHead ==
  ASSUME NEW S, NEW s \in Seq(S), NEW x \in S
  PROVE  /\ <<x>> \o s \in Seq(S)
         /\ Len(<<x>> \o s) = Len(s) + 1
         /\ (<<x>> \o s)[1] = x
         /\ \A i \in 1..Len(s) : (<<x>> \o s)[i + 1] = s[i]
  OBVIOUS

\* RPOP removes the last id and moves none of the others.
LEMMA LastRemoved ==
  ASSUME NEW S, NEW s \in Seq(S), s # <<>>
  PROVE  /\ SubSeq(s, 1, Len(s) - 1) \in Seq(S)
         /\ Len(SubSeq(s, 1, Len(s) - 1)) = Len(s) - 1
         /\ \A i \in 1..(Len(s) - 1) : SubSeq(s, 1, Len(s) - 1)[i] = s[i]
  <1>1. Len(s) \in Nat /\ Len(s) > 0 /\ Len(s) - 1 \in Int
    OBVIOUS
  <1>2. \A i \in 1..(Len(s) - 1) : s[i] \in S
    OBVIOUS
  <1> DEFINE n == Len(s) - 1
  <1>3. n \in Int /\ \A i \in 1..n : s[i] \in S
    BY <1>1, <1>2
  <1> HIDE DEF n
  <1>4. /\ SubSeq(s, 1, n) \in Seq(S)
        /\ Len(SubSeq(s, 1, n)) = IF 1 <= n THEN n - 1 + 1 ELSE 0
        /\ \A i \in 1..(n - 1 + 1) : SubSeq(s, 1, n)[i] = s[1 + i - 1]
    BY <1>3, SubSeqProperties
  <1>5. /\ n - 1 + 1 = n
        /\ \A i \in 1..n : 1 + i - 1 = i
        /\ n \in Nat
    BY <1>1, <1>3 DEF n
  <1> QED
    BY <1>4, <1>5 DEF n

\* An id that is pushed joins the wait list or the prioritized set, and no
\* other id moves.
LEMMA EnqueueEffect ==
  ASSUME QueueTypeOK, NEW j \in Job, Enqueue(j)
  PROVE  /\ wait' \in Seq(Job)
         /\ prioritized' \in SUBSET Job
         /\ \A k \in Job \ {j} :
              /\ InWait(k)' <=> InWait(k)
              /\ k \in prioritized' <=> k \in prioritized
              /\ Once(k) => Once(k)'
         /\ ~Queued(j) => /\ Once(j)'
                          /\ Queued(j)'
                          /\ InWait(j)' => j \notin prioritized'
  <1>1. CASE Priority[j] > 0
    BY <1>1 DEF Enqueue, QueueTypeOK, InWait, Once, Queued
  <1>2. CASE ~(Priority[j] > 0)
    <2>1. wait' = <<j>> \o wait /\ prioritized' = prioritized
      BY <1>2 DEF Enqueue
    <2>2. /\ wait' \in Seq(Job)
          /\ Len(wait') = Len(wait) + 1
          /\ wait'[1] = j
          /\ \A i \in 1..Len(wait) : wait'[i + 1] = wait[i]
      BY <2>1, PushedAtHead DEF QueueTypeOK
    <2>3. DOMAIN wait' = 1..(Len(wait) + 1) /\ DOMAIN wait = 1..Len(wait) /\ Len(wait) \in Nat
      BY <2>2 DEF QueueTypeOK
    <2>4. \A m \in DOMAIN wait' : m = 1 \/ (m - 1 \in DOMAIN wait /\ wait'[m] = wait[m - 1])
      BY <2>2, <2>3
    <2>5. InWait(j)'
      BY <2>2, <2>3 DEF InWait
    <2>9. \A m \in DOMAIN wait : m + 1 \in DOMAIN wait' /\ wait'[m + 1] = wait[m]
      BY <2>2, <2>3
    <2>6. \A k \in Job \ {j} : InWait(k)' <=> InWait(k)
      BY <2>2, <2>4, <2>9 DEF InWait
    <2>7. \A k \in Job \ {j} : Once(k) => Once(k)'
      BY <2>2, <2>3, <2>4 DEF Once
    <2>8. ~InWait(j) => Once(j)'
      BY <2>2, <2>3, <2>4 DEF Once, InWait
    <2> QED
      BY <2>1, <2>2, <2>5, <2>6, <2>7, <2>8 DEF Queued, QueueTypeOK
  <1> QED
    BY <1>1, <1>2

\* The id that moveToActive takes was queued and leaves the wait list and
\* the prioritized set; no other id moves.
LEMMA TakeEffect ==
  ASSUME QueueTypeOK, NEW j \in Job, TakeNext(j)
  PROVE  /\ wait' \in Seq(Job)
         /\ prioritized' \in SUBSET Job
         /\ Queued(j)
         /\ \A k \in Job \ {j} :
              /\ InWait(k)' <=> InWait(k)
              /\ k \in prioritized' <=> k \in prioritized
         /\ \A k \in Job : Once(k) => Once(k)'
         /\ Once(j) /\ (InWait(j) => j \notin prioritized) => ~Queued(j)'
  <1>1. CASE /\ j \in prioritized
             /\ prioritized' = prioritized \ {j}
             /\ wait' = wait
    BY <1>1 DEF QueueTypeOK, InWait, Once, Queued
  <1>2. CASE /\ prioritized = {} /\ wait # <<>> /\ j = wait[Len(wait)]
             /\ wait' = SubSeq(wait, 1, Len(wait) - 1)
             /\ prioritized' = prioritized
    <2>1. /\ wait' \in Seq(Job)
          /\ Len(wait') = Len(wait) - 1
          /\ \A i \in 1..(Len(wait) - 1) : wait'[i] = wait[i]
      BY <1>2, LastRemoved DEF QueueTypeOK
    <2>2. /\ DOMAIN wait' = 1..(Len(wait) - 1) /\ DOMAIN wait = 1..Len(wait)
          /\ Len(wait) \in Nat /\ Len(wait) > 0
      BY <1>2, <2>1 DEF QueueTypeOK
    <2>3. InWait(j)
      BY <1>2, <2>2 DEF InWait
    <2>7. \A m \in DOMAIN wait : m = Len(wait) \/ (m \in DOMAIN wait' /\ wait'[m] = wait[m])
      BY <2>1, <2>2
    <2>8. \A m \in DOMAIN wait' : m \in DOMAIN wait /\ m # Len(wait) /\ wait'[m] = wait[m]
      BY <2>1, <2>2
    <2>4. \A k \in Job \ {j} : InWait(k)' <=> InWait(k)
      BY <1>2, <2>7, <2>8 DEF InWait
    <2>5. \A k \in Job : Once(k) => Once(k)'
      BY <2>1, <2>2 DEF Once
    <2>6. Once(j) => ~InWait(j)'
      BY <1>2, <2>1, <2>2 DEF Once, InWait
    <2> QED
      BY <1>2, <2>1, <2>3, <2>4, <2>5, <2>6 DEF Queued, QueueTypeOK
  <1> QED
    BY <1>1, <1>2 DEF TakeNext

\* Commands that leave the wait list and the prioritized set alone.
LEMMA SameQueue ==
  ASSUME UNCHANGED <<wait, prioritized>>
  PROVE  \A j : /\ InWait(j)' <=> InWait(j)
                /\ Queued(j)' <=> Queued(j)
                /\ Once(j)' <=> Once(j)
  BY DEF InWait, Queued, Once

-----------------------------------------------------------------------------
(* Types and shape.                                                        *)

LEMMA TypeInit == Init => TypeOK /\ Shape
  BY JobAssumption, SystemAssumption
  DEF Init, QueueInit, TypeOK, QueueTypeOK, Hash, NoHash, Idle, Nothing, Free, Shape, Adding, Popped, Task

\* A process that holds something holds a job.
LEMMA HeldIsJob ==
  ASSUME TypeOK, Shape
  PROVE  /\ \A p \in Producers : producer[p].pc # "idle" => producer[p].job \in Job
         /\ \A w \in Workers : loop[w] \in {"get", "slot"} => popped[w].job \in Job
         /\ \A t \in Workers \X Slots : task[t].pc # "free" => task[t].job \in Job
  BY DEF TypeOK, Shape, Adding, Popped, Task

\* AddBulk's steps keep the types.
LEMMA ProduceType ==
  ASSUME TypeOK, Shape, NEW p \in Producers, Produce(p)
  PROVE  TypeOK'
  <1> USE JobAssumption, SystemAssumption
  <1>1. ASSUME NEW d \in CallerIds, CheckExists(p, d) PROVE TypeOK'
    BY <1>1 DEF TypeOK, QueueTypeOK, CheckExists, queueVars, workerVars, Job, Adding
  <1>2. ASSUME NEW a \in AutoIds, NextJobID(p, a) PROVE TypeOK'
    BY <1>2 DEF TypeOK, QueueTypeOK, NextJobID, IncrId, lists, workerVars, Job, Adding
  <1>3. CASE StoreJob(p)
    <2>1. hash' \in [Job -> Hash]
      BY <1>3 DEF StoreJob, StoreHash, Hash, TypeOK, QueueTypeOK
    <2>2. producer' \in [Producers -> Adding]
      BY <1>3 DEF StoreJob, TypeOK, Adding
    <2> QED
      BY <1>3, <2>1, <2>2 DEF TypeOK, QueueTypeOK, StoreJob, lists, workerVars
  <1>4. CASE PushJob(p)
    <2>1. wait' \in Seq(Job) /\ prioritized' \in SUBSET Job
      BY <1>4, HeldIsJob, EnqueueEffect DEF TypeOK, PushJob
    <2> QED
      BY <1>4, <2>1 DEF TypeOK, QueueTypeOK, PushJob, Idle, workerVars, Adding
  <1>5. CASE AddFails(p)
    BY <1>5 DEF TypeOK, QueueTypeOK, AddFails, Idle, queueVars, workerVars, Adding
  <1> QED
    BY <1>1, <1>2, <1>3, <1>4, <1>5 DEF Produce

\* run()'s steps keep the types.
LEMMA PollType ==
  ASSUME TypeOK, Shape, NEW w \in Workers, Poll(w)
  PROVE  TypeOK'
  <1> USE JobAssumption, SystemAssumption
  <1>1. ASSUME NEW j \in Job, MoveToActive(j)
        PROVE  QueueTypeOK'
    <2>1. wait' \in Seq(Job) /\ prioritized' \in SUBSET Job
      BY <1>1, TakeEffect DEF TypeOK, MoveToActive
    <2> QED
      BY <1>1, <2>1 DEF TypeOK, QueueTypeOK, MoveToActive
  <1>2. ASSUME NEW j \in Job, Pop(w, j) PROVE TypeOK'
    BY <1>1, <1>2 DEF TypeOK, Pop, Popped
  <1>3. ASSUME NEW j \in Job, PopReplyLost(w, j) PROVE TypeOK'
    BY <1>1, <1>3 DEF TypeOK, PopReplyLost, workerVars
  <1>4. CASE GetJob(w)
    <2>1. popped' \in [Workers -> Popped]
      BY <1>4, HeldIsJob DEF GetJob, TypeOK, Popped
    <2> QED
      BY <1>4, <2>1 DEF TypeOK, QueueTypeOK, GetJob, queueVars
  <1>5. CASE GetJobFails(w)
    BY <1>5 DEF TypeOK, QueueTypeOK, GetJobFails, queueVars, Nothing, Popped
  <1>6. ASSUME NEW s \in Slots, Dispatch(w, s) PROVE TypeOK'
    BY <1>6 DEF TypeOK, QueueTypeOK, Dispatch, queueVars, Nothing, Popped, Task
  <1>7. CASE Drain(w)
    BY <1>7 DEF TypeOK, QueueTypeOK, Drain, queueVars
  <1> QED
    BY <1>2, <1>3, <1>4, <1>5, <1>6, <1>7 DEF Poll

\* processJob()'s steps keep the types.
LEMMA ProcessType ==
  ASSUME TypeOK, Shape, NEW w \in Workers, NEW s \in Slots, Process(w, s)
  PROVE  TypeOK'
  <1> USE JobAssumption, SystemAssumption
  <1> DEFINE t == <<w, s>>
             moved(pc) == [task EXCEPT ![t].pc = pc]
  <1>0. t \in Workers \X Slots
    OBVIOUS
  <1>1. \A pc \in {"complete", "fail", "retry", "bury"} :
          moved(pc) \in [Workers \X Slots -> Task]
    <2> SUFFICES ASSUME NEW pc \in {"complete", "fail", "retry", "bury"}
                 PROVE  moved(pc) \in [Workers \X Slots -> Task]
      OBVIOUS
    <2>1. [task[t] EXCEPT !.pc = pc] \in Task
      BY <1>0 DEF TypeOK, Task
    <2> QED
      BY <1>0, <2>1 DEF TypeOK
  <1>2. ASSUME ReleaseSlot(w, s) PROVE task' \in [Workers \X Slots -> Task]
    BY <1>0, <1>2 DEF TypeOK, ReleaseSlot, Free, Task
  <1>3. CASE HandlerReturns(w, s)
    <2>1. task' \in [Workers \X Slots -> Task]
      BY <1>1, <1>3 DEF HandlerReturns
    <2> QED
      BY <1>3, <2>1 DEF TypeOK, QueueTypeOK, HandlerReturns, queueVars
  <1>4. ASSUME NEW j \in Job, RemoveFromActive(j)
        PROVE  active' \in [Job -> Nat]
    BY <1>4 DEF RemoveFromActive, TypeOK, QueueTypeOK
  <1>5. ASSUME NEW j \in Job, KeepForAWhile(j) \/ KeepForRetry(j)
        PROVE  hash' \in [Job -> Hash]
    <2>1. hash[j] \in Hash
      BY DEF TypeOK, QueueTypeOK
    <2>2. /\ [hash[j] EXCEPT !.exists = TRUE, !.ttl = TRUE] \in Hash
          /\ [hash[j] EXCEPT !.exists = TRUE] \in Hash
      BY <2>1 DEF Hash
    <2> QED
      BY <1>5, <2>2 DEF KeepForAWhile, KeepForRetry, TypeOK, QueueTypeOK
  <1>6. CASE CompleteJob(w, s)
    BY <1>6, <1>0, <1>2, <1>4, <1>5, HeldIsJob
    DEF TypeOK, QueueTypeOK, CompleteJob, MoveToCompleted
  <1>7. CASE FailJob(w, s)
    <2> DEFINE j == task[t].job
    <2>0. j \in Job /\ hash[j] \in Hash
      BY <1>7, <1>0, HeldIsJob DEF FailJob, TypeOK, QueueTypeOK
    <2>3. [hash[j] EXCEPT !.exists = TRUE, !.made = hash[j].made + 1] \in Hash
      <3>1. ASSUME NEW h \in Hash
            PROVE  [h EXCEPT !.exists = TRUE, !.made = h.made + 1] \in Hash
        <4>1. h.made + 1 \in Nat
          BY DEF Hash
        <4> QED
          BY <4>1 DEF Hash
      <3> QED
        BY <2>0, <3>1
    <2>1. hash' \in [Job -> Hash]
      BY <1>7, <2>0, <2>3 DEF FailJob, CountFailure, TypeOK, QueueTypeOK
    <2>2. task' \in [Workers \X Slots -> Task]
      BY <1>7, <1>1 DEF FailJob
    <2> QED
      BY <1>7, <2>1, <2>2 DEF TypeOK, QueueTypeOK, FailJob, CountFailure, lists
  <1>8. CASE FailJobMoves(w, s)
    BY <1>8, <1>0, <1>2, <1>4, <1>5, HeldIsJob
    DEF TypeOK, QueueTypeOK, FailJobMoves, MoveToDelayed, MoveToFailed
  <1>9. CASE ResultLost(w, s)
    BY <1>9, <1>2 DEF TypeOK, QueueTypeOK, ResultLost, queueVars
  <1> QED
    BY <1>3, <1>6, <1>7, <1>8, <1>9 DEF Process

\* Every step keeps the types.
LEMMA TypeStep ==
  ASSUME TypeOK, Shape, [Next]_vars
  PROVE  TypeOK'
  <1> USE JobAssumption, SystemAssumption
  <1>1. ASSUME NEW w \in Workers, Cancel(w) PROVE TypeOK'
    BY <1>1 DEF TypeOK, QueueTypeOK, Cancel, queueVars
  <1>2. ASSUME NEW w \in Workers, Kill(w) PROVE TypeOK'
    BY <1>2 DEF TypeOK, QueueTypeOK, Kill, queueVars, Nothing, Free, Popped, Task
  <1>3. ASSUME NEW w \in Workers, Restart(w) PROVE TypeOK'
    BY <1>3 DEF TypeOK, QueueTypeOK, Restart, queueVars
  <1>4. ASSUME NEW j \in Job, HashExpires(j) PROVE TypeOK'
    BY <1>4 DEF TypeOK, QueueTypeOK, HashExpires, Expire, lists, workerVars, Hash, NoHash
  <1>5. ASSUME NEW j \in Job, PromoteDelayed(j) PROVE TypeOK'
    <2>1. wait' \in Seq(Job) /\ prioritized' \in SUBSET Job
      BY <1>5, EnqueueEffect DEF TypeOK, PromoteDelayed, Promote
    <2> QED
      BY <1>5, <2>1 DEF TypeOK, QueueTypeOK, PromoteDelayed, Promote, workerVars
  <1>6. CASE UNCHANGED vars
    BY <1>6 DEF TypeOK, QueueTypeOK, vars, queueVars, workerVars
  <1> QED
    BY <1>1, <1>2, <1>3, <1>4, <1>5, <1>6, ProduceType, PollType, ProcessType DEF Next

\* Every step keeps what a process holds and where it is in agreement.
LEMMA ShapeStep ==
  ASSUME TypeOK, Shape, [Next]_vars
  PROVE  Shape'
  <1> USE SystemAssumption DEF Shape
  <1>1. ASSUME NEW p \in Producers, Produce(p) PROVE Shape'
    <2>1. CASE \E d \in CallerIds : CheckExists(p, d)
      BY <2>1 DEF TypeOK, CheckExists, workerVars, Job, Adding
    <2>2. CASE \E a \in AutoIds : NextJobID(p, a)
      BY <2>2 DEF TypeOK, NextJobID, IncrId, workerVars, Job, Adding
    <2>3. CASE StoreJob(p)
      BY <2>3 DEF TypeOK, StoreJob, workerVars, Adding
    <2>4. CASE PushJob(p) \/ AddFails(p)
      BY <2>4 DEF TypeOK, PushJob, AddFails, Idle, workerVars, Adding
    <2> QED
      BY <1>1, <2>1, <2>2, <2>3, <2>4 DEF Produce
  <1>2. ASSUME NEW w \in Workers, Poll(w) PROVE Shape'
    <2>1. CASE \E j \in Job : Pop(w, j) \/ PopReplyLost(w, j)
      BY <2>1 DEF TypeOK, Pop, PopReplyLost, workerVars, Popped
    <2>2. CASE GetJob(w)
      BY <2>2 DEF TypeOK, GetJob, Popped
    <2>3. CASE GetJobFails(w)
      BY <2>3 DEF TypeOK, GetJobFails, Nothing, Popped
    <2>5. CASE Drain(w)
      BY <2>5 DEF TypeOK, Drain, Popped
    <2>4. ASSUME NEW s \in Slots, Dispatch(w, s) PROVE Shape'
      BY <2>4 DEF TypeOK, Dispatch, Nothing, Popped, Task
    <2> QED
      BY <1>2, <2>1, <2>2, <2>3, <2>4, <2>5 DEF Poll
  <1>3. ASSUME NEW w \in Workers, NEW s \in Slots, Process(w, s) PROVE Shape'
    <2> DEFINE t == <<w, s>>
    <2>0. t \in Workers \X Slots /\ task[t] \in Task
      BY DEF TypeOK
    <2>1. ASSUME ReleaseSlot(w, s)
          PROVE  \A u \in Workers \X Slots : task'[u].pc = "free" <=> task'[u].job = NoJob
      BY <2>0, <2>1 DEF ReleaseSlot, Free, TypeOK
    <2>2. ASSUME NEW pc \in {"complete", "fail", "retry", "bury"}, task[t].pc # "free",
                 task' = [task EXCEPT ![t].pc = pc]
          PROVE  \A u \in Workers \X Slots : task'[u].pc = "free" <=> task'[u].job = NoJob
      BY <2>0, <2>2 DEF TypeOK, Task
    <2>3. CASE HandlerReturns(w, s)
      BY <2>2, <2>3 DEF HandlerReturns
    <2>4. CASE FailJob(w, s)
      BY <2>2, <2>4 DEF FailJob
    <2>5. CASE CompleteJob(w, s) \/ FailJobMoves(w, s) \/ ResultLost(w, s)
      BY <2>1, <2>5 DEF CompleteJob, FailJobMoves, ResultLost
    <2> QED
      BY <1>3, <2>3, <2>4, <2>5 DEF Process
  <1>4. ASSUME NEW w \in Workers, Cancel(w) \/ Kill(w) \/ Restart(w) PROVE Shape'
    BY <1>4 DEF TypeOK, Cancel, Kill, Restart, Nothing, Free
  <1>5. ASSUME NEW j \in Job, HashExpires(j) \/ PromoteDelayed(j) PROVE Shape'
    BY <1>5 DEF HashExpires, PromoteDelayed, workerVars
  <1>6. CASE UNCHANGED vars
    BY <1>6 DEF vars, workerVars
  <1> QED
    BY <1>1, <1>2, <1>3, <1>4, <1>5, <1>6 DEF Next

\* The type invariant of the queue and its processes.
THEOREM TypeCorrect == Spec => [](TypeOK /\ Shape)
  <1>1. TypeOK /\ Shape /\ [Next]_vars => (TypeOK /\ Shape)'
    BY TypeStep, ShapeStep
  <1> QED
    BY TypeInit, <1>1, PTL DEF Spec

-----------------------------------------------------------------------------
(* The life of one counter-given job.                                      *)

LEMMA JobInit == Init => \A j \in AutoIds : JobInv(j)
  <1> SUFFICES ASSUME Init, NEW j \in AutoIds PROVE JobInv(j)
    OBVIOUS
  <1>1. ~InWait(j) /\ Once(j)
    BY DEF Init, QueueInit, InWait, Once
  <1> QED
    BY <1>1, JobAssumption, SystemAssumption
    DEF Init, QueueInit, JobInv, Placed, Born, Unborn, HeldOnce, Stored, Counted, Fresh, Queued,
        Limit, Idle, Nothing, Free, NoHash, Job

\* AddBulk's steps: only the job at hand changes, and it is nowhere yet.
LEMMA ProduceJob ==
  ASSUME TypeOK, Shape, NEW k \in AutoIds, JobInv(k), NEW p \in Producers, Produce(p)
  PROVE  JobInv(k)'
  <1> USE JobAssumption, SystemAssumption DEF JobInv
  <1>0. k \in Job /\ k # NoJob /\ hash[k] \in Hash /\ Attempts[k] \in Nat /\ runs[k] \in Nat
    BY DEF TypeOK, QueueTypeOK, Job
  <1>1. ASSUME NEW d \in CallerIds, CheckExists(p, d) PROVE JobInv(k)'
    BY <1>0, <1>1, SameQueue
    DEF CheckExists, queueVars, workerVars, Placed, Born, Unborn, HeldOnce, Stored, Counted, Fresh,
        TypeOK
  <1>2. ASSUME NEW a \in AutoIds, NextJobID(p, a) PROVE JobInv(k)'
    BY <1>0, <1>2, SameQueue
    DEF NextJobID, IncrId, lists, workerVars, Placed, Born, Unborn, HeldOnce, Stored, Counted,
        Fresh, TypeOK
  <1>3. CASE StoreJob(p)
    BY <1>0, <1>3, SameQueue, HeldIsJob
    DEF StoreJob, StoreHash, lists, workerVars, Placed, Born, Unborn, HeldOnce, Stored, Counted,
        Fresh, TypeOK, QueueTypeOK, Adding
  <1>4. CASE PushJob(p)
    <2> PICK j \in Job : j = producer[p].job
      BY <1>4, HeldIsJob DEF PushJob
    <2>4. Enqueue(j) /\ QueueTypeOK
      BY <1>4 DEF PushJob, TypeOK
    <2>1. /\ k # j => /\ InWait(k)' <=> InWait(k)
                      /\ k \in prioritized' <=> k \in prioritized
                      /\ Once(k) => Once(k)'
          /\ ~Queued(j) => /\ Once(j)'
                           /\ Queued(j)'
                           /\ InWait(j)' => j \notin prioritized'
      BY <1>0, <2>4, EnqueueEffect
    <2>2. CASE k = j
      BY <1>0, <1>4, <2>1, <2>2
      DEF PushJob, workerVars, Placed, Born, Unborn, HeldOnce, Stored, Counted, Fresh, TypeOK,
          Limit, Idle, Queued
    <2>3. CASE k # j
      BY <1>0, <1>4, <2>1, <2>3
      DEF PushJob, workerVars, Placed, Born, Unborn, HeldOnce, Stored, Counted, Fresh, TypeOK,
          Limit, Idle, Queued
    <2> QED
      BY <2>2, <2>3
  <1>5. CASE AddFails(p)
    BY <1>0, <1>5, SameQueue
    DEF AddFails, queueVars, workerVars, Placed, Born, Unborn, HeldOnce, Stored, Counted, Fresh,
        TypeOK, Idle
  <1> QED
    BY <1>1, <1>2, <1>3, <1>4, <1>5 DEF Produce

\* run()'s steps: the job that is popped leaves the wait list or the
\* prioritized set for the active list and is held by one worker.
LEMMA PollJob ==
  ASSUME TypeOK, Shape, NEW k \in AutoIds, JobInv(k), NEW w \in Workers, Poll(w)
  PROVE  JobInv(k)'
  <1> USE JobAssumption, SystemAssumption DEF JobInv
  <1>0. k \in Job /\ k # NoJob /\ hash[k] \in Hash /\ Attempts[k] \in Nat /\ runs[k] \in Nat
        /\ active[k] \in Nat
    BY DEF TypeOK, QueueTypeOK, Job
  <1>1. ASSUME NEW j \in Job, MoveToActive(j)
        PROVE  /\ k # j => /\ InWait(k)' <=> InWait(k)
                           /\ k \in prioritized' <=> k \in prioritized
                           /\ active'[k] = active[k]
               /\ k = j => Queued(k) /\ ~Queued(k)' /\ active'[k] = active[k] + 1
               /\ Once(k)'
    BY <1>0, <1>1, TakeEffect DEF MoveToActive, TypeOK, QueueTypeOK, Placed
  <1>2. ASSUME Queued(k)
        PROVE  /\ active[k] = 0 /\ k \in issued
               /\ k \notin delayed \cup completed \cup failed
               /\ \A p \in Producers : producer[p].job # k
               /\ \A v \in Workers : popped[v].job # k
               /\ \A t \in Workers \X Slots : task[t].job # k
               /\ hash[k].exists /\ hash[k].body /\ ~hash[k].ttl
               /\ Fresh(k)
    BY <1>2 DEF Placed, Born, Unborn, HeldOnce, Stored, Counted
  <1>3. ASSUME NEW j \in Job, Pop(w, j) \/ PopReplyLost(w, j) PROVE JobInv(k)'
    <2>1. MoveToActive(j) /\ task' = task /\ producer' = producer /\ runs' = runs /\ loop[w] = "poll"
      BY <1>3 DEF Pop, PopReplyLost, workerVars
    <2>2. /\ hash' = hash /\ issued' = issued /\ delayed' = delayed
          /\ completed' = completed /\ failed' = failed
      BY <2>1 DEF MoveToActive
    <2>3. popped[w].job = NoJob
      BY <2>1 DEF Shape
    <2>4. \A v \in Workers :
            /\ popped'[v].job = k =>
                 \/ v = w /\ loop'[v] = "get" /\ k = j
                 \/ popped[v].job = k /\ popped'[v] = popped[v] /\ loop'[v] = loop[v]
            /\ popped[v].job = k => popped'[v].job = k
      <3>1. CASE Pop(w, j)
        <4>1. popped[w] \in Popped /\ loop \in [Workers -> {"poll", "get", "slot", "exited", "dead"}]
          BY DEF TypeOK
        <4>2. popped'[w].job = j /\ loop'[w] = "get"
          BY <3>1, <4>1 DEF Pop, TypeOK, Popped
        <4>3. \A v \in Workers \ {w} : popped'[v] = popped[v] /\ loop'[v] = loop[v]
          BY <3>1 DEF Pop, TypeOK
        <4> QED
          BY <1>0, <2>3, <4>2, <4>3
      <3>2. CASE PopReplyLost(w, j)
        BY <3>2 DEF PopReplyLost, workerVars
      <3> QED
        BY <1>3, <3>1, <3>2
    <2>5. CASE k = j
      <3>1. Queued(k) /\ ~Queued(k)' /\ active'[k] = active[k] + 1 /\ Once(k)'
        BY <1>1, <2>1, <2>5
      <3>2. active'[k] = 1
        BY <1>2, <3>1
      <3>3. Placed(k)' /\ Stored(k)'
        BY <1>2, <2>2, <3>1, <3>2 DEF Placed, Stored, Queued
      <3>4. Born(k)'
        BY <1>2, <2>1, <2>2, <3>1 DEF Born
      <3>5. HeldOnce(k)'
        BY <1>2, <2>1, <2>4, <3>1, <3>2 DEF HeldOnce
      <3>6. Counted(k)'
        BY <1>2, <2>1, <2>2, <2>4, <3>1 DEF Counted, Fresh
      <3> QED
        BY <3>3, <3>4, <3>5, <3>6
    <2>6. CASE k # j
      <3>1. /\ InWait(k)' <=> InWait(k)
            /\ k \in prioritized' <=> k \in prioritized
            /\ active'[k] = active[k]
            /\ Once(k)'
        BY <1>1, <2>1, <2>6
      <3>2. Queued(k)' <=> Queued(k)
        BY <3>1 DEF Queued
      <3>3. Placed(k)' /\ Stored(k)'
        BY <2>2, <3>1, <3>2 DEF Placed, Stored
      <3>4. Born(k)'
        BY <2>1, <2>2, <3>1, <3>2 DEF Born, Unborn
      <3>5. HeldOnce(k)'
        BY <2>1, <2>4, <2>6, <3>1 DEF HeldOnce
      <3>6. Counted(k)'
        BY <2>1, <2>2, <2>4, <2>6, <3>2 DEF Counted, Fresh
      <3> QED
        BY <3>3, <3>4, <3>5, <3>6
    <2> QED
      BY <2>5, <2>6
  <1>4. CASE GetJob(w)
    BY <1>0, <1>4, SameQueue
    DEF GetJob, queueVars, Placed, Born, Unborn, HeldOnce, Stored, Counted, Fresh, TypeOK, Popped
  <1>5. CASE GetJobFails(w)
    BY <1>0, <1>5, SameQueue
    DEF GetJobFails, Nothing, queueVars, Placed, Born, Unborn, HeldOnce, Stored, Counted, Fresh,
        TypeOK, Popped
  <1>6. ASSUME NEW s \in Slots, Dispatch(w, s) PROVE JobInv(k)'
    <2>1. Placed(k)' /\ Stored(k)'
      BY <1>6, SameQueue DEF Dispatch, queueVars, Placed, Stored
    <2>2. CASE popped[w].job = k
      <3>1. \A u \in Workers \X Slots : task'[u].job = k <=> u = <<w, s>>
        BY <1>0, <1>6, <2>2 DEF Dispatch, HeldOnce, TypeOK
      <3>2. \A v \in Workers : popped'[v].job # k
        BY <1>0, <1>6, <2>2 DEF Dispatch, HeldOnce, TypeOK, Nothing
      <3>3. /\ task'[<<w, s>>] = [pc |-> "handle", job |-> k, limit |-> Attempts[k]]
            /\ runs'[k] = runs[k] + 1
            /\ active[k] = 1
        BY <1>0, <1>6, <2>2 DEF Dispatch, HeldOnce, TypeOK
      <3>4. HeldOnce(k)'
        BY <1>6, <3>1, <3>2, <3>3 DEF Dispatch, HeldOnce, queueVars
      <3>5. Born(k)'
        BY <1>0, <1>6, <3>3, SameQueue DEF Dispatch, Born, Unborn, queueVars
      <3>6. Counted(k)'
        BY <1>0, <1>6, <2>2, <3>1, <3>2, <3>3, SameQueue
        DEF Dispatch, Counted, Fresh, Placed, queueVars, Limit
      <3> QED
        BY <2>1, <3>4, <3>5, <3>6
    <2>3. CASE popped[w].job # k
      <3>1. /\ \A u \in Workers \X Slots : task'[u].job = k => task'[u] = task[u]
            /\ \A u \in Workers \X Slots : task'[u].job = k <=> task[u].job = k
        BY <1>0, <1>6, <2>3 DEF Dispatch, TypeOK, Shape
      <3>2. \A v \in Workers :
              popped'[v].job = k => popped[v].job = k /\ popped'[v] = popped[v] /\ loop'[v] = loop[v]
        BY <1>0, <1>6, <2>3 DEF Dispatch, TypeOK, Nothing
      <3>3. runs'[k] = runs[k]
        BY <1>0, <1>6, <2>3 DEF Dispatch, TypeOK
      <3>4. HeldOnce(k)'
        BY <1>6, <3>1, <3>2 DEF Dispatch, HeldOnce, queueVars
      <3>5. Born(k)' /\ Counted(k)'
        BY <1>6, <3>1, <3>2, <3>3, SameQueue
        DEF Dispatch, Born, Unborn, Counted, Fresh, queueVars
      <3> QED
        BY <2>1, <3>4, <3>5
    <2> QED
      BY <2>2, <2>3
  <1>7. CASE Drain(w)
    BY <1>0, <1>7, SameQueue
    DEF Drain, queueVars, Placed, Born, Unborn, HeldOnce, Stored, Counted, Fresh, TypeOK
  <1> QED
    BY <1>3, <1>4, <1>5, <1>6, <1>7 DEF Poll

\* processJob()'s steps: the goroutine's job stays its own until it leaves
\* the active list, and no other job changes.
LEMMA ProcessJob ==
  ASSUME TypeOK, Shape, NEW k \in AutoIds, JobInv(k), NEW w \in Workers, NEW s \in Slots,
         Process(w, s)
  PROVE  JobInv(k)'
  <1> USE JobAssumption, SystemAssumption DEF JobInv
  <1> DEFINE t == <<w, s>>
  <1>0. /\ k \in Job /\ k # NoJob /\ hash[k] \in Hash /\ Attempts[k] \in Nat /\ runs[k] \in Nat
        /\ active \in [Job -> Nat] /\ hash \in [Job -> Hash]
        /\ task \in [Workers \X Slots -> Task]
        /\ t \in Workers \X Slots
    BY DEF TypeOK, QueueTypeOK, Job
  <1>1. PICK j \in Job : j = task[t].job
    BY <1>0, HeldIsJob
    DEF Process, HandlerReturns, CompleteJob, FailJob, FailJobMoves, ResultLost
  <1>2. /\ wait' = wait /\ prioritized' = prioritized /\ issued' = issued
        /\ producer' = producer /\ loop' = loop /\ popped' = popped /\ runs' = runs
    BY DEF Process, HandlerReturns, CompleteJob, FailJob, FailJobMoves, ResultLost, queueVars, lists,
           MoveToCompleted, CountFailure, MoveToDelayed, MoveToFailed
  <1>3. /\ Queued(k)' <=> Queued(k)
        /\ InWait(k)' <=> InWait(k)
        /\ Once(k)' <=> Once(k)
    BY <1>2, SameQueue
  <1>4. \A u \in Workers \X Slots : u # t => task'[u] = task[u]
    BY <1>0 DEF Process, HandlerReturns, CompleteJob, FailJob, FailJobMoves, ResultLost, ReleaseSlot
  <1>5. task'[t].job \in {j, NoJob}
    <2>1. CASE ReleaseSlot(w, s)
      BY <1>0, <2>1 DEF ReleaseSlot, Free
    <2>2. ASSUME NEW pc, task' = [task EXCEPT ![t].pc = pc]
          PROVE  task'[t].job = j
      BY <1>0, <1>1, <2>2 DEF Task
    <2>3. CASE HandlerReturns(w, s)
      BY <2>2, <2>3 DEF HandlerReturns
    <2>4. CASE FailJob(w, s)
      BY <2>2, <2>4 DEF FailJob
    <2> QED
      BY <2>1, <2>3, <2>4 DEF Process, CompleteJob, FailJobMoves, ResultLost
  <1>6. CASE k # j
    <2>1. /\ hash'[k] = hash[k]
          /\ active'[k] = active[k]
          /\ k \in delayed' <=> k \in delayed
          /\ k \in completed' <=> k \in completed
          /\ k \in failed' <=> k \in failed
      BY <1>0, <1>1, <1>6
      DEF Process, HandlerReturns, CompleteJob, FailJob, FailJobMoves, ResultLost, queueVars, lists,
          MoveToCompleted, CountFailure, MoveToDelayed, MoveToFailed, RemoveFromActive, KeepForAWhile,
          KeepForRetry
    <2>2. \A u \in Workers \X Slots :
            /\ task'[u].job = k <=> task[u].job = k
            /\ task'[u].job = k => task'[u] = task[u]
      BY <1>0, <1>1, <1>4, <1>5, <1>6
    <2>3. Placed(k)' /\ Stored(k)'
      BY <1>2, <1>3, <2>1 DEF Placed, Stored
    <2>4. Born(k)'
      BY <1>2, <1>3, <2>1 DEF Born, Unborn
    <2>5. HeldOnce(k)'
      BY <1>2, <2>1, <2>2 DEF HeldOnce
    <2>6. Counted(k)'
      BY <1>2, <1>3, <2>1, <2>2 DEF Counted, Fresh
    <2> QED
      BY <2>3, <2>4, <2>5, <2>6
  <1>7. CASE k = j
    <2>1. /\ active[k] = 1 /\ k \in issued
          /\ task[t].limit = Attempts[k]
          /\ ~Queued(k)
          /\ k \notin delayed \cup completed \cup failed
          /\ \A p \in Producers : producer[p].job # k
          /\ \A v \in Workers : popped[v].job # k
          /\ \A u \in Workers \X Slots : task[u].job = k => u = t
          /\ hash[k].exists /\ hash[k].body /\ ~hash[k].ttl
          /\ runs[k] <= Limit(k)
      BY <1>0, <1>1, <1>7 DEF Placed, Born, Unborn, HeldOnce, Stored, Counted
    <2>2. Born(k)'
      BY <1>2, <2>1 DEF Born
    <2>3. \A u \in Workers \X Slots : task'[u].job = k => u = t
      BY <1>4, <2>1
    <2>4. CASE HandlerReturns(w, s)
      <3>1. /\ task[t].pc = "handle"
            /\ task'[t].job = k /\ task'[t].limit = Attempts[k]
            /\ task'[t].pc \in {"complete", "fail"}
        BY <1>0, <1>1, <1>7, <2>1, <2>4 DEF HandlerReturns, Task
      <3>2. /\ hash' = hash /\ active' = active /\ delayed' = delayed
            /\ completed' = completed /\ failed' = failed
        BY <2>4 DEF HandlerReturns, queueVars
      <3>3. runs[k] = hash[k].made + 1
        BY <1>0, <1>1, <1>7, <3>1 DEF Counted
      <3>4. Placed(k)' /\ Stored(k)'
        BY <1>3, <1>2, <3>2 DEF Placed, Stored
      <3>5. HeldOnce(k)' /\ Counted(k)'
        BY <1>2, <1>3, <2>1, <2>3, <3>1, <3>2, <3>3 DEF HeldOnce, Counted
      <3> QED
        BY <2>2, <3>4, <3>5
    <2>5. CASE FailJob(w, s)
      <3>1. /\ task[t].pc = "fail"
            /\ task'[t].job = k /\ task'[t].limit = Attempts[k]
            /\ task'[t].pc = IF hash[k].made + 1 < Attempts[k] THEN "retry" ELSE "bury"
        BY <1>0, <1>1, <1>7, <2>1, <2>5 DEF FailJob, RetryLeft, Task
      <3>2. /\ active' = active /\ delayed' = delayed
            /\ completed' = completed /\ failed' = failed
            /\ hash'[k].made = hash[k].made + 1
            /\ hash'[k].exists /\ hash'[k].body /\ ~hash'[k].ttl
        BY <1>0, <1>1, <1>7, <2>1, <2>5 DEF FailJob, CountFailure, lists, Hash
      <3>3. runs[k] = hash[k].made + 1 /\ hash[k].made \in Nat
        BY <1>0, <1>1, <1>7, <3>1 DEF Counted, Hash
      <3>4. Placed(k)' /\ Stored(k)'
        BY <1>3, <1>2, <3>2 DEF Placed, Stored
      <3>5. HeldOnce(k)'
        BY <1>2, <2>1, <2>3, <3>1, <3>2 DEF HeldOnce
      <3>6. Counted(k)'
        BY <1>0, <1>2, <1>3, <2>1, <2>3, <3>1, <3>2, <3>3 DEF Counted
      <3> QED
        BY <2>2, <3>4, <3>5, <3>6
    <2>6. ASSUME ReleaseSlot(w, s)
          PROVE  \A u \in Workers \X Slots : task'[u].job # k
      BY <1>0, <2>3, <2>6 DEF ReleaseSlot, Free
    <2>7. CASE ResultLost(w, s)
      <3>1. /\ hash' = hash /\ active' = active /\ delayed' = delayed
            /\ completed' = completed /\ failed' = failed
        BY <2>7 DEF ResultLost, queueVars
      <3>2. \A u \in Workers \X Slots : task'[u].job # k
        BY <2>6, <2>7 DEF ResultLost
      <3>3. Placed(k)' /\ Stored(k)'
        BY <1>3, <1>2, <3>1 DEF Placed, Stored
      <3>4. HeldOnce(k)' /\ Counted(k)'
        BY <1>2, <1>3, <2>1, <3>1, <3>2 DEF HeldOnce, Counted
      <3> QED
        BY <2>2, <3>3, <3>4
    <2>8. CASE CompleteJob(w, s)
      <3>1. /\ active'[k] = 0 /\ delayed' = delayed
            /\ completed' = completed \cup {k} /\ failed' = failed
        BY <1>0, <1>1, <1>7, <2>8 DEF CompleteJob, MoveToCompleted, RemoveFromActive
      <3>2. \A u \in Workers \X Slots : task'[u].job # k
        BY <2>6, <2>8 DEF CompleteJob
      <3>3. Placed(k)' /\ Stored(k)'
        BY <1>2, <1>3, <2>1, <3>1 DEF Placed, Stored
      <3>4. HeldOnce(k)' /\ Counted(k)'
        BY <1>2, <1>3, <2>1, <3>1, <3>2 DEF HeldOnce, Counted
      <3> QED
        BY <2>2, <3>3, <3>4
    <2>9. CASE FailJobMoves(w, s)
      <3>1. \A u \in Workers \X Slots : task'[u].job # k
        BY <2>6, <2>9 DEF FailJobMoves
      <3>2. HeldOnce(k)'
        BY <1>2, <2>1, <3>1 DEF HeldOnce
      <3>3. CASE task[t].pc = "retry" /\ MoveToDelayed(j)
        <4>1. /\ active'[k] = 0 /\ delayed' = delayed \cup {k}
              /\ completed' = completed /\ failed' = failed
              /\ hash'[k].made = hash[k].made
              /\ hash'[k].exists /\ hash'[k].body /\ ~hash'[k].ttl
          BY <1>0, <1>1, <1>7, <2>1, <3>3
          DEF MoveToDelayed, RemoveFromActive, KeepForRetry, Hash
        <4>2. runs[k] = hash[k].made /\ hash[k].made < Attempts[k]
          BY <1>0, <1>1, <1>7, <3>3 DEF Counted
        <4>3. Placed(k)' /\ Stored(k)'
          BY <1>2, <1>3, <2>1, <4>1 DEF Placed, Stored
        <4>4. Counted(k)'
          BY <1>2, <1>3, <2>1, <3>1, <4>1, <4>2 DEF Counted
        <4> QED
          BY <2>2, <3>2, <4>3, <4>4
      <3>4. CASE task[t].pc = "bury" /\ MoveToFailed(j)
        <4>1. /\ active'[k] = 0 /\ delayed' = delayed
              /\ completed' = completed /\ failed' = failed \cup {k}
              /\ hash'[k].made = hash[k].made
          BY <1>0, <1>1, <1>7, <2>1, <3>4
          DEF MoveToFailed, RemoveFromActive, KeepForAWhile, Hash
        <4>2. hash[k].made >= Attempts[k]
          BY <1>0, <1>1, <1>7, <3>4 DEF Counted
        <4>3. Placed(k)' /\ Stored(k)'
          BY <1>2, <1>3, <2>1, <4>1 DEF Placed, Stored
        <4>4. Counted(k)'
          BY <1>2, <1>3, <2>1, <3>1, <4>1, <4>2 DEF Counted
        <4> QED
          BY <2>2, <3>2, <4>3, <4>4
      <3> QED
        BY <1>1, <2>9, <3>3, <3>4 DEF FailJobMoves
    <2> QED
      BY <2>4, <2>5, <2>7, <2>8, <2>9 DEF Process
  <1> QED
    BY <1>6, <1>7

\* Stopping, killing and starting workers, expiring hashes and promoting
\* delayed jobs.
LEMMA OutsideJob ==
  ASSUME TypeOK, Shape, NEW k \in AutoIds, JobInv(k),
         \/ \E w \in Workers : Cancel(w) \/ Kill(w) \/ Restart(w)
         \/ \E j \in Job : HashExpires(j) \/ PromoteDelayed(j)
         \/ UNCHANGED vars
  PROVE  JobInv(k)'
  <1> USE JobAssumption, SystemAssumption DEF JobInv
  <1>0. /\ k \in Job /\ k # NoJob /\ hash[k] \in Hash /\ Attempts[k] \in Nat /\ runs[k] \in Nat
        /\ hash \in [Job -> Hash] /\ task \in [Workers \X Slots -> Task]
    BY DEF TypeOK, QueueTypeOK, Job
  <1>1. ASSUME NEW w \in Workers, Cancel(w) \/ Kill(w) \/ Restart(w) PROVE JobInv(k)'
    <2>1. UNCHANGED <<queueVars, producer, runs>>
      BY <1>1 DEF Cancel, Kill, Restart
    <2>2. \A v \in Workers : popped'[v].job = k =>
            /\ popped[v].job = k /\ popped'[v] = popped[v]
            /\ loop'[v] = "slot" => loop[v] = "slot"
      BY <1>0, <1>1 DEF Cancel, Kill, Restart, TypeOK, Nothing
    <2>3. \A u \in Workers \X Slots : task'[u].job = k => task[u].job = k /\ task'[u] = task[u]
      BY <1>0, <1>1 DEF Cancel, Kill, Restart, Free
    <2>4. Placed(k)' /\ Stored(k)' /\ Born(k)'
      BY <2>1, SameQueue DEF queueVars, Placed, Stored, Born, Unborn
    <2>5. HeldOnce(k)' /\ Counted(k)'
      BY <2>1, <2>2, <2>3, SameQueue DEF queueVars, HeldOnce, Counted, Fresh
    <2> QED
      BY <2>4, <2>5
  <1>2. ASSUME NEW j \in Job, HashExpires(j) PROVE JobInv(k)'
    <2>1. UNCHANGED <<issued, lists, producer, workerVars, runs>>
      BY <1>2 DEF HashExpires, Expire
    <2>2. CASE k = j
      <3>1. hash[k].ttl /\ hash'[k] = NoHash
        BY <1>0, <1>2, <2>2 DEF HashExpires, Expire
      <3>2. /\ ~Queued(k) /\ active[k] # 1 /\ k \notin delayed
            /\ k \in issued
            /\ \A p \in Producers : producer[p].job # k
            /\ \A v \in Workers : popped[v].job # k
            /\ \A u \in Workers \X Slots : task[u].job # k
        BY <3>1 DEF Stored, Born, HeldOnce
      <3>3. Placed(k)' /\ HeldOnce(k)'
        BY <2>1, SameQueue DEF lists, workerVars, Placed, HeldOnce
      <3>4. Stored(k)' /\ Born(k)'
        BY <2>1, <3>2, SameQueue DEF lists, Stored, Born
      <3>5. Counted(k)'
        BY <2>1, <3>1, <3>2, SameQueue DEF lists, workerVars, Counted, NoHash
      <3> QED
        BY <3>3, <3>4, <3>5
    <2>3. CASE k # j
      <3>1. hash'[k] = hash[k]
        BY <1>0, <1>2, <2>3 DEF HashExpires, Expire
      <3> QED
        BY <2>1, <3>1, SameQueue
        DEF lists, workerVars, Placed, Born, Unborn, HeldOnce, Stored, Counted, Fresh
    <2> QED
      BY <2>2, <2>3
  <1>3. ASSUME NEW j \in Job, PromoteDelayed(j) PROVE JobInv(k)'
    <2>1. /\ Enqueue(j) /\ QueueTypeOK /\ j \in delayed /\ delayed' = delayed \ {j}
          /\ UNCHANGED <<hash, issued, active, completed, failed, producer, workerVars, runs>>
      BY <1>3 DEF PromoteDelayed, Promote, TypeOK
    <2>2. /\ k # j => /\ InWait(k)' <=> InWait(k)
                      /\ k \in prioritized' <=> k \in prioritized
                      /\ Once(k) => Once(k)'
          /\ ~Queued(j) => /\ Once(j)'
                           /\ Queued(j)'
                           /\ InWait(j)' => j \notin prioritized'
      BY <1>0, <2>1, EnqueueEffect
    <2>3. CASE k = j
      <3>1. /\ k \in delayed /\ ~Queued(k) /\ active[k] # 1 /\ active[k] <= 1
            /\ k \notin completed \cup failed
            /\ k \in issued
            /\ \A p \in Producers : producer[p].job # k
            /\ \A v \in Workers : popped[v].job # k
            /\ \A u \in Workers \X Slots : task[u].job # k
            /\ hash[k].exists /\ hash[k].body /\ ~hash[k].ttl
            /\ Fresh(k)
        BY <1>0, <2>1, <2>3 DEF Placed, Born, Unborn, HeldOnce, Stored, Counted, Fresh, Limit
      <3>2. Once(k)' /\ Queued(k)' /\ (InWait(k)' => k \notin prioritized')
        BY <2>2, <2>3, <3>1
      <3>3. active[k] = 0
        BY <3>1, <1>0 DEF TypeOK, QueueTypeOK
      <3>4. Placed(k)' /\ Stored(k)'
        BY <2>1, <2>3, <3>1, <3>2, <3>3 DEF Placed, Stored
      <3>5. Born(k)' /\ HeldOnce(k)'
        BY <2>1, <3>1 DEF Born, HeldOnce, workerVars
      <3>6. Counted(k)'
        BY <1>0, <2>1, <2>3, <3>1 DEF Counted, Fresh, workerVars
      <3> QED
        BY <3>4, <3>5, <3>6
    <2>4. CASE k # j
      <3>1. /\ k \in delayed' <=> k \in delayed
            /\ Queued(k)' <=> Queued(k)
        BY <2>1, <2>2, <2>4 DEF Queued
      <3> QED
        BY <2>1, <2>2, <2>4, <3>1
        DEF workerVars, Placed, Born, Unborn, HeldOnce, Stored, Counted, Fresh
    <2> QED
      BY <2>3, <2>4
  <1>4. CASE UNCHANGED vars
    BY <1>4, SameQueue
    DEF vars, queueVars, workerVars, Placed, Born, Unborn, HeldOnce, Stored, Counted, Fresh
  <1> QED
    BY <1>1, <1>2, <1>3, <1>4

\* IndInv is inductive.
LEMMA Inductive == IndInv /\ [Next]_vars => IndInv'
  <1> SUFFICES ASSUME IndInv, [Next]_vars PROVE IndInv'
    OBVIOUS
  <1>1. TypeOK' /\ Shape'
    BY TypeStep, ShapeStep DEF IndInv
  <1>2. ASSUME NEW k \in AutoIds PROVE JobInv(k)'
    <2>1. TypeOK /\ Shape /\ JobInv(k)
      BY DEF IndInv
    <2>2. CASE \E p \in Producers : Produce(p)
      BY <2>1, <2>2, ProduceJob
    <2>3. CASE \E w \in Workers : Poll(w)
      BY <2>1, <2>3, PollJob
    <2>4. CASE \E w \in Workers, s \in Slots : Process(w, s)
      BY <2>1, <2>4, ProcessJob
    <2>5. CASE \/ \E w \in Workers : Cancel(w) \/ Kill(w) \/ Restart(w)
               \/ \E j \in Job : HashExpires(j) \/ PromoteDelayed(j)
               \/ UNCHANGED vars
      BY <2>1, <2>5, OutsideJob
    <2> QED
      BY <2>2, <2>3, <2>4, <2>5 DEF Next
  <1> QED
    BY <1>1, <1>2 DEF IndInv

-----------------------------------------------------------------------------
(* The theorems.                                                           *)

\* The inductive invariant holds in every reachable state.
THEOREM Invariant == Spec => []IndInv
  <1>1. Init => IndInv
    BY TypeInit, JobInit DEF IndInv
  <1> QED
    BY <1>1, Inductive, PTL DEF Spec

\* What Where says of a job, place by place.
LEMMA WhereMeans ==
  ASSUME NEW j, NEW x \in Where(j)
  PROVE  \/ x = "wait" /\ InWait(j)
         \/ x = "prioritized" /\ j \in prioritized
         \/ x = "active" /\ active[j] > 0
         \/ x = "delayed" /\ j \in delayed
         \/ x = "completed" /\ j \in completed
         \/ x = "failed" /\ j \in failed
  <1>1. x \in DOMAIN Holding(j) /\ Holding(j)[x]
    BY DEF Where
  <1>2. DOMAIN Holding(j) = {"wait", "prioritized", "active", "delayed", "completed", "failed"}
    BY DEF Holding
  <1>3. /\ Holding(j)["wait"] => InWait(j)
        /\ Holding(j)["prioritized"] => j \in prioritized
        /\ Holding(j)["active"] => active[j] > 0
        /\ Holding(j)["delayed"] => j \in delayed
        /\ Holding(j)["completed"] => j \in completed
        /\ Holding(j)["failed"] => j \in failed
    BY DEF Holding
  <1> QED
    BY <1>1, <1>2, <1>3

\* A counter-given id is in one list or sorted set only, and there once
\* (AddBulk, moveToActive, CompleteJob, FailJob).
THEOREM SinglePlaceCorrect == Spec => []SinglePlace
  <1>1. IndInv => SinglePlace
    <2> SUFFICES ASSUME IndInv, NEW j \in AutoIds
                 PROVE  /\ \A x, y \in Where(j) : x = y
                        /\ \A m, n \in DOMAIN wait : wait[m] = j /\ wait[n] = j => m = n
                        /\ active[j] <= 1
      BY DEF SinglePlace
    <2>1. Placed(j) /\ active[j] \in Nat
      BY DEF IndInv, JobInv, TypeOK, QueueTypeOK, Job
    <2>2. active[j] > 0 => active[j] = 1
      BY <2>1 DEF Placed
    <2>3. \A x \in Where(j) :
            \/ x = "wait" /\ InWait(j)
            \/ x = "prioritized" /\ j \in prioritized
            \/ x = "active" /\ active[j] = 1
            \/ x = "delayed" /\ j \in delayed
            \/ x = "completed" /\ j \in completed
            \/ x = "failed" /\ j \in failed
      BY <2>2, WhereMeans
    <2> QED
      BY <2>1, <2>3 DEF Placed, Once, Queued
  <1> QED
    BY <1>1, Invariant, PTL

\* Two goroutines or polling loops never hold the same counter-given job
\* (the moveToActive script hands it to one of them).
THEOREM SingleRunnerCorrect == Spec => []SingleRunner
  <1>1. IndInv => SingleRunner
    <2> SUFFICES ASSUME IndInv, NEW j \in AutoIds PROVE HeldByOne(j)
      BY DEF SingleRunner
    <2>1. HeldOnce(j)
      BY DEF IndInv, JobInv
    <2> QED
      BY <2>1 DEF HeldOnce, HeldByOne
  <1> QED
    BY <1>1, Invariant, PTL

\* The handler of a counter-given job is called at most opts.attempts times
\* (once when the option is absent), whatever fails or is restarted.
THEOREM RunsBoundedCorrect == Spec => []RunsBounded
  <1>1. IndInv => RunsBounded
    BY DEF IndInv, JobInv, Counted, RunsBounded
  <1> QED
    BY <1>1, Invariant, PTL

\* FailJob delays a job only with an attempt left and buries it only with
\* none left.
THEOREM RetryBudgetCorrect == Spec => []RetryBudget
  <1>1. IndInv => RetryBudget
    BY DEF IndInv, JobInv, Counted, RetryBudget
  <1> QED
    BY <1>1, Invariant, PTL

\* A job that is still to be run has its hash, complete and with no EXPIRE
\* running, so getJob finds it.
THEOREM JobReadableCorrect == Spec => []JobReadable
  <1>1. IndInv => JobReadable
    <2> SUFFICES ASSUME IndInv, NEW j \in AutoIds,
                        NEW x \in Where(j), x \in {"wait", "prioritized", "delayed", "active"}
                 PROVE  hash[j].exists /\ hash[j].body /\ ~hash[j].ttl
      BY DEF JobReadable
    <2>1. Stored(j) /\ Placed(j) /\ active[j] \in Nat
      BY DEF IndInv, JobInv, TypeOK, QueueTypeOK, Job
    <2>2. active[j] > 0 => active[j] = 1
      BY <2>1 DEF Placed
    <2>3. Queued(j) \/ active[j] = 1 \/ j \in delayed
      BY <2>2, WhereMeans DEF Queued
    <2> QED
      BY <2>1, <2>3 DEF Stored
  <1> QED
    BY <1>1, Invariant, PTL

-----------------------------------------------------------------------------
(* Ids that callers choose.  They come back: the hash of a finished job    *)
(* expires and the id is added again, so its invariant says what a call of *)
(* AddBulk may rely on from EXISTS to the push.                            *)

\* d is queued, delayed or active once at most.
OnePlace(d) ==
  /\ Once(d)
  /\ active[d] <= 1
  /\ InWait(d) => d \notin prioritized
  /\ Queued(d) => active[d] = 0 /\ d \notin delayed
  /\ active[d] = 1 => d \notin delayed

\* One process holds d at most, and only while d is in the active list.
OneHolder(d) ==
  /\ \A w \in Workers : popped[w].job = d =>
       /\ active[d] = 1
       /\ \A v \in Workers : popped[v].job = d => v = w
       /\ \A t \in Workers \X Slots : task[t].job # d
  /\ \A t \in Workers \X Slots : task[t].job = d =>
       /\ active[d] = 1
       /\ \A u \in Workers \X Slots : task[u].job = d => u = t

\* While d is queued, delayed or active, EXISTS says so; while it is being
\* added it is nowhere, and no EXPIRE left from an earlier life can end the
\* hash that is being stored.
Guarded(d) ==
  /\ Queued(d) \/ active[d] = 1 \/ d \in delayed => hash[d].exists /\ ~hash[d].ttl
  /\ ~hash[d].exists => ~hash[d].ttl
  /\ \A p \in Producers : producer[p].job = d =>
       /\ ~Queued(d) /\ active[d] = 0 /\ d \notin delayed /\ ~hash[d].ttl
       /\ producer[p].pc = "push" => hash[d].exists

CallerInv(d) == OnePlace(d) /\ OneHolder(d) /\ Guarded(d)

CallersInv == TypeOK /\ Shape /\ \A d \in CallerIds : CallerInv(d)

\* What a step must leave alone for d's invariant to be d's own affair.
Untouched(d) ==
  /\ InWait(d)' <=> InWait(d)
  /\ Once(d)' <=> Once(d)
  /\ d \in prioritized' <=> d \in prioritized
  /\ d \in delayed' <=> d \in delayed
  /\ active'[d] = active[d]
  /\ hash'[d].exists = hash[d].exists /\ hash'[d].ttl = hash[d].ttl
  /\ \A w \in Workers : popped'[w].job = d => popped[w].job = d
  /\ \A t \in Workers \X Slots : task'[t].job = d => task[t].job = d
  /\ \A p \in Producers :
       producer'[p].job = d => producer[p].job = d /\ producer'[p].pc = producer[p].pc

LEMMA UntouchedKeeps ==
  ASSUME NEW d, CallerInv(d), Untouched(d)
  PROVE  CallerInv(d)'
  <1>1. Queued(d)' <=> Queued(d)
    BY DEF Untouched, Queued
  <1>2. OnePlace(d)'
    BY <1>1 DEF CallerInv, OnePlace, Untouched
  <1>3. OneHolder(d)'
    BY DEF CallerInv, OneHolder, Untouched
  <1>4. Guarded(d)'
    BY <1>1 DEF CallerInv, Guarded, Untouched
  <1> QED
    BY <1>2, <1>3, <1>4 DEF CallerInv

LEMMA CallerInit == Init => \A d \in CallerIds : CallerInv(d)
  <1> SUFFICES ASSUME Init, NEW d \in CallerIds PROVE CallerInv(d)
    OBVIOUS
  <1>1. ~InWait(d) /\ Once(d)
    BY DEF Init, QueueInit, InWait, Once
  <1> QED
    BY <1>1, JobAssumption, SystemAssumption
    DEF Init, QueueInit, CallerInv, OnePlace, OneHolder, Guarded, Queued, Idle, Nothing, Free,
        NoHash, Job

\* AddBulk's steps: EXISTS said that the id is nowhere, and no other call
\* pushes it before this one does.
LEMMA ProduceCaller ==
  ASSUME TypeOK, Shape, NoOverlap, NEW k \in CallerIds, CallerInv(k), NEW p \in Producers, Produce(p)
  PROVE  CallerInv(k)'
  <1> USE JobAssumption, SystemAssumption
  <1>0. /\ k \in Job /\ k # NoJob /\ hash[k] \in Hash /\ active[k] \in Nat
        /\ producer \in [Producers -> Adding] /\ hash \in [Job -> Hash]
    BY DEF TypeOK, QueueTypeOK, Job
  <1>1. ASSUME NEW d \in CallerIds, CheckExists(p, d) PROVE CallerInv(k)'
    <2>1. UNCHANGED <<queueVars, workerVars>> /\ producer' = [producer EXCEPT ![p] = [pc |-> "store", job |-> d]]
      BY <1>1 DEF CheckExists
    <2>2. CASE k # d
      <3>1. Untouched(k)
        BY <1>0, <2>1, <2>2, SameQueue DEF Untouched, queueVars, workerVars
      <3> QED
        BY <3>1, UntouchedKeeps
    <2>3. CASE k = d
      <3>1. ~Queued(k) /\ active[k] # 1 /\ k \notin delayed /\ ~hash[k].exists /\ ~hash[k].ttl
        BY <1>1, <2>3 DEF CheckExists, CallerInv, Guarded
      <3>2. active[k] = 0
        BY <1>0, <3>1 DEF CallerInv, OnePlace
      <3>3. \A q \in Producers : producer'[q].pc = "push" => producer'[q] = producer[q]
        BY <1>0, <2>1
      <3> QED
        BY <2>1, <3>1, <3>2, <3>3, SameQueue
        DEF queueVars, workerVars, CallerInv, OnePlace, OneHolder, Guarded
    <2> QED
      BY <2>2, <2>3
  <1>2. ASSUME NEW a \in AutoIds, NextJobID(p, a) PROVE CallerInv(k)'
    <2>1. Untouched(k)
      BY <1>0, <1>2, SameQueue DEF NextJobID, lists, workerVars, Untouched
    <2> QED
      BY <2>1, UntouchedKeeps
  <1>3. CASE StoreJob(p)
    <2>1. /\ producer[p].job \in Job
          /\ UNCHANGED <<lists, workerVars>>
          /\ \A q \in Producers : producer'[q].job = producer[q].job
      BY <1>0, <1>3, HeldIsJob DEF StoreJob, Adding
    <2>2. /\ hash'[k].ttl = hash[k].ttl
          /\ hash[k].exists => hash'[k].exists
          /\ producer[p].job = k => hash'[k].exists
          /\ producer[p].job # k => hash'[k] = hash[k]
      BY <1>0, <1>3, <2>1 DEF StoreJob, StoreHash
    <2>3. \A q \in Producers : q # p => producer'[q].pc = producer[q].pc
      BY <1>0, <1>3 DEF StoreJob
    <2> QED
      BY <2>1, <2>2, <2>3, SameQueue DEF lists, workerVars, CallerInv, OnePlace, OneHolder, Guarded
  <1>4. CASE PushJob(p)
    <2> PICK j \in Job : j = producer[p].job
      BY <1>4, HeldIsJob DEF PushJob
    <2>1. /\ Enqueue(j) /\ QueueTypeOK /\ producer[p].pc = "push"
          /\ UNCHANGED <<hash, active, delayed, workerVars>>
          /\ producer' = [producer EXCEPT ![p] = Idle]
      BY <1>4 DEF PushJob, TypeOK
    <2>2. CASE k # j
      <3>1. /\ InWait(k)' <=> InWait(k)
            /\ k \in prioritized' <=> k \in prioritized
            /\ Once(k) => Once(k)'
        BY <1>0, <2>1, <2>2, EnqueueEffect
      <3>2. Once(k)
        BY DEF CallerInv, OnePlace
      <3>3. Untouched(k)
        BY <1>0, <2>1, <3>1, <3>2 DEF Untouched, workerVars, Idle
      <3> QED
        BY <3>3, UntouchedKeeps
    <2>3. CASE k = j
      <3>1. /\ ~Queued(k) /\ active[k] = 0 /\ k \notin delayed /\ ~hash[k].ttl
            /\ \A q \in Producers \ {p} : producer'[q].job # k
            /\ producer'[p].job # k
        BY <1>0, <2>1, <2>3 DEF CallerInv, Guarded, NoOverlap, Idle
      <3>2. hash[k].exists
        BY <2>1, <2>3 DEF CallerInv, Guarded
      <3>3. /\ Queued(k)' /\ Once(k)' /\ (InWait(k)' => k \notin prioritized')
        BY <1>0, <2>1, <2>3, <3>1, EnqueueEffect
      <3>4. OnePlace(k)' /\ OneHolder(k)' /\ Guarded(k)'
        BY <2>1, <3>1, <3>2, <3>3 DEF workerVars, CallerInv, OnePlace, OneHolder, Guarded
      <3> QED
        BY <3>4 DEF CallerInv
    <2> QED
      BY <2>2, <2>3
  <1>5. CASE AddFails(p)
    <2>1. Untouched(k)
      BY <1>0, <1>5, SameQueue DEF AddFails, queueVars, workerVars, Untouched, Idle
    <2> QED
      BY <2>1, UntouchedKeeps
  <1> QED
    BY <1>1, <1>2, <1>3, <1>4, <1>5 DEF Produce

\* run()'s steps: moveToActive takes the only copy of an id and hands it to
\* one polling loop.
LEMMA PollCaller ==
  ASSUME TypeOK, Shape, NEW k \in CallerIds, CallerInv(k), NEW w \in Workers, Poll(w)
  PROVE  CallerInv(k)'
  <1> USE JobAssumption, SystemAssumption
  <1>0. /\ k \in Job /\ k # NoJob /\ hash[k] \in Hash /\ active \in [Job -> Nat]
        /\ popped \in [Workers -> Popped] /\ task \in [Workers \X Slots -> Task]
    BY DEF TypeOK, QueueTypeOK, Job
  <1>1. ASSUME NEW j \in Job, Pop(w, j) \/ PopReplyLost(w, j) PROVE CallerInv(k)'
    <2>1. /\ MoveToActive(j) /\ QueueTypeOK /\ task' = task /\ producer' = producer
          /\ hash' = hash /\ delayed' = delayed /\ active' = [active EXCEPT ![j] = @ + 1]
          /\ TakeNext(j)
      BY <1>1 DEF Pop, PopReplyLost, workerVars, MoveToActive, TypeOK
    <2>2. \A v \in Workers : popped'[v].job = k => popped[v].job = k \/ (v = w /\ k = j)
      BY <1>0, <1>1 DEF Pop, PopReplyLost, workerVars, Popped
    <2>3. CASE k # j
      <3>1. /\ InWait(k)' <=> InWait(k)
            /\ k \in prioritized' <=> k \in prioritized
            /\ Once(k)' /\ Once(k)
        BY <1>0, <2>1, <2>3, TakeEffect DEF CallerInv, OnePlace
      <3>2. Untouched(k)
        BY <1>0, <2>1, <2>2, <2>3, <3>1 DEF Untouched
      <3> QED
        BY <3>2, UntouchedKeeps
    <2>4. CASE k = j
      <3>1. Queued(k) /\ ~Queued(k)' /\ Once(k)'
        BY <1>0, <2>1, <2>4, TakeEffect DEF CallerInv, OnePlace
      <3>2. /\ active[k] = 0 /\ active'[k] = 1 /\ k \notin delayed
            /\ \A v \in Workers : popped[v].job # k
            /\ \A t \in Workers \X Slots : task[t].job # k
            /\ \A p \in Producers : producer[p].job # k
            /\ hash[k].exists /\ ~hash[k].ttl
        BY <1>0, <2>1, <2>4, <3>1 DEF CallerInv, OnePlace, OneHolder, Guarded
      <3>3. OnePlace(k)' /\ Guarded(k)'
        BY <2>1, <3>1, <3>2 DEF OnePlace, Guarded, Queued
      <3>4. OneHolder(k)'
        BY <2>1, <2>2, <3>2 DEF OneHolder
      <3> QED
        BY <3>3, <3>4 DEF CallerInv
    <2> QED
      BY <2>3, <2>4
  <1>2. CASE GetJob(w) \/ GetJobFails(w) \/ Drain(w)
    <2>1. UNCHANGED <<queueVars, producer, task>>
      BY <1>2 DEF GetJob, GetJobFails, Drain
    <2>2. CASE GetJob(w)
      BY <1>0, <2>1, <2>2, SameQueue, UntouchedKeeps DEF GetJob, queueVars, Untouched, Popped
    <2>3. CASE GetJobFails(w) \/ Drain(w)
      BY <1>0, <2>1, <2>3, SameQueue, UntouchedKeeps
      DEF GetJobFails, Drain, queueVars, Untouched, Nothing
    <2> QED
      BY <1>2, <2>2, <2>3
  <1>3. ASSUME NEW s \in Slots, Dispatch(w, s) PROVE CallerInv(k)'
    <2>1. UNCHANGED <<queueVars, producer>>
      BY <1>3 DEF Dispatch
    <2>2. /\ \A u \in Workers \X Slots : u # <<w, s>> => task'[u] = task[u]
          /\ task'[<<w, s>>].job = popped[w].job
          /\ \A v \in Workers \ {w} : popped'[v] = popped[v]
          /\ popped'[w].job = NoJob
      BY <1>0, <1>3 DEF Dispatch, Nothing
    <2>3. CASE popped[w].job # k
      <3>1. Untouched(k)
        BY <1>0, <2>1, <2>2, <2>3, SameQueue DEF queueVars, Untouched
      <3> QED
        BY <3>1, UntouchedKeeps
    <2>4. CASE popped[w].job = k
      <3>1. OneHolder(k)'
        BY <1>0, <2>1, <2>2, <2>4 DEF queueVars, CallerInv, OneHolder
      <3>2. OnePlace(k)' /\ Guarded(k)'
        BY <2>1, SameQueue DEF queueVars, CallerInv, OnePlace, Guarded
      <3> QED
        BY <3>1, <3>2 DEF CallerInv
    <2> QED
      BY <2>3, <2>4
  <1> QED
    BY <1>1, <1>2, <1>3 DEF Poll

\* processJob()'s steps: the goroutine that has the id is the only one, so
\* removing every occurrence of it from the active list takes nobody's job.
LEMMA ProcessCaller ==
  ASSUME TypeOK, Shape, NEW k \in CallerIds, CallerInv(k), NEW w \in Workers, NEW s \in Slots,
         Process(w, s)
  PROVE  CallerInv(k)'
  <1> USE JobAssumption, SystemAssumption
  <1> DEFINE t == <<w, s>>
  <1>0. /\ k \in Job /\ k # NoJob /\ active \in [Job -> Nat] /\ hash \in [Job -> Hash]
        /\ task \in [Workers \X Slots -> Task] /\ t \in Workers \X Slots
    BY DEF TypeOK, QueueTypeOK, Job
  <1>1. PICK j \in Job : j = task[t].job
    BY <1>0, HeldIsJob
    DEF Process, HandlerReturns, CompleteJob, FailJob, FailJobMoves, ResultLost
  <1>2. wait' = wait /\ prioritized' = prioritized /\ producer' = producer /\ popped' = popped
    BY DEF Process, HandlerReturns, CompleteJob, FailJob, FailJobMoves, ResultLost, queueVars, lists,
           MoveToCompleted, CountFailure, MoveToDelayed, MoveToFailed
  <1>3. \A u \in Workers \X Slots : u # t => task'[u] = task[u]
    BY <1>0 DEF Process, HandlerReturns, CompleteJob, FailJob, FailJobMoves, ResultLost, ReleaseSlot
  <1>4. CASE HandlerReturns(w, s) \/ FailJob(w, s) \/ ResultLost(w, s)
    <2>1. task'[t].job \in {j, NoJob}
      <3>1. ASSUME NEW pc, task' = [task EXCEPT ![t].pc = pc] PROVE task'[t].job = j
        BY <1>0, <1>1, <3>1 DEF Task
      <3>2. CASE HandlerReturns(w, s)
        BY <3>1, <3>2 DEF HandlerReturns
      <3>3. CASE FailJob(w, s)
        BY <3>1, <3>3 DEF FailJob
      <3>4. CASE ResultLost(w, s)
        BY <1>0, <3>4 DEF ResultLost, ReleaseSlot, Free
      <3> QED
        BY <1>4, <3>2, <3>3, <3>4
    <2>2. \A u \in Workers \X Slots : task'[u].job = k => task[u].job = k
      BY <1>0, <1>1, <1>3, <2>1
    <2>3. active' = active /\ delayed' = delayed
      BY <1>4 DEF HandlerReturns, FailJob, ResultLost, queueVars, CountFailure, lists
    <2>4. CASE FailJob(w, s) /\ k = j
      <3>1. active[k] = 1
        BY <1>0, <1>1, <2>4 DEF CallerInv, OneHolder
      <3>2. hash[k].exists
        BY <3>1 DEF CallerInv, Guarded
      <3>3. hash'[k].exists /\ hash'[k].ttl = hash[k].ttl
        BY <1>0, <1>1, <2>4 DEF FailJob, CountFailure, Hash
      <3>4. Untouched(k)
        BY <1>2, <2>2, <2>3, <3>2, <3>3, SameQueue DEF Untouched
      <3> QED
        BY <3>4, UntouchedKeeps
    <2>5. CASE ~(FailJob(w, s) /\ k = j)
      <3>1. hash'[k] = hash[k]
        BY <1>0, <1>1, <1>4, <2>5 DEF HandlerReturns, FailJob, ResultLost, queueVars, CountFailure
      <3>2. Untouched(k)
        BY <1>2, <2>2, <2>3, <3>1, SameQueue DEF Untouched
      <3> QED
        BY <3>2, UntouchedKeeps
    <2> QED
      BY <2>4, <2>5
  <1>5. CASE CompleteJob(w, s) \/ FailJobMoves(w, s)
    <2>1. /\ task'[t].job = NoJob
          /\ MoveToCompleted(j) \/ MoveToDelayed(j) \/ MoveToFailed(j)
      BY <1>0, <1>1, <1>5 DEF CompleteJob, FailJobMoves, ReleaseSlot, Free
    <2>2. CASE k # j
      <3>1. /\ hash'[k] = hash[k] /\ active'[k] = active[k]
            /\ k \in delayed' <=> k \in delayed
        BY <1>0, <2>1, <2>2
        DEF MoveToCompleted, MoveToDelayed, MoveToFailed, RemoveFromActive, KeepForAWhile, KeepForRetry
      <3>2. Untouched(k)
        BY <1>0, <1>2, <1>3, <2>1, <3>1, SameQueue DEF Untouched
      <3> QED
        BY <3>2, UntouchedKeeps
    <2>3. CASE k = j
      <3>1. /\ active[k] = 1 /\ ~Queued(k) /\ k \notin delayed
            /\ \A v \in Workers : popped[v].job # k
            /\ \A u \in Workers \X Slots : task[u].job = k => u = t
            /\ \A p \in Producers : producer[p].job # k
            /\ hash[k].exists /\ ~hash[k].ttl
        BY <1>0, <1>1, <2>3 DEF CallerInv, OnePlace, OneHolder, Guarded
      <3>2. /\ active'[k] = 0 /\ hash'[k].exists
            /\ k \in delayed' => ~hash'[k].ttl
        <4>1. hash[k] \in Hash
          BY <1>0
        <4>2. CASE MoveToCompleted(j) \/ MoveToFailed(j)
          <5>1. RemoveFromActive(j) /\ KeepForAWhile(j) /\ delayed' = delayed
            BY <4>2 DEF MoveToCompleted, MoveToFailed
          <5> QED
            BY <1>0, <2>3, <3>1, <4>1, <5>1 DEF RemoveFromActive, KeepForAWhile, Hash
        <4>3. CASE MoveToDelayed(j)
          BY <1>0, <2>3, <3>1, <4>1, <4>3 DEF MoveToDelayed, RemoveFromActive, KeepForRetry, Hash
        <4> QED
          BY <2>1, <4>2, <4>3
      <3>3. ~Queued(k)' /\ (Once(k)' <=> Once(k)) /\ (InWait(k)' <=> InWait(k))
        BY <1>2, <3>1, SameQueue
      <3>4. OnePlace(k)' /\ Guarded(k)'
        BY <1>2, <3>1, <3>2, <3>3 DEF CallerInv, OnePlace, Guarded, Queued
      <3>5. OneHolder(k)'
        BY <1>0, <1>2, <1>3, <2>1, <3>1 DEF OneHolder
      <3> QED
        BY <3>4, <3>5 DEF CallerInv
    <2> QED
      BY <2>2, <2>3
  <1> QED
    BY <1>4, <1>5 DEF Process

\* Stopping, killing and starting workers, expiring hashes and promoting
\* delayed jobs: only a finished job's hash expires, and a promoted job has
\* left the delayed set.
LEMMA OutsideCaller ==
  ASSUME TypeOK, Shape, NEW k \in CallerIds, CallerInv(k),
         \/ \E w \in Workers : Cancel(w) \/ Kill(w) \/ Restart(w)
         \/ \E j \in Job : HashExpires(j) \/ PromoteDelayed(j)
         \/ UNCHANGED vars
  PROVE  CallerInv(k)'
  <1> USE JobAssumption, SystemAssumption
  <1>0. /\ k \in Job /\ k # NoJob /\ active \in [Job -> Nat] /\ hash \in [Job -> Hash]
        /\ popped \in [Workers -> Popped]
    BY DEF TypeOK, QueueTypeOK, Job
  <1>1. ASSUME NEW w \in Workers, Cancel(w) \/ Kill(w) \/ Restart(w) PROVE CallerInv(k)'
    <2>1. Untouched(k)
      BY <1>0, <1>1, SameQueue DEF Cancel, Kill, Restart, queueVars, Untouched, Nothing, Free
    <2> QED
      BY <2>1, UntouchedKeeps
  <1>2. ASSUME NEW j \in Job, HashExpires(j) PROVE CallerInv(k)'
    <2>1. UNCHANGED <<lists, producer, workerVars>> /\ hash[j].ttl
          /\ hash' = [hash EXCEPT ![j] = NoHash]
      BY <1>2 DEF HashExpires, Expire
    <2>2. CASE k # j
      <3>1. Untouched(k)
        BY <1>0, <2>1, <2>2, SameQueue DEF lists, workerVars, Untouched
      <3> QED
        BY <3>1, UntouchedKeeps
    <2>3. CASE k = j
      <3>1. /\ ~Queued(k) /\ active[k] # 1 /\ k \notin delayed
            /\ \A p \in Producers : producer[p].job # k
            /\ ~hash'[k].ttl
        BY <1>0, <2>1, <2>3 DEF CallerInv, Guarded, NoHash
      <3> QED
        BY <2>1, <3>1, SameQueue DEF lists, workerVars, CallerInv, OnePlace, OneHolder, Guarded
    <2> QED
      BY <2>2, <2>3
  <1>3. ASSUME NEW j \in Job, PromoteDelayed(j) PROVE CallerInv(k)'
    <2>1. /\ Enqueue(j) /\ QueueTypeOK /\ j \in delayed /\ delayed' = delayed \ {j}
          /\ UNCHANGED <<hash, active, producer, workerVars>>
      BY <1>3 DEF PromoteDelayed, Promote, TypeOK
    <2>2. CASE k # j
      <3>1. /\ InWait(k)' <=> InWait(k)
            /\ k \in prioritized' <=> k \in prioritized
            /\ Once(k)' /\ Once(k)
        BY <1>0, <2>1, <2>2, EnqueueEffect DEF CallerInv, OnePlace
      <3>2. Untouched(k)
        BY <2>1, <2>2, <3>1 DEF Untouched, workerVars
      <3> QED
        BY <3>2, UntouchedKeeps
    <2>3. CASE k = j
      <3>1. /\ k \in delayed /\ ~Queued(k) /\ active[k] # 1
            /\ \A p \in Producers : producer[p].job # k
            /\ hash[k].exists /\ ~hash[k].ttl
        BY <2>1, <2>3 DEF CallerInv, OnePlace, Guarded
      <3>2. active[k] = 0
        BY <1>0, <3>1 DEF CallerInv, OnePlace
      <3>3. Queued(k)' /\ Once(k)' /\ (InWait(k)' => k \notin prioritized')
        BY <1>0, <2>1, <2>3, <3>1, EnqueueEffect
      <3>4. OnePlace(k)' /\ OneHolder(k)' /\ Guarded(k)'
        BY <2>1, <2>3, <3>1, <3>2, <3>3 DEF workerVars, CallerInv, OnePlace, OneHolder, Guarded
      <3> QED
        BY <3>4 DEF CallerInv
    <2> QED
      BY <2>2, <2>3
  <1>4. CASE UNCHANGED vars
    <2>1. Untouched(k)
      BY <1>4, SameQueue DEF vars, queueVars, workerVars, Untouched
    <2> QED
      BY <2>1, UntouchedKeeps
  <1> QED
    BY <1>1, <1>2, <1>3, <1>4

\* CallersInv is inductive as long as no two calls of AddBulk overlap.
LEMMA CallersInductive == CallersInv /\ NoOverlap /\ [Next]_vars => CallersInv'
  <1> SUFFICES ASSUME CallersInv, NoOverlap, [Next]_vars PROVE CallersInv'
    OBVIOUS
  <1>1. TypeOK' /\ Shape'
    BY TypeStep, ShapeStep DEF CallersInv
  <1>2. ASSUME NEW k \in CallerIds PROVE CallerInv(k)'
    <2>1. TypeOK /\ Shape /\ CallerInv(k)
      BY DEF CallersInv
    <2>2. CASE \E p \in Producers : Produce(p)
      BY <2>1, <2>2, ProduceCaller
    <2>3. CASE \E w \in Workers : Poll(w)
      BY <2>1, <2>3, PollCaller
    <2>4. CASE \E w \in Workers, s \in Slots : Process(w, s)
      BY <2>1, <2>4, ProcessCaller
    <2>5. CASE \/ \E w \in Workers : Cancel(w) \/ Kill(w) \/ Restart(w)
               \/ \E j \in Job : HashExpires(j) \/ PromoteDelayed(j)
               \/ UNCHANGED vars
      BY <2>1, <2>5, OutsideCaller
    <2> QED
      BY <2>2, <2>3, <2>4, <2>5 DEF Next
  <1> QED
    BY <1>1, <1>2 DEF CallersInv

\* An id that is in the wait list once is counted once.
LEMMA OnceCounted ==
  ASSUME NEW j, Once(j)
  PROVE  /\ Cardinality({i \in DOMAIN wait : wait[i] = j}) \in {0, 1}
         /\ ~InWait(j) => Cardinality({i \in DOMAIN wait : wait[i] = j}) = 0
  <1> DEFINE I == {i \in DOMAIN wait : wait[i] = j}
  <1>1. CASE I = {}
    BY <1>1, FS_EmptySet
  <1>2. CASE I # {}
    <2>1. PICK i \in I : TRUE
      BY <1>2
    <2>2. I = {i} /\ InWait(j)
      BY <2>1 DEF Once, InWait
    <2>3. Cardinality(I) = 1
      BY <2>2, FS_Singleton
    <2> QED
      BY <2>2, <2>3
  <1> QED
    BY <1>1, <1>2

LEMMA OneCopyFollows == CallersInv => OneCopy
  <1> SUFFICES ASSUME CallersInv, NEW d \in CallerIds
               PROVE  Occurrences(d) <= 1 /\ HeldByOne(d)
    BY DEF OneCopy
  <1>1. OnePlace(d) /\ OneHolder(d) /\ active[d] \in Nat
    BY DEF CallersInv, CallerInv, TypeOK, QueueTypeOK, Job
  <1>2. HeldByOne(d)
    BY <1>1 DEF OneHolder, HeldByOne
  <1> DEFINE c == Cardinality({i \in DOMAIN wait : wait[i] = d})
  <1>3. c \in {0, 1} /\ (~InWait(d) => c = 0)
    BY <1>1, OnceCounted DEF OnePlace
  <1>4. active[d] \in {0, 1}
    BY <1>1 DEF OnePlace
  <1> HIDE DEF c
  <1>5. c + (IF d \in prioritized THEN 1 ELSE 0) + (IF d \in delayed THEN 1 ELSE 0) + active[d] <= 1
    BY <1>1, <1>3, <1>4 DEF OnePlace, Queued
  <1> QED
    BY <1>2, <1>5 DEF Occurrences, c

\* An id that a caller chose is queued, delayed or active once at most, and
\* one worker at most has it, as long as no two calls of AddBulk are at work
\* on it at once (EXISTS and HSET are two round trips).
THEOREM OneCopyCorrect == Spec /\ []NoOverlap => []OneCopy
  <1>1. Init => CallersInv
    BY TypeInit, CallerInit DEF CallersInv
  <1> QED
    BY <1>1, CallersInductive, OneCopyFollows, PTL DEF Spec

\* With one producer nothing else is needed: a worker that fails, dies or
\* loses a reply never makes EXISTS say no of an id that is still queued.
THEOREM OneProducerOneCopy == (\A p, q \in Producers : p = q) => (Spec => []OneCopy)
  <1> SUFFICES ASSUME \A p, q \in Producers : p = q PROVE Spec => []OneCopy
    OBVIOUS
  <1>1. NoOverlap
    BY DEF NoOverlap
  <1> QED
    BY <1>1, OneCopyCorrect, PTL

-----------------------------------------------------------------------------
(* The refinement: every step moves one job of JobLifecycle, or loses      *)
(* those of a process, or changes none.                                    *)

Popping(j) == \E w \in Workers : popped[w].job = j
Running(j) == \E t \in Workers \X Slots : task[t].job = j

\* JobState without Where.
StateIs(j) ==
  /\ Queued(j) => JobState(j) = "waiting"
  /\ active[j] = 1 /\ Popping(j) => JobState(j) = "taken"
  /\ active[j] = 1 /\ Running(j) => JobState(j) = "running"
  /\ active[j] = 1 /\ ~Popping(j) /\ ~Running(j) => JobState(j) = "lost"
  /\ j \in delayed => JobState(j) = "delayed"
  /\ j \in completed => JobState(j) = "completed"
  /\ j \in failed => JobState(j) = "failed"
  /\ ~Queued(j) /\ active[j] = 0 /\ j \notin delayed \cup completed \cup failed => JobState(j) = "new"

\* A job that is nowhere.
LEMMA WhereEmpty ==
  \A j : Where(j) = {} <=> ~Queued(j) /\ ~(active[j] > 0) /\ j \notin delayed \cup completed \cup failed
<1> SUFFICES ASSUME NEW j
             PROVE  Where(j) = {} <=> /\ ~Queued(j) /\ ~(active[j] > 0)
                                      /\ j \notin delayed \cup completed \cup failed
  OBVIOUS
<1>1. DOMAIN Holding(j) = {"wait", "prioritized", "active", "delayed", "completed", "failed"}
  BY DEF Holding
<1>2. /\ Holding(j)["wait"] <=> InWait(j)
      /\ Holding(j)["prioritized"] <=> j \in prioritized
      /\ Holding(j)["active"] <=> active[j] > 0
      /\ Holding(j)["delayed"] <=> j \in delayed
      /\ Holding(j)["completed"] <=> j \in completed
      /\ Holding(j)["failed"] <=> j \in failed
  BY DEF Holding
<1>3. Where(j) = {} <=> \A x \in DOMAIN Holding(j) : ~Holding(j)[x]
  BY DEF Where
<1>4. (\A x \in DOMAIN Holding(j) : ~Holding(j)[x]) <=>
        /\ ~Holding(j)["wait"] /\ ~Holding(j)["prioritized"] /\ ~Holding(j)["active"]
        /\ ~Holding(j)["delayed"] /\ ~Holding(j)["completed"] /\ ~Holding(j)["failed"]
  BY <1>1
<1> QED
  BY <1>2, <1>3, <1>4 DEF Queued

\* What JobState says of a job, place by place.
LEMMA StatesAre == IndInv => \A j \in AutoIds : StateIs(j)
<1> SUFFICES ASSUME IndInv, NEW j \in AutoIds PROVE StateIs(j)
  OBVIOUS
<1>1. Placed(j) /\ HeldOnce(j) /\ active[j] \in Nat
  BY DEF IndInv, JobInv, TypeOK, QueueTypeOK, Job
<1>2. Where(j) = {} <=> ~Queued(j) /\ ~(active[j] > 0) /\ j \notin delayed \cup completed \cup failed
  BY WhereEmpty
<1>3. Popping(j) => ~Running(j)
  BY <1>1 DEF Popping, Running, HeldOnce
<1>4. JobState(j) = CASE Where(j) = {} -> "new"
                      [] Queued(j) -> "waiting"
                      [] active[j] > 0 -> Held(j)
                      [] j \in delayed -> "delayed"
                      [] j \in completed -> "completed"
                      [] OTHER -> "failed"
  BY DEF JobState, Queued
<1>5. /\ Popping(j) => Held(j) = "taken"
      /\ Running(j) => Held(j) = "running"
      /\ ~Popping(j) /\ ~Running(j) => Held(j) = "lost"
  BY <1>3 DEF Held, Popping, Running
<1>6. /\ Queued(j) => active[j] = 0 /\ j \notin delayed \cup completed \cup failed
      /\ active[j] = 1 => j \notin delayed \cup completed \cup failed
      /\ j \in delayed => j \notin completed \cup failed
      /\ j \in completed => j \notin failed
      /\ active[j] = 0 \/ active[j] = 1
  BY <1>1 DEF Placed
<1>7. CASE Queued(j)
  BY <1>2, <1>4, <1>6, <1>7 DEF StateIs
<1>8. CASE active[j] = 1
  BY <1>2, <1>4, <1>5, <1>6, <1>8 DEF StateIs
<1>9. CASE ~Queued(j) /\ active[j] = 0
  BY <1>2, <1>4, <1>6, <1>9 DEF StateIs
<1> QED
  BY <1>6, <1>7, <1>8, <1>9

\* And after a step.
LEMMA StatesNext == (IndInv => \A j \in AutoIds : StateIs(j))'
  BY StatesAre, PTL

\* What a step may do to the jobs that it does not move.
Same(k) ==
  /\ Queued(k)' <=> Queued(k)
  /\ active'[k] = active[k]
  /\ k \in delayed' <=> k \in delayed
  /\ k \in completed' <=> k \in completed
  /\ k \in failed' <=> k \in failed
  /\ Popping(k)' <=> Popping(k)
  /\ Running(k)' <=> Running(k)

\* Where a job is, and who holds it, is its state.
LEMMA SameState ==
  ASSUME IndInv, IndInv', NEW k \in AutoIds, Same(k)
  PROVE  JobState(k)' = JobState(k)
<1>1. StateIs(k) /\ StateIs(k)'
  BY StatesAre, StatesNext
<1>2. active[k] = 0 \/ active[k] = 1
  BY DEF IndInv, JobInv, Placed, TypeOK, QueueTypeOK, Job
<1> QED
  BY <1>1, <1>2 DEF StateIs, Same

Step == [Lifecycle!Next]_(Lifecycle!vars)

\* A step that does this to all jobs is none of JobLifecycle.
LEMMA Stays ==
  ASSUME IndInv, IndInv', \A k \in AutoIds : Same(k), runs' = runs
  PROVE  Step
<1>1. \A k \in AutoIds : JobState(k)' = JobState(k)
  BY SameState
<1>2. [j \in AutoIds |-> JobState(j)]' = [j \in AutoIds |-> JobState(j)]
  BY <1>1
<1> QED
  BY <1>2 DEF Step, Lifecycle!vars

\* A step that moves one job.
LEMMA Moves ==
  ASSUME IndInv, IndInv', NEW j \in AutoIds, NEW from, NEW to,
         \A k \in AutoIds \ {j} : Same(k), JobState(j) = from, JobState(j)' = to
  PROVE  Lifecycle!Move(j, from, to)
<1>1. \A k \in AutoIds \ {j} : JobState(k)' = JobState(k)
  BY SameState
<1> DEFINE bar == [i \in AutoIds |-> JobState(i)]
<1>2. bar[j] = from
  OBVIOUS
<1>3. bar' = [bar EXCEPT ![j] = to]
  BY <1>1
<1> QED
  BY <1>2, <1>3 DEF Lifecycle!Move

\* A step that loses jobs,
LEMMA Loses ==
  ASSUME IndInv, IndInv', NEW S \in SUBSET AutoIds, runs' = runs,
         \A k \in AutoIds \ S : Same(k),
         \A j \in S : JobState(j) \in {"taken", "running"} /\ JobState(j)' = "lost"
  PROVE  Step
<1>1. \A k \in AutoIds \ S : JobState(k)' = JobState(k)
  BY SameState
<1> DEFINE bar == [i \in AutoIds |-> JobState(i)]
<1>2. \A j \in S : bar[j] \in {"taken", "running"}
  OBVIOUS
<1>3. bar' = [j \in AutoIds |-> IF j \in S THEN "lost" ELSE bar[j]]
  BY <1>1
<1>4. Lifecycle!Lose(S)
  BY <1>2, <1>3 DEF Lifecycle!Lose
<1> QED
  BY <1>4 DEF Step, Lifecycle!Next

\* or one of them.
LEMMA LosesOne ==
  ASSUME IndInv, IndInv', NEW j \in AutoIds, runs' = runs, \A k \in AutoIds \ {j} : Same(k),
         JobState(j) \in {"taken", "running"}, JobState(j)' = "lost"
  PROVE  Step
<1> DEFINE S == {j}
<1>1. /\ S \in SUBSET AutoIds
      /\ \A k \in AutoIds \ S : Same(k)
      /\ \A i \in S : JobState(i) \in {"taken", "running"} /\ JobState(i)' = "lost"
  OBVIOUS
<1> HIDE DEF S
<1> QED
  BY <1>1, Loses

\* What one step may be called.
LEMMA Named ==
  ASSUME NEW j \in AutoIds,
         \/ Lifecycle!Enqueue(j) \/ Lifecycle!Take(j) \/ Lifecycle!Run(j) \/ Lifecycle!Finish(j)
         \/ Lifecycle!Retry(j) \/ Lifecycle!GiveUp(j) \/ Lifecycle!Requeue(j)
         \/ Lifecycle!Misplace(j)
  PROVE  Step
  BY DEF Step, Lifecycle!Next

\* AddBulk puts its job into the queue when it pushes the id.
LEMMA ProduceStep ==
  ASSUME IndInv, IndInv', NEW p \in Producers, Produce(p)
  PROVE  Step
<1> USE DEF Popping, Running
<1>1. CASE (\E d \in CallerIds : CheckExists(p, d)) \/ (\E a \in AutoIds : NextJobID(p, a))
           \/ StoreJob(p) \/ AddFails(p)
  <2>1. UNCHANGED <<lists, workerVars, runs>>
    BY <1>1 DEF CheckExists, NextJobID, StoreJob, AddFails, queueVars, lists
  <2>2. \A k \in AutoIds : Same(k)
    BY <2>1, SameQueue DEF Same, lists, workerVars
  <2> QED
    BY <2>1, <2>2, Stays
<1>2. CASE PushJob(p)
  <2>0. PICK j \in Job : j = producer[p].job
    BY <1>2, HeldIsJob DEF PushJob, IndInv
  <2>1. /\ Enqueue(j) /\ QueueTypeOK
        /\ UNCHANGED <<active, delayed, completed, failed, workerVars, runs>>
    BY <1>2, <2>0 DEF PushJob, IndInv, TypeOK
  <2>2. \A k \in Job \ {j} : Queued(k)' <=> Queued(k)
    BY <2>0, <2>1, EnqueueEffect DEF Queued
  <2>3. \A k \in AutoIds \ {j} : Same(k)
    BY <2>1, <2>2 DEF Same, workerVars, Job
  <2>4. CASE j \in AutoIds
    <3>1. Unborn(j)
      BY <2>0, <2>4 DEF IndInv, JobInv, Born
    <3>2. Queued(j)'
      BY <2>0, <2>1, <3>1, EnqueueEffect DEF Unborn
    <3>3. JobState(j) = "new" /\ JobState(j)' = "waiting"
      BY <2>4, <3>1, <3>2, StatesAre, StatesNext DEF StateIs, Unborn
    <3>4. Lifecycle!Enqueue(j)
      BY <2>1, <2>3, <2>4, <3>3, Moves DEF Lifecycle!Enqueue
    <3> QED
      BY <2>4, <3>4, Named
  <2> QED
    BY <2>1, <2>3, <2>4, Stays
<1> QED
  BY <1>1, <1>2 DEF Produce

\* run() takes a job, runs it, or loses it between PopJob and the goroutine.
LEMMA PollStep ==
  ASSUME IndInv, IndInv', NEW w \in Workers, Poll(w)
  PROVE  Step
<1> USE SystemAssumption
<1>0. /\ TypeOK /\ Shape /\ QueueTypeOK
      /\ \A k \in AutoIds : JobInv(k) /\ k \in Job /\ k # NoJob
  BY DEF IndInv, TypeOK, Job
<1>1. ASSUME NEW j \in Job, MoveToActive(j)
      PROVE  /\ \A k \in AutoIds \ {j} : /\ Queued(k)' <=> Queued(k)
                                         /\ active'[k] = active[k]
             /\ Queued(j) /\ active'[j] = active[j] + 1
             /\ UNCHANGED <<delayed, completed, failed>>
  BY <1>0, <1>1, TakeEffect DEF MoveToActive, QueueTypeOK, Queued
<1>2. ASSUME NEW j \in AutoIds, Queued(j)
      PROVE  /\ active[j] = 0 /\ ~Popping(j) /\ ~Running(j) /\ JobState(j) = "waiting"
  <2>1. Placed(j) /\ HeldOnce(j)
    BY <1>0 DEF JobInv
  <2>2. active[j] = 0
    BY <1>2, <2>1 DEF Placed
  <2> QED
    BY <1>2, <2>1, <2>2, StatesAre DEF HeldOnce, Popping, Running, StateIs
<1>3. ASSUME NEW j \in Job, Pop(w, j) PROVE Step
  <2>1. popped[w].job = NoJob /\ popped \in [Workers -> Popped]
    BY <1>0, <1>3 DEF Pop, Shape, TypeOK
  <2>2. popped'[w].job = j /\ \A v \in Workers \ {w} : popped'[v] = popped[v]
    BY <1>3, <2>1 DEF Pop, Popped
  <2>3. /\ \A k \in AutoIds \ {j} : Popping(k)' <=> Popping(k)
        /\ Popping(j)'
    BY <1>0, <2>1, <2>2 DEF Popping
  <2>4. \A k : Running(k)' <=> Running(k)
    BY <1>3 DEF Pop, Running
  <2>5. MoveToActive(j) /\ runs' = runs
    BY <1>3 DEF Pop
  <2>6. \A k \in AutoIds \ {j} : Same(k)
    BY <1>1, <2>3, <2>4, <2>5 DEF Same
  <2>7. CASE j \in AutoIds
    <3>1. JobState(j) = "waiting" /\ active'[j] = 1
      BY <1>1, <1>2, <2>5, <2>7
    <3>2. JobState(j)' = "taken"
      BY <2>3, <2>7, <3>1, StatesNext DEF StateIs
    <3>3. Lifecycle!Take(j)
      BY <2>5, <2>6, <2>7, <3>1, <3>2, Moves DEF Lifecycle!Take
    <3> QED
      BY <2>7, <3>3, Named
  <2> QED
    BY <2>5, <2>6, <2>7, Stays
<1>4. ASSUME NEW j \in Job, PopReplyLost(w, j) PROVE Step
  <2>1. MoveToActive(j) /\ runs' = runs /\ UNCHANGED workerVars
    BY <1>4 DEF PopReplyLost
  <2>2. \A k : (Running(k)' <=> Running(k)) /\ (Popping(k)' <=> Popping(k))
    BY <2>1 DEF workerVars, Running, Popping
  <2>3. \A k \in AutoIds \ {j} : Same(k)
    BY <1>1, <2>1, <2>2 DEF Same
  <2>4. CASE j \in AutoIds
    <3>1. JobState(j) = "waiting" /\ active'[j] = 1 /\ ~Popping(j)' /\ ~Running(j)'
      BY <1>1, <1>2, <2>1, <2>2, <2>4
    <3>2. JobState(j)' = "lost"
      BY <2>4, <3>1, StatesNext DEF StateIs
    <3>3. Lifecycle!Misplace(j)
      BY <2>1, <2>3, <2>4, <3>1, <3>2, Moves DEF Lifecycle!Misplace
    <3> QED
      BY <2>4, <3>3, Named
  <2> QED
    BY <2>1, <2>3, <2>4, Stays
<1>5. ASSUME UNCHANGED <<queueVars, runs>>,
             \A k \in AutoIds : (Popping(k)' <=> Popping(k)) /\ (Running(k)' <=> Running(k))
      PROVE  Step
  <2>1. \A k \in AutoIds : Same(k)
    BY <1>5, SameQueue DEF Same, queueVars
  <2> QED
    BY <1>5, <2>1, Stays
<1>6. CASE GetJob(w)
  <2>1. \A v \in Workers : popped'[v].job = popped[v].job
    BY <1>0, <1>6 DEF GetJob, TypeOK, Popped
  <2> QED
    BY <1>5, <1>6, <2>1 DEF GetJob, Popping, Running
<1>7. CASE Drain(w)
  BY <1>5, <1>7 DEF Drain, Popping, Running
\* The loop lets go of the job it holds.
<1>8. PICK j : j = popped[w].job
  OBVIOUS
<1>9. ASSUME popped' = [popped EXCEPT ![w] = Nothing], j \in AutoIds
      PROVE  /\ active[j] = 1 /\ JobState(j) = "taken" /\ ~Popping(j)' /\ ~Running(j)
  <2>1. HeldOnce(j)
    BY <1>0, <1>9 DEF JobInv
  <2>2. active[j] = 1 /\ Popping(j) /\ ~Running(j)
    BY <1>8, <2>1 DEF HeldOnce, Popping, Running
  <2>3. ~Popping(j)'
    BY <1>0, <1>8, <1>9, <2>1 DEF HeldOnce, Popping, Nothing, TypeOK
  <2> QED
    BY <1>9, <2>2, <2>3, StatesAre DEF StateIs
<1>10. ASSUME popped' = [popped EXCEPT ![w] = Nothing]
       PROVE  \A k \in AutoIds \ {j} : Popping(k)' <=> Popping(k)
  BY <1>0, <1>8, <1>10 DEF Popping, Nothing, TypeOK
<1>11. CASE GetJobFails(w)
  <2>1. popped' = [popped EXCEPT ![w] = Nothing] /\ UNCHANGED <<queueVars, task, runs>>
    BY <1>11 DEF GetJobFails
  <2>2. \A k \in AutoIds \ {j} : Same(k)
    BY <1>10, <2>1, SameQueue DEF Same, queueVars, Running
  <2>3. CASE j \in AutoIds
    <3>1. active'[j] = 1 /\ ~Popping(j)' /\ ~Running(j)'
      BY <1>9, <2>1, <2>3 DEF queueVars, Running
    <3>2. JobState(j)' = "lost" /\ JobState(j) = "taken"
      BY <1>9, <2>1, <2>3, <3>1, StatesNext DEF StateIs
    <3> QED
      BY <2>1, <2>2, <2>3, <3>2, LosesOne
  <2> QED
    BY <2>1, <2>2, <2>3, Stays
<1>12. ASSUME NEW s \in Slots, Dispatch(w, s) PROVE Step
  <2>1. /\ popped' = [popped EXCEPT ![w] = Nothing] /\ UNCHANGED queueVars
        /\ task' = [task EXCEPT ![<<w, s>>] = [pc |-> "handle", job |-> j, limit |-> popped[w].limit]]
        /\ runs' = IF j \in AutoIds THEN [runs EXCEPT ![j] = @ + 1] ELSE runs
        /\ task[<<w, s>>].job = NoJob
    BY <1>0, <1>8, <1>12 DEF Dispatch, Shape
  <2>2. /\ \A k \in AutoIds \ {j} : Running(k)' <=> Running(k)
        /\ Running(j)'
    BY <1>0, <2>1 DEF Running, TypeOK
  <2>3. \A k \in AutoIds \ {j} : Same(k)
    BY <1>10, <2>1, <2>2, SameQueue DEF Same, queueVars
  <2>4. CASE j \in AutoIds
    <3>1. active'[j] = 1 /\ JobState(j) = "taken"
      BY <1>9, <2>1, <2>4 DEF queueVars
    <3>2. JobState(j)' = "running"
      BY <2>2, <2>4, <3>1, StatesNext DEF StateIs
    <3>3. runs[j] < Limit(j)
      BY <1>0, <1>8, <2>4 DEF JobInv, Counted, Fresh
    <3>4. runs[j] < Lifecycle!Limit(j)
      BY <2>4, <3>3 DEF Limit, Lifecycle!Limit
    <3>5. Lifecycle!Move(j, "taken", "running")
      BY <2>3, <2>4, <3>1, <3>2, Moves
    <3>6. Lifecycle!Run(j)
      BY <2>1, <2>4, <3>4, <3>5 DEF Lifecycle!Run
    <3> QED
      BY <2>4, <3>6, Named
  <2> QED
    BY <2>1, <2>3, <2>4, Stays
<1> QED
  BY <1>3, <1>4, <1>6, <1>7, <1>11, <1>12 DEF Poll

\* processJob() finishes its job, retries it, gives it up, or loses it.
LEMMA ProcessStep ==
  ASSUME IndInv, IndInv', NEW w \in Workers, NEW s \in Slots, Process(w, s)
  PROVE  Step
<1> USE SystemAssumption
<1> DEFINE t == <<w, s>>
<1>0. /\ TypeOK /\ Shape /\ t \in Workers \X Slots
      /\ \A k \in AutoIds : JobInv(k) /\ k \in Job /\ k # NoJob /\ Attempts[k] \in Nat
      /\ active \in [Job -> Nat] /\ hash \in [Job -> Hash] /\ task \in [Workers \X Slots -> Task]
  BY JobAssumption DEF IndInv, TypeOK, QueueTypeOK, Job
<1>1. PICK j \in Job : j = task[t].job
  BY <1>0, HeldIsJob
  DEF Process, HandlerReturns, CompleteJob, FailJob, FailJobMoves, ResultLost
<1>2. popped' = popped /\ runs' = runs /\ \A k : Popping(k)' <=> Popping(k)
  BY DEF Process, HandlerReturns, CompleteJob, FailJob, FailJobMoves, ResultLost, Popping
<1>3. ASSUME NEW pc, task' = [task EXCEPT ![t].pc = pc], UNCHANGED lists PROVE Step
  <2>1. \A u \in Workers \X Slots : task'[u].job = task[u].job
    BY <1>0, <1>3 DEF Task
  <2>2. \A k \in AutoIds : Running(k)' <=> Running(k)
    BY <2>1 DEF Running
  <2>3. \A k \in AutoIds : Same(k)
    BY <1>2, <1>3, <2>2, SameQueue DEF Same, lists
  <2> QED
    BY <1>2, <2>3, Stays
<1>4. CASE HandlerReturns(w, s)
  BY <1>3, <1>4 DEF HandlerReturns, queueVars, lists
<1>5. CASE FailJob(w, s)
  BY <1>3, <1>5 DEF FailJob, CountFailure
\* The goroutine ends.
<1>6. ASSUME ReleaseSlot(w, s)
      PROVE  /\ \A k \in AutoIds \ {j} : Running(k)' <=> Running(k)
             /\ j \in AutoIds => ~Running(j)'
  <2>1. /\ \A u \in Workers \X Slots : u # t => task'[u] = task[u]
        /\ task'[t].job = NoJob
    BY <1>0, <1>6 DEF ReleaseSlot, Free
  <2>2. j \in AutoIds => \A u \in Workers \X Slots : task[u].job = j => u = t
    BY <1>0, <1>1 DEF JobInv, HeldOnce
  <2> QED
    BY <1>0, <1>1, <2>1, <2>2 DEF Running
<1>7. ASSUME j \in AutoIds
      PROVE  /\ active[j] = 1 /\ ~Popping(j) /\ JobState(j) = "running"
             /\ task[t].pc = "retry" => runs[j] < Attempts[j]
             /\ task[t].pc = "bury" => runs[j] >= Attempts[j]
  <2>1. HeldOnce(j) /\ Counted(j)
    BY <1>0, <1>7 DEF JobInv
  <2>2. active[j] = 1 /\ ~Popping(j) /\ Running(j)
    BY <1>0, <1>1, <2>1 DEF HeldOnce, Popping, Running
  <2> QED
    BY <1>0, <1>1, <1>7, <2>1, <2>2, StatesAre DEF StateIs, Counted
<1>8. ASSUME ReleaseSlot(w, s), UNCHANGED <<wait, prioritized>>,
             \A k \in AutoIds \ {j} : /\ active'[k] = active[k]
                                      /\ k \in delayed' <=> k \in delayed
                                      /\ k \in completed' <=> k \in completed
                                      /\ k \in failed' <=> k \in failed
      PROVE  \A k \in AutoIds \ {j} : Same(k)
  BY <1>2, <1>6, <1>8, SameQueue DEF Same
<1>9. CASE ResultLost(w, s)
  <2>1. ReleaseSlot(w, s) /\ UNCHANGED queueVars
    BY <1>9 DEF ResultLost
  <2>2. \A k \in AutoIds \ {j} : Same(k)
    BY <1>8, <2>1 DEF queueVars
  <2>3. CASE j \in AutoIds
    <3>1. JobState(j)' = "lost"
      BY <1>2, <1>6, <1>7, <2>1, <2>3, StatesNext DEF queueVars, StateIs
    <3> QED
      BY <1>2, <1>7, <2>2, <2>3, <3>1, LosesOne
  <2> QED
    BY <1>2, <2>2, <2>3, Stays
<1>10. ASSUME ReleaseSlot(w, s), UNCHANGED <<wait, prioritized>>, RemoveFromActive(j),
              NEW to \in {"completed", "failed", "delayed"},
              completed' = IF to = "completed" THEN completed \cup {j} ELSE completed,
              failed' = IF to = "failed" THEN failed \cup {j} ELSE failed,
              delayed' = IF to = "delayed" THEN delayed \cup {j} ELSE delayed
       PROVE  /\ \A k \in AutoIds \ {j} : Same(k)
              /\ j \in AutoIds => Lifecycle!Move(j, "running", to)
  <2>1. \A k \in AutoIds \ {j} : Same(k)
    BY <1>0, <1>8, <1>10 DEF RemoveFromActive
  <2>2. ASSUME j \in AutoIds PROVE JobState(j)' = to
    BY <1>10, <2>2, StatesNext DEF StateIs
  <2> QED
    BY <1>7, <2>1, <2>2, Moves
<1>11. CASE CompleteJob(w, s)
  <2>1. /\ \A k \in AutoIds \ {j} : Same(k)
        /\ j \in AutoIds => Lifecycle!Move(j, "running", "completed")
    BY <1>1, <1>10, <1>11 DEF CompleteJob, MoveToCompleted
  <2>2. j \in AutoIds => Lifecycle!Finish(j)
    BY <1>2, <2>1 DEF Lifecycle!Finish
  <2> QED
    BY <1>2, <2>1, <2>2, Named, Stays
<1>12. CASE FailJobMoves(w, s) /\ task[t].pc = "retry"
  <2>1. /\ \A k \in AutoIds \ {j} : Same(k)
        /\ j \in AutoIds => Lifecycle!Move(j, "running", "delayed")
    BY <1>1, <1>10, <1>12 DEF FailJobMoves, MoveToDelayed
  <2>2. j \in AutoIds => Lifecycle!Retry(j)
    BY <1>2, <1>7, <1>12, <2>1 DEF Lifecycle!Retry
  <2> QED
    BY <1>2, <2>1, <2>2, Named, Stays
<1>13. CASE FailJobMoves(w, s) /\ task[t].pc = "bury"
  <2>1. /\ \A k \in AutoIds \ {j} : Same(k)
        /\ j \in AutoIds => Lifecycle!Move(j, "running", "failed")
    BY <1>1, <1>10, <1>13 DEF FailJobMoves, MoveToFailed
  <2>2. j \in AutoIds => Lifecycle!GiveUp(j)
    BY <1>2, <1>7, <1>13, <2>1 DEF Lifecycle!GiveUp
  <2> QED
    BY <1>2, <2>1, <2>2, Named, Stays
<1> QED
  BY <1>4, <1>5, <1>9, <1>11, <1>12, <1>13 DEF Process, FailJobMoves

\* A killed process loses what it holds; the scheduler queues a delayed job again.
LEMMA OutsideStep ==
  ASSUME IndInv, IndInv',
         \/ \E w \in Workers : Cancel(w) \/ Kill(w) \/ Restart(w)
         \/ \E j \in Job : HashExpires(j) \/ PromoteDelayed(j)
         \/ UNCHANGED vars
  PROVE  Step
<1> USE SystemAssumption
<1>0. /\ TypeOK /\ Shape /\ QueueTypeOK
      /\ \A k \in AutoIds : JobInv(k) /\ k \in Job /\ k # NoJob
  BY DEF IndInv, TypeOK, Job
<1>1. ASSUME UNCHANGED <<lists, popped, task, runs>> PROVE Step
  <2>1. \A k \in AutoIds : Same(k)
    BY <1>1, SameQueue DEF Same, lists, Popping, Running
  <2> QED
    BY <1>1, <2>1, Stays
<1>2. ASSUME NEW w \in Workers, Cancel(w) \/ Restart(w) PROVE Step
  BY <1>1, <1>2 DEF Cancel, Restart, queueVars, lists
<1>3. CASE (\E j \in Job : HashExpires(j)) \/ UNCHANGED vars
  BY <1>1, <1>3 DEF HashExpires, Expire, vars, queueVars, workerVars, lists
\* A killed process loses what its loop and its goroutines hold.
<1>4. ASSUME NEW w \in Workers, Kill(w) PROVE Step
  <2> DEFINE Mine(j) == popped[w].job = j \/ \E s \in Slots : task[<<w, s>>].job = j
             S == {j \in AutoIds : Mine(j)}
  <2>1. /\ UNCHANGED <<queueVars, runs>>
        /\ \A v \in Workers : popped'[v] = IF v = w THEN Nothing ELSE popped[v]
        /\ \A u \in Workers \X Slots : task'[u] = IF u[1] = w THEN Free ELSE task[u]
    BY <1>0, <1>4 DEF Kill, TypeOK
  <2>2. ASSUME NEW k \in AutoIds, ~Mine(k) PROVE Same(k)
    <3>1. Popping(k)' <=> Popping(k)
      BY <1>0, <2>1, <2>2 DEF Popping, Nothing
    <3>2. Running(k)' <=> Running(k)
      BY <1>0, <2>1, <2>2 DEF Running, Free
    <3> QED
      BY <2>1, <3>1, <3>2, SameQueue DEF Same, queueVars
  <2>3. ASSUME NEW k \in AutoIds, Mine(k)
        PROVE  JobState(k) \in {"taken", "running"} /\ JobState(k)' = "lost"
    <3>1. HeldOnce(k)
      BY <1>0 DEF JobInv
    <3>2. ASSUME popped[w].job = k
          PROVE  active[k] = 1 /\ Popping(k) /\ ~Popping(k)' /\ ~Running(k)'
      <4>1. /\ active[k] = 1 /\ Popping(k)
            /\ \A v \in Workers : popped[v].job = k => v = w
            /\ \A u \in Workers \X Slots : task[u].job # k
        BY <3>1, <3>2 DEF HeldOnce, Popping
      <4>2. ~Popping(k)' /\ ~Running(k)'
        BY <1>0, <2>1, <4>1 DEF Popping, Running, Nothing, Free
      <4> QED
        BY <4>1, <4>2
    <3>5. ASSUME NEW s \in Slots, task[<<w, s>>].job = k
          PROVE  active[k] = 1 /\ Running(k) /\ ~Popping(k)' /\ ~Running(k)'
      <4> DEFINE t == <<w, s>>
      <4>0. t \in Workers \X Slots /\ t[1] = w /\ task[t].job = k
        BY <3>5
      <4> HIDE DEF t
      <4>1. /\ active[k] = 1 /\ Running(k)
            /\ \A v \in Workers : popped[v].job # k
            /\ \A u \in Workers \X Slots : task[u].job = k => u = t
        BY <3>1, <4>0 DEF HeldOnce, Running
      <4>2. ~Popping(k)' /\ ~Running(k)'
        BY <1>0, <2>1, <4>0, <4>1 DEF Popping, Running, Nothing, Free
      <4> QED
        BY <4>1, <4>2
    <3>3. active[k] = 1 /\ (Popping(k) \/ Running(k)) /\ ~Popping(k)' /\ ~Running(k)'
      BY <2>3, <3>2, <3>5
    <3>4. active'[k] = 1
      BY <2>1, <3>3 DEF queueVars
    <3> QED
      BY <3>3, <3>4, StatesAre, StatesNext DEF StateIs
  <2>4. /\ S \in SUBSET AutoIds
        /\ \A k \in AutoIds \ S : Same(k)
        /\ \A j \in S : JobState(j) \in {"taken", "running"} /\ JobState(j)' = "lost"
    BY <2>2, <2>3
  <2>5. \E T \in SUBSET AutoIds :
          /\ \A k \in AutoIds \ T : Same(k)
          /\ \A j \in T : JobState(j) \in {"taken", "running"} /\ JobState(j)' = "lost"
    BY <2>4
  <2> QED
    BY <2>1, <2>5, Loses
<1>5. ASSUME NEW j \in Job, PromoteDelayed(j) PROVE Step
  <2>1. /\ Enqueue(j) /\ j \in delayed /\ delayed' = delayed \ {j}
        /\ UNCHANGED <<active, completed, failed, workerVars, runs>>
    BY <1>5 DEF PromoteDelayed, Promote
  <2>2. \A k \in AutoIds \ {j} : Same(k)
    BY <1>0, <2>1, EnqueueEffect DEF Same, Queued, workerVars, Popping, Running
  <2>3. CASE j \in AutoIds
    <3>1. ~Queued(j)
      BY <1>0, <2>1, <2>3 DEF JobInv, Placed
    <3>2. Queued(j)'
      BY <1>0, <2>1, <3>1, EnqueueEffect
    <3>3. JobState(j) = "delayed" /\ JobState(j)' = "waiting"
      BY <2>1, <2>3, <3>2, StatesAre, StatesNext DEF StateIs
    <3>4. Lifecycle!Requeue(j)
      BY <2>1, <2>2, <2>3, <3>3, Moves DEF Lifecycle!Requeue
    <3> QED
      BY <2>3, <3>4, Named
  <2> QED
    BY <2>1, <2>2, <2>3, Stays
<1> QED
  BY <1>2, <1>3, <1>4, <1>5

\* At first every job is new.
LEMMA LifecycleInit == Init => Lifecycle!Init
<1> SUFFICES ASSUME Init PROVE Lifecycle!Init
  OBVIOUS
<1>1. IndInv
  BY TypeInit, JobInit DEF IndInv
<1>2. ASSUME NEW j \in AutoIds PROVE JobState(j) = "new"
  <2>1. ~Queued(j) /\ active[j] = 0 /\ j \notin delayed \cup completed \cup failed
    BY DEF Init, QueueInit, Queued, InWait, Job
  <2> QED
    BY <1>1, <2>1, StatesAre DEF StateIs
<1> QED
  BY <1>2 DEF Lifecycle!Init, Init

\* Every step of a producer, a worker or a fault is one step of that life or none.
LEMMA LifecycleStep == IndInv /\ IndInv' /\ [Next]_vars => Step
<1> SUFFICES ASSUME IndInv, IndInv', [Next]_vars PROVE Step
  OBVIOUS
<1> QED
  BY ProduceStep, PollStep, ProcessStep, OutsideStep DEF Next

\* The queue and its processes implement the life that JobLifecycle promises
\* a counter-given job, whatever the producers, workers and faults do (AddBulk,
\* PopJob, CompleteJob, FailJob).
THEOREM ImplementsLifecycleCorrect == Spec => ImplementsLifecycle
<1>1. IndInv /\ IndInv' /\ [Next]_vars => [Lifecycle!Next]_(Lifecycle!vars)
  BY LifecycleStep DEF Step
<1> QED
  BY <1>1, LifecycleInit, Invariant, PTL DEF Spec, ImplementsLifecycle, Lifecycle!Spec

-----------------------------------------------------------------------------
(* What comes of a job: a run that fails is a failed attempt, and one that *)
(* is lost, or never made, is not.                                         *)

OutcomeStep == [Outcome!Next]_(Outcome!vars)

PhaseOf == [k \in AutoIds |-> Phase(JobState(k))]

FailuresOf == [k \in AutoIds |-> Failures(JobState(k), runs[k])]

\* Where one job was and is, when only that one moves.
LEMMA MoveStates ==
  ASSUME NEW j \in AutoIds, NEW from, NEW to, Lifecycle!Move(j, from, to)
  PROVE  /\ JobState(j) = from /\ JobState(j)' = to
         /\ \A k \in AutoIds \ {j} : JobState(k)' = JobState(k)
<1> DEFINE bar == [i \in AutoIds |-> JobState(i)]
<1>1. bar[j] = from /\ bar' = [bar EXCEPT ![j] = to]
  BY DEF Lifecycle!Move
<1>2. bar'[j] = to /\ \A k \in AutoIds \ {j} : bar'[k] = bar[k]
  BY <1>1
<1>3. \A k \in AutoIds : bar[k] = JobState(k) /\ bar'[k] = JobState(k)'
  OBVIOUS
<1> HIDE DEF bar
<1> QED
  BY <1>1, <1>2, <1>3

\* Then the phase and the failures of the others stay.
LEMMA OutcomeMoves ==
  ASSUME NEW j \in AutoIds, \A k \in AutoIds \ {j} : JobState(k)' = JobState(k) /\ runs'[k] = runs[k]
  PROVE  /\ PhaseOf[j] = Phase(JobState(j)) /\ FailuresOf[j] = Failures(JobState(j), runs[j])
         /\ PhaseOf' = [PhaseOf EXCEPT ![j] = Phase(JobState(j)')]
         /\ FailuresOf' = [FailuresOf EXCEPT ![j] = Failures(JobState(j)', runs'[j])]
<1>1. \A k \in AutoIds \ {j} :
        /\ Phase(JobState(k))' = Phase(JobState(k))
        /\ Failures(JobState(k), runs[k])' = Failures(JobState(k), runs[k])
  BY DEF Phase, Failures
<1>2. PhaseOf' = [PhaseOf EXCEPT ![j] = Phase(JobState(j)')]
  BY <1>1 DEF PhaseOf
<1>3. FailuresOf' = [FailuresOf EXCEPT ![j] = Failures(JobState(j)', runs'[j])]
  BY <1>1 DEF FailuresOf
<1> QED
  BY <1>2, <1>3 DEF PhaseOf, FailuresOf

\* Jobs that are lost were open, and what they failed before no longer counts.
LEMMA OutcomeLoses ==
  ASSUME NEW S \in SUBSET AutoIds, UNCHANGED runs,
         \A k \in S : JobState(k) \in {"waiting", "taken", "running"} /\ JobState(k)' = "lost",
         \A k \in AutoIds \ S : JobState(k)' = JobState(k)
  PROVE  S \in SUBSET Outcome!Open /\ Outcome!Lose(S)
<1>1. \A k \in S : /\ Phase(JobState(k)) = "open" /\ Phase(JobState(k))' = "lost"
                   /\ Failures(JobState(k), runs[k])' = 0
  BY DEF Phase, Failures
<1>2. \A k \in AutoIds \ S :
        /\ Phase(JobState(k))' = Phase(JobState(k))
        /\ Failures(JobState(k), runs[k])' = Failures(JobState(k), runs[k])
  BY DEF Phase, Failures
<1> QED
  BY <1>1, <1>2 DEF Outcome!Lose, Outcome!Open

\* A step of a job's life settles its outcome, or leaves it open as it was.
LEMMA LifeOutcome ==
  ASSUME runs \in [AutoIds -> Nat], NEW j \in AutoIds,
         \/ Lifecycle!Enqueue(j) \/ Lifecycle!Take(j) \/ Lifecycle!Run(j)
         \/ Lifecycle!Finish(j) \/ Lifecycle!Retry(j) \/ Lifecycle!GiveUp(j)
         \/ Lifecycle!Requeue(j)
  PROVE  OutcomeStep
<1>1. ASSUME NEW from, NEW to, Lifecycle!Move(j, from, to),
             \A k \in AutoIds \ {j} : runs'[k] = runs[k]
      PROVE  /\ PhaseOf[j] = Phase(from) /\ PhaseOf' = [PhaseOf EXCEPT ![j] = Phase(to)]
             /\ FailuresOf[j] = Failures(from, runs[j])
             /\ FailuresOf' = [FailuresOf EXCEPT ![j] = Failures(to, runs'[j])]
  <2>1. /\ JobState(j) = from /\ JobState(j)' = to
        /\ \A k \in AutoIds \ {j} : JobState(k)' = JobState(k)
    BY <1>1, MoveStates
  <2> QED
    BY <1>1, <2>1, OutcomeMoves
<1>2. ASSUME NEW from, NEW to, Lifecycle!Move(j, from, to), UNCHANGED runs
      PROVE  /\ PhaseOf[j] = Phase(from) /\ PhaseOf' = [PhaseOf EXCEPT ![j] = Phase(to)]
             /\ FailuresOf[j] = Failures(from, runs[j])
             /\ FailuresOf' = [FailuresOf EXCEPT ![j] = Failures(to, runs[j])]
  <2>1. \A k \in AutoIds : runs'[k] = runs[k]
    BY <1>2
  <2> QED
    BY <1>1, <1>2, <2>1
<1>3. /\ PhaseOf = [PhaseOf EXCEPT ![j] = PhaseOf[j]]
      /\ FailuresOf = [FailuresOf EXCEPT ![j] = FailuresOf[j]]
  <2>1. ASSUME NEW f, f = [k \in AutoIds |-> f[k]] PROVE f = [f EXCEPT ![j] = f[j]]
    <3>1. DOMAIN f = AutoIds
      BY <2>1
    <3> QED
      BY <2>1, <3>1
  <2>2. PhaseOf = [k \in AutoIds |-> PhaseOf[k]]
    BY DEF PhaseOf
  <2>3. FailuresOf = [k \in AutoIds |-> FailuresOf[k]]
    BY DEF FailuresOf
  <2>4. PhaseOf = [PhaseOf EXCEPT ![j] = PhaseOf[j]]
    BY <2>1, <2>2
  <2>5. FailuresOf = [FailuresOf EXCEPT ![j] = FailuresOf[j]]
    BY <2>1, <2>3
  <2> QED
    BY <2>4, <2>5
<1>4. runs[j] \in Nat
  OBVIOUS
<1>5. CASE Lifecycle!Enqueue(j)
  <2>1. /\ PhaseOf[j] = Phase("new") /\ PhaseOf' = [PhaseOf EXCEPT ![j] = Phase("waiting")]
        /\ FailuresOf[j] = Failures("new", runs[j])
        /\ FailuresOf' = [FailuresOf EXCEPT ![j] = Failures("waiting", runs[j])]
    BY <1>2, <1>5 DEF Lifecycle!Enqueue
  <2>2. /\ Phase("new") = "new" /\ Phase("waiting") = "open"
        /\ Failures("new", runs[j]) = Failures("waiting", runs[j])
    BY DEF Phase, Failures
  <2>3. /\ PhaseOf[j] = "new" /\ PhaseOf' = [PhaseOf EXCEPT ![j] = "open"]
        /\ UNCHANGED FailuresOf
    BY <1>3, <2>1, <2>2
  <2>4. Outcome!Add(j)
    BY <2>3 DEF Outcome!Add, Outcome!Move, PhaseOf, FailuresOf
  <2> QED
    BY <2>4 DEF OutcomeStep, Outcome!Next
<1>6. CASE Lifecycle!Take(j)
  <2>1. /\ PhaseOf[j] = Phase("waiting") /\ PhaseOf' = [PhaseOf EXCEPT ![j] = Phase("taken")]
        /\ FailuresOf[j] = Failures("waiting", runs[j])
        /\ FailuresOf' = [FailuresOf EXCEPT ![j] = Failures("taken", runs[j])]
    BY <1>2, <1>6 DEF Lifecycle!Take
  <2>2. Phase("waiting") = Phase("taken") /\ Failures("waiting", runs[j]) = Failures("taken", runs[j])
    BY DEF Phase, Failures
  <2> QED
    BY <1>3, <2>1, <2>2 DEF OutcomeStep, Outcome!vars, PhaseOf, FailuresOf
<1>7. CASE Lifecycle!Requeue(j)
  <2>1. /\ PhaseOf[j] = Phase("delayed") /\ PhaseOf' = [PhaseOf EXCEPT ![j] = Phase("waiting")]
        /\ FailuresOf[j] = Failures("delayed", runs[j])
        /\ FailuresOf' = [FailuresOf EXCEPT ![j] = Failures("waiting", runs[j])]
    BY <1>2, <1>7 DEF Lifecycle!Requeue
  <2>2. Phase("delayed") = Phase("waiting") /\ Failures("delayed", runs[j]) = Failures("waiting", runs[j])
    BY DEF Phase, Failures
  <2> QED
    BY <1>3, <2>1, <2>2 DEF OutcomeStep, Outcome!vars, PhaseOf, FailuresOf
\* The run that starts has not failed yet.
<1>8. CASE Lifecycle!Run(j)
  <2>1. /\ Lifecycle!Move(j, "taken", "running")
        /\ runs'[j] = runs[j] + 1 /\ \A k \in AutoIds \ {j} : runs'[k] = runs[k]
    BY <1>4, <1>8 DEF Lifecycle!Run
  <2>2. /\ PhaseOf[j] = Phase("taken") /\ PhaseOf' = [PhaseOf EXCEPT ![j] = Phase("running")]
        /\ FailuresOf[j] = Failures("taken", runs[j])
        /\ FailuresOf' = [FailuresOf EXCEPT ![j] = Failures("running", runs[j] + 1)]
    BY <1>1, <2>1
  <2>3. Phase("running") = Phase("taken")
    BY DEF Phase
  <2>4. Failures("running", runs[j] + 1) = Failures("taken", runs[j])
    BY <1>4 DEF Failures
  <2> QED
    BY <1>3, <2>2, <2>3, <2>4 DEF OutcomeStep, Outcome!vars, PhaseOf, FailuresOf
<1>9. CASE Lifecycle!Finish(j)
  <2>1. /\ PhaseOf[j] = Phase("running") /\ PhaseOf' = [PhaseOf EXCEPT ![j] = Phase("completed")]
        /\ FailuresOf[j] = Failures("running", runs[j])
        /\ FailuresOf' = [FailuresOf EXCEPT ![j] = Failures("completed", runs[j])]
    BY <1>2, <1>9 DEF Lifecycle!Finish
  <2>2. /\ Phase("running") = "open" /\ Phase("completed") = "done"
        /\ Failures("completed", runs[j]) = 0
    BY DEF Phase, Failures
  <2>3. /\ PhaseOf[j] = "open" /\ PhaseOf' = [PhaseOf EXCEPT ![j] = "done"]
        /\ FailuresOf' = [FailuresOf EXCEPT ![j] = 0]
    BY <2>1, <2>2
  <2>4. Outcome!Succeed(j)
    BY <2>3 DEF Outcome!Succeed, Outcome!Move, Outcome!Reset, PhaseOf, FailuresOf
  <2> QED
    BY <2>4 DEF OutcomeStep, Outcome!Next
\* The run that ends is one more failed attempt.
<1>10. CASE Lifecycle!Retry(j)
  <2>1. /\ Lifecycle!Move(j, "running", "delayed") /\ UNCHANGED runs
        /\ runs[j] < [k \in AutoIds |-> Attempts[k]][j]
    BY <1>10 DEF Lifecycle!Retry
  <2>2. /\ PhaseOf[j] = Phase("running") /\ PhaseOf' = [PhaseOf EXCEPT ![j] = Phase("delayed")]
        /\ FailuresOf[j] = Failures("running", runs[j])
        /\ FailuresOf' = [FailuresOf EXCEPT ![j] = Failures("delayed", runs[j])]
    BY <1>2, <2>1
  <2>3. Phase("running") = "open" /\ Phase("delayed") = "open"
    BY DEF Phase
  <2>4. /\ Failures("running", runs[j]) = runs[j] - 1
        /\ Failures("delayed", runs[j]) = runs[j]
    BY DEF Failures
  <2>5. PhaseOf[j] = "open" /\ PhaseOf' = PhaseOf /\ FailuresOf[j] + 1 = runs[j]
    BY <1>3, <1>4, <2>2, <2>3, <2>4
  <2>6. FailuresOf' = [FailuresOf EXCEPT ![j] = FailuresOf[j] + 1]
    BY <2>2, <2>4, <2>5
  <2>7. /\ PhaseOf[j] = "open" /\ FailuresOf[j] + 1 < [k \in AutoIds |-> Attempts[k]][j]
        /\ FailuresOf' = [FailuresOf EXCEPT ![j] = @ + 1] /\ UNCHANGED PhaseOf
    BY <2>1, <2>5, <2>6
  <2>8. Outcome!Fail(j)
    BY <2>7 DEF Outcome!Fail, PhaseOf, FailuresOf
  <2> QED
    BY <2>8 DEF OutcomeStep, Outcome!Next
<1>11. CASE Lifecycle!GiveUp(j)
  <2>1. /\ Lifecycle!Move(j, "running", "failed") /\ UNCHANGED runs
        /\ runs[j] >= [k \in AutoIds |-> Attempts[k]][j]
    BY <1>11 DEF Lifecycle!GiveUp
  <2>2. /\ PhaseOf[j] = Phase("running") /\ PhaseOf' = [PhaseOf EXCEPT ![j] = Phase("failed")]
        /\ FailuresOf[j] = Failures("running", runs[j])
        /\ FailuresOf' = [FailuresOf EXCEPT ![j] = Failures("failed", runs[j])]
    BY <1>2, <2>1
  <2>3. Phase("running") = "open" /\ Phase("failed") = "failed"
    BY DEF Phase
  <2>4. /\ Failures("running", runs[j]) = runs[j] - 1
        /\ Failures("failed", runs[j]) = 0
    BY DEF Failures
  <2>5. FailuresOf[j] + 1 = runs[j]
    BY <1>4, <2>2, <2>4
  <2>6. /\ FailuresOf[j] + 1 >= [k \in AutoIds |-> Attempts[k]][j]
        /\ PhaseOf[j] = "open" /\ PhaseOf' = [PhaseOf EXCEPT ![j] = "failed"]
        /\ FailuresOf' = [FailuresOf EXCEPT ![j] = 0]
    BY <2>1, <2>2, <2>3, <2>4, <2>5
  <2>7. Outcome!GiveUp(j)
    BY <2>6 DEF Outcome!GiveUp, Outcome!Move, Outcome!Reset, PhaseOf, FailuresOf
  <2> QED
    BY <2>7 DEF OutcomeStep, Outcome!Next
<1> QED
  BY <1>5, <1>6, <1>7, <1>8, <1>9, <1>10, <1>11

\* So is a step of all of them together.
LEMMA StepOutcome ==
  ASSUME runs \in [AutoIds -> Nat], Step
  PROVE  OutcomeStep
<1>1. CASE UNCHANGED Lifecycle!vars
  <2>1. /\ [k \in AutoIds |-> JobState(k)]' = [k \in AutoIds |-> JobState(k)]
        /\ UNCHANGED runs
    BY <1>1 DEF Lifecycle!vars
  <2>2. \A k \in AutoIds : JobState(k)' = JobState(k)
    BY <2>1
  <2> QED
    BY <2>1, <2>2 DEF OutcomeStep, Outcome!vars, Phase, Failures
<1>2. ASSUME NEW S \in SUBSET AutoIds, UNCHANGED runs,
             \A k \in S : JobState(k) \in {"waiting", "taken", "running"} /\ JobState(k)' = "lost",
             \A k \in AutoIds \ S : JobState(k)' = JobState(k)
      PROVE  OutcomeStep
  BY <1>2, OutcomeLoses DEF OutcomeStep, Outcome!Next
<1>3. ASSUME NEW j \in AutoIds, Lifecycle!Misplace(j) PROVE OutcomeStep
  <2> DEFINE bar == [i \in AutoIds |-> JobState(i)]
             S == {j}
  <2>1. bar[j] = "waiting" /\ bar' = [bar EXCEPT ![j] = "lost"] /\ UNCHANGED runs
    BY <1>3 DEF Lifecycle!Misplace, Lifecycle!Move
  <2>2. \A k \in AutoIds : bar[k] = JobState(k) /\ bar'[k] = JobState(k)'
    OBVIOUS
  <2>3. bar'[j] = "lost" /\ \A k \in AutoIds \ {j} : bar'[k] = bar[k]
    BY <2>1
  <2> HIDE DEF bar
  <2>4. /\ S \in SUBSET AutoIds
        /\ \A k \in S : JobState(k) \in {"waiting", "taken", "running"} /\ JobState(k)' = "lost"
        /\ \A k \in AutoIds \ S : JobState(k)' = JobState(k)
    BY <2>1, <2>2, <2>3
  <2> HIDE DEF S
  <2> QED
    BY <1>2, <2>1, <2>4
<1>4. ASSUME NEW S \in SUBSET AutoIds, Lifecycle!Lose(S) PROVE OutcomeStep
  <2> DEFINE bar == [i \in AutoIds |-> JobState(i)]
  <2>1. /\ \A k \in S : bar[k] \in {"taken", "running"}
        /\ bar' = [k \in AutoIds |-> IF k \in S THEN "lost" ELSE bar[k]]
        /\ UNCHANGED runs
    BY <1>4 DEF Lifecycle!Lose
  <2>2. \A k \in AutoIds : bar[k] = JobState(k) /\ bar'[k] = JobState(k)'
    OBVIOUS
  <2> HIDE DEF bar
  <2>3. /\ \A k \in S : JobState(k) \in {"waiting", "taken", "running"} /\ JobState(k)' = "lost"
        /\ \A k \in AutoIds \ S : JobState(k)' = JobState(k)
    BY <2>1, <2>2
  <2> QED
    BY <1>2, <2>1, <2>3
<1> QED
  BY <1>1, <1>3, <1>4, LifeOutcome DEF Step, Lifecycle!Next

\* What comes of a counter-given job is what those who add it count on: it is
\* open until a run succeeds or the last attempt fails, or the process that has
\* it ends (AddBulk, CompleteJob, FailJob).
THEOREM ImplementsOutcomeCorrect == Spec => ImplementsOutcome
<1>1. Init => Outcome!Init
  <2> SUFFICES ASSUME Init PROVE Outcome!Init
    OBVIOUS
  <2> DEFINE bar == [j \in AutoIds |-> JobState(j)]
  <2>1. bar = [j \in AutoIds |-> "new"] /\ runs = [j \in AutoIds |-> 0]
    BY LifecycleInit DEF Lifecycle!Init
  <2>2. \A j \in AutoIds : bar[j] = JobState(j)
    OBVIOUS
  <2> HIDE DEF bar
  <2>3. \A j \in AutoIds : JobState(j) = "new" /\ runs[j] = 0
    BY <2>1, <2>2
  <2> QED
    BY <2>3 DEF Outcome!Init, Phase, Failures
<1>2. IndInv /\ IndInv' /\ [Next]_vars => [Outcome!Next]_(Outcome!vars)
  BY LifecycleStep, StepOutcome DEF IndInv, TypeOK, OutcomeStep
<1> QED
  BY <1>1, <1>2, Invariant, PTL DEF Spec, ImplementsOutcome, Outcome!Spec

-----------------------------------------------------------------------------
(* Jobs are lost to shutdowns, crashes and faults only.                    *)

Excused(j) ==
  \/ Faulty
  \/ \E w \in Workers : Holds(w, j) /\ (cancelled[w] \/ loop'[w] = "dead")

\* j stays in the active list and no process has it.
Orphaned(j) == active[j] = 1 /\ ~Popping(j) /\ ~Running(j)

LEMMA LostIsOrphaned == IndInv => \A j \in AutoIds : JobState(j) = "lost" <=> Orphaned(j)
<1> SUFFICES ASSUME IndInv, NEW j \in AutoIds PROVE JobState(j) = "lost" <=> Orphaned(j)
  OBVIOUS
<1>1. StateIs(j) /\ (active[j] = 0 \/ active[j] = 1)
  BY StatesAre DEF IndInv, JobInv, Placed, TypeOK, QueueTypeOK, Job
<1> QED
  BY <1>1 DEF StateIs, Orphaned

LEMMA LostIsOrphanedNext ==
  (IndInv => \A j \in AutoIds : JobState(j) = "lost" <=> Orphaned(j))'
  BY LostIsOrphaned, PTL

\* run() loses the job it holds only with a done context or a failed call:
\* getJob finds the hash of every counter-given job.
LEMMA PollLoses ==
  ASSUME IndInv, NEW w \in Workers, Poll(w), NEW j \in AutoIds, ~Orphaned(j), Orphaned(j)'
  PROVE  Excused(j)
<1> USE DEF Popping, Running
<1>0. /\ TypeOK /\ Shape /\ QueueTypeOK /\ JobInv(j) /\ j \in Job
      /\ active \in [Job -> Nat] /\ popped \in [Workers -> Popped]
      /\ task \in [Workers \X Slots -> Task]
  BY DEF IndInv, TypeOK, QueueTypeOK, Job
<1>1. ASSUME NEW i \in Job, Pop(w, i) PROVE FALSE
  <2>1. /\ active' = [active EXCEPT ![i] = @ + 1] /\ task' = task /\ TakeNext(i)
        /\ popped'[w].job = i /\ \A v \in Workers \ {w} : popped'[v] = popped[v]
        /\ popped[w].job = NoJob
    BY <1>0, <1>1 DEF Pop, MoveToActive, Popped, Shape
  <2>2. i # j
    BY <2>1 DEF Orphaned
  <2> QED
    BY <1>0, <2>1, <2>2, SystemAssumption DEF Orphaned
<1>2. ASSUME NEW i \in Job, PopReplyLost(w, i) PROVE Excused(j)
  BY <1>2 DEF PopReplyLost, Excused
<1>3. CASE GetJob(w)
  <2>1. UNCHANGED <<active, task>> /\ \A v \in Workers : popped'[v].job = popped[v].job
    BY <1>0, <1>3 DEF GetJob, queueVars, Popped
  <2> QED
    BY <2>1 DEF Orphaned
<1>4. CASE GetJobFails(w)
  <2>1. UNCHANGED <<active, task>> /\ \A v \in Workers \ {w} : popped'[v] = popped[v]
    BY <1>0, <1>4 DEF GetJobFails, queueVars
  <2>2. popped[w].job = j
    BY <2>1 DEF Orphaned
  <2>3. hash[j].exists
    BY <1>0, <2>2 DEF JobInv, HeldOnce, Stored
  <2>4. cancelled[w] \/ Faulty
    BY <1>4, <2>2, <2>3 DEF GetJobFails
  <2> QED
    BY <2>2, <2>4 DEF Excused, Holds
<1>5. ASSUME NEW s \in Slots, Dispatch(w, s) PROVE FALSE
  <2>1. /\ UNCHANGED active /\ task'[<<w, s>>].job = popped[w].job
        /\ \A v \in Workers \ {w} : popped'[v] = popped[v]
        /\ \A u \in Workers \X Slots : u # <<w, s>> => task'[u] = task[u]
        /\ task[<<w, s>>].job = NoJob
    BY <1>0, <1>5 DEF Dispatch, queueVars, Shape
  <2>2. popped[w].job # j
    BY <2>1 DEF Orphaned
  <2> QED
    BY <1>0, <2>1, <2>2, SystemAssumption DEF Orphaned
<1>6. CASE Drain(w)
  BY <1>6 DEF Drain, queueVars, Orphaned
<1> QED
  BY <1>1, <1>2, <1>3, <1>4, <1>5, <1>6 DEF Poll

\* processJob() takes its job out of the active list or its call failed.
LEMMA ProcessLoses ==
  ASSUME IndInv, NEW w \in Workers, NEW s \in Slots, Process(w, s),
         NEW j \in AutoIds, ~Orphaned(j), Orphaned(j)'
  PROVE  Excused(j)
<1> USE DEF Popping, Running
<1> DEFINE t == <<w, s>>
<1>0. /\ TypeOK /\ Shape /\ t \in Workers \X Slots /\ j \in Job
      /\ active \in [Job -> Nat] /\ task \in [Workers \X Slots -> Task]
  BY DEF IndInv, TypeOK, QueueTypeOK, Job
<1>1. popped' = popped
  BY DEF Process, HandlerReturns, CompleteJob, FailJob, FailJobMoves, ResultLost
<1>2. ASSUME NEW pc, task' = [task EXCEPT ![t].pc = pc], active' = active PROVE FALSE
  <2>1. \A u \in Workers \X Slots : task'[u].job = task[u].job
    BY <1>0, <1>2 DEF Task
  <2> QED
    BY <1>1, <1>2, <2>1 DEF Orphaned
<1>3. CASE HandlerReturns(w, s)
  BY <1>2, <1>3 DEF HandlerReturns, queueVars
<1>4. CASE FailJob(w, s)
  BY <1>2, <1>4 DEF FailJob, CountFailure, lists
<1>5. CASE ResultLost(w, s)
  <2>1. active' = active /\ \A u \in Workers \X Slots : u # t => task'[u] = task[u]
    BY <1>0, <1>5 DEF ResultLost, ReleaseSlot, queueVars
  <2>2. task[t].job = j
    BY <1>1, <2>1 DEF Orphaned
  <2> QED
    BY <1>5, <2>2 DEF ResultLost, Excused, Holds
<1>6. CASE CompleteJob(w, s) \/ FailJobMoves(w, s)
  <2>1. PICK i \in Job : i = task[t].job
    BY <1>0, <1>6, HeldIsJob DEF CompleteJob, FailJobMoves
  <2>2. /\ active' = [active EXCEPT ![i] = 0]
        /\ \A u \in Workers \X Slots : u # t => task'[u] = task[u]
    BY <1>0, <1>6, <2>1
    DEF CompleteJob, FailJobMoves, ReleaseSlot, MoveToCompleted, MoveToDelayed, MoveToFailed,
        RemoveFromActive
  <2>3. i # j
    BY <1>0, <2>2 DEF Orphaned
  <2> QED
    BY <1>0, <1>1, <2>1, <2>2, <2>3 DEF Orphaned
<1> QED
  BY <1>3, <1>4, <1>5, <1>6 DEF Process

\* Every other step that loses a job kills the process that has it.
LEMMA OutsideLoses ==
  ASSUME IndInv, [Next]_vars, NEW j \in AutoIds, ~Orphaned(j), Orphaned(j)',
         ~ \E w \in Workers : Poll(w), ~ \E w \in Workers, s \in Slots : Process(w, s)
  PROVE  Excused(j)
<1> USE DEF Popping, Running
<1>0. /\ loop \in [Workers -> {"poll", "get", "slot", "exited", "dead"}]
      /\ popped \in [Workers -> Popped]
  BY DEF IndInv, TypeOK
<1>1. ASSUME UNCHANGED <<active, popped, task>> PROVE FALSE
  BY <1>1 DEF Orphaned
<1>2. CASE \E p \in Producers : Produce(p)
  BY <1>1, <1>2
  DEF Produce, CheckExists, NextJobID, StoreJob, PushJob, AddFails, queueVars, lists, workerVars
<1>3. ASSUME NEW w \in Workers, Cancel(w) \/ Restart(w) PROVE FALSE
  BY <1>1, <1>3 DEF Cancel, Restart, queueVars
<1>4. ASSUME NEW w \in Workers, Kill(w) PROVE Excused(j)
  <2>1. /\ active' = active /\ loop'[w] = "dead"
        /\ \A v \in Workers \ {w} : popped'[v] = popped[v]
        /\ \A u \in Workers \X Slots : u[1] # w => task'[u] = task[u]
    BY <1>0, <1>4 DEF Kill, queueVars
  <2>2. CASE Popping(j)
    <3>1. popped[w].job = j
      BY <2>1, <2>2 DEF Orphaned
    <3> QED
      BY <2>1, <3>1 DEF Excused, Holds
  <2>3. CASE Running(j)
    <3>1. PICK u \in Workers \X Slots : task[u].job = j
      BY <2>3
    <3>2. u[1] = w
      BY <2>1, <3>1 DEF Orphaned
    <3>3. PICK s \in Slots : u = <<w, s>>
      BY <3>2
    <3> QED
      BY <2>1, <3>1, <3>3 DEF Excused, Holds
  <2> QED
    BY <2>1, <2>2, <2>3 DEF Orphaned
<1>5. CASE \/ \E i \in Job : HashExpires(i) \/ PromoteDelayed(i)
           \/ UNCHANGED vars
  BY <1>1, <1>5
  DEF HashExpires, Expire, PromoteDelayed, Promote, lists, workerVars, vars, queueVars
<1> QED
  BY <1>2, <1>3, <1>4, <1>5 DEF Next

\* A job that is in nobody's hands in the active list, where no code looks
\* for it, got there by a shutdown, a crash or a failed Redis call: PopJob,
\* the worker and processJob never drop one themselves.
THEOREM LostOnlyToStopCorrect == Spec => LostOnlyToStop
<1>1. ASSUME IndInv, IndInv', [Next]_vars, NEW j \in AutoIds,
             JobState(j) # "lost", JobState(j)' = "lost"
      PROVE  Excused(j)
  <2>1. ~Orphaned(j) /\ Orphaned(j)'
    BY <1>1, LostIsOrphaned, LostIsOrphanedNext
  <2> QED
    BY <1>1, <2>1, PollLoses, ProcessLoses, OutsideLoses
<1>2. IndInv /\ IndInv' /\ [Next]_vars =>
        [\A j \in AutoIds :
           JobState(j) # "lost" /\ JobState(j)' = "lost" =>
             \/ Faulty
             \/ \E w \in Workers : Holds(w, j) /\ (cancelled[w] \/ loop'[w] = "dead")]_vars
  BY <1>1 DEF Excused
<1> QED
  BY <1>2, Invariant, PTL DEF Spec, LostOnlyToStop

-----------------------------------------------------------------------------
(* The refinement of WorkerLoop: a step changes the loop, the slots or the *)
(* context of one worker, as that worker's loop allows.                    *)

LoopStep == [Loop!Next]_(Loop!vars)

\* A step that leaves every worker in the same loop state, with the same
\* slots occupied and the same context.
LEMMA LoopStays ==
  ASSUME \A w \in Workers : LoopState(w)' = LoopState(w) /\ Occupied(w)' = Occupied(w),
         cancelled' = cancelled
  PROVE  LoopStep
<1>1. [w \in Workers |-> LoopState(w)]' = [w \in Workers |-> LoopState(w)]
  OBVIOUS
<1>2. [w \in Workers |-> Cardinality(Occupied(w))]' = [w \in Workers |-> Cardinality(Occupied(w))]
  OBVIOUS
<1> QED
  BY <1>1, <1>2 DEF LoopStep, Loop!vars

\* The loop of one worker moves, and its slots stay as they are.
LEMMA LoopMoves ==
  ASSUME NEW w \in Workers, NEW from, NEW to, LoopState(w) = from, LoopState(w)' = to,
         \A v \in Workers \ {w} : LoopState(v)' = LoopState(v)
  PROVE  Loop!Moves(w, from, to)
  BY DEF Loop!Moves

LEMMA SameSlots ==
  ASSUME \A w \in Workers : Occupied(w)' = Occupied(w)
  PROVE  [w \in Workers |-> Cardinality(Occupied(w))]' = [w \in Workers |-> Cardinality(Occupied(w))]
  OBVIOUS

\* A worker takes at most the slots that there are.
LEMMA OccupiedFinite ==
  ASSUME NEW w \in Workers
  PROVE  /\ IsFiniteSet(Occupied(w))
         /\ Cardinality(Occupied(w)) \in Nat
         /\ \A s \in Slots \ Occupied(w) : Cardinality(Occupied(w)) < Cardinality(Slots)
<1>1. Occupied(w) \in SUBSET Slots
  BY DEF Occupied
<1>2. IsFiniteSet(Occupied(w)) /\ Cardinality(Occupied(w)) <= Cardinality(Slots)
  BY <1>1, SlotsAssumption, FS_Subset
<1>3. Cardinality(Occupied(w)) \in Nat /\ Cardinality(Slots) \in Nat
  BY <1>2, SlotsAssumption, FS_CardinalityType
<1>4. Cardinality(Slots) = Cardinality(Occupied(w)) => Slots = Occupied(w)
  BY <1>1, SlotsAssumption, FS_Subset
<1> QED
  BY <1>2, <1>3, <1>4

\* A slot is taken, or given back.
LEMMA SlotTaken ==
  ASSUME NEW w \in Workers, NEW s \in Slots, s \notin Occupied(w),
         Occupied(w)' = Occupied(w) \cup {s},
         \A v \in Workers \ {w} : Occupied(v)' = Occupied(v)
  PROVE  [v \in Workers |-> Cardinality(Occupied(v))]' =
           [[v \in Workers |-> Cardinality(Occupied(v))] EXCEPT ![w] = @ + 1]
<1>1. Cardinality(Occupied(w) \cup {s}) = Cardinality(Occupied(w)) + 1
  BY OccupiedFinite, FS_AddElement
<1> QED
  BY <1>1

LEMMA SlotReleased ==
  ASSUME NEW w \in Workers, NEW s \in Slots, s \in Occupied(w),
         Occupied(w)' = Occupied(w) \ {s},
         \A v \in Workers \ {w} : LoopState(v)' = LoopState(v) /\ Occupied(v)' = Occupied(v),
         LoopState(w)' = LoopState(w), cancelled' = cancelled
  PROVE  LoopStep
<1>1. Cardinality(Occupied(w) \ {s}) = Cardinality(Occupied(w)) - 1
  BY OccupiedFinite, FS_RemoveElement
<1>2. Cardinality(Occupied(w)) > 0
  BY OccupiedFinite, FS_EmptySet
<1>3. [v \in Workers |-> Cardinality(Occupied(v))]' =
        [[v \in Workers |-> Cardinality(Occupied(v))] EXCEPT ![w] = @ - 1]
  BY <1>1
<1>4. [v \in Workers |-> LoopState(v)]' = [v \in Workers |-> LoopState(v)]
  OBVIOUS
<1>5. Loop!HandlerEnds(w)
  BY <1>2, <1>3, <1>4 DEF Loop!HandlerEnds
<1> QED
  BY <1>5 DEF LoopStep, Loop!Next

LEMMA PollLoops ==
  ASSUME TypeOK, NEW w \in Workers, Poll(w)
  PROVE  LoopStep
<1> USE DEF TypeOK
<1>0. \A v \in Workers : task' = task => Occupied(v)' = Occupied(v)
  BY DEF Occupied
<1>1. ASSUME NEW j \in Job, Pop(w, j) \/ PopReplyLost(w, j) PROVE LoopStep
  <2>1. \A v \in Workers : LoopState(v)' = LoopState(v)
    BY <1>1 DEF Pop, PopReplyLost, LoopState, workerVars
  <2> QED
    BY <1>0, <1>1, <2>1, LoopStays DEF Pop, PopReplyLost, workerVars
<1>2. CASE GetJob(w)
  <2>1. LoopState(w) = "poll" /\ LoopState(w)' = "slot"
        /\ \A v \in Workers \ {w} : LoopState(v)' = LoopState(v)
    BY <1>2 DEF GetJob, LoopState
  <2>2. ~cancelled[w] /\ cancelled' = cancelled /\ task' = task
    BY <1>2 DEF GetJob
  <2>3. Loop!Moves(w, "poll", "slot")
    BY <2>1, LoopMoves
  <2>4. Loop!Take(w)
    BY <1>0, <2>2, <2>3, SameSlots DEF Loop!Take
  <2> QED
    BY <2>4 DEF LoopStep, Loop!Next
<1>3. CASE GetJobFails(w)
  <2>1. \A v \in Workers : LoopState(v)' = LoopState(v)
    BY <1>3 DEF GetJobFails, LoopState
  <2> QED
    BY <1>0, <1>3, <2>1, LoopStays DEF GetJobFails
<1>4. ASSUME NEW s \in Slots, Dispatch(w, s) PROVE LoopStep
  <2>1. LoopState(w) = "slot" /\ LoopState(w)' = "poll"
        /\ \A v \in Workers \ {w} : LoopState(v)' = LoopState(v)
    BY <1>4 DEF Dispatch, LoopState
  <2>2. /\ s \in Slots \ Occupied(w)
        /\ Occupied(w)' = Occupied(w) \cup {s}
        /\ \A v \in Workers \ {w} : Occupied(v)' = Occupied(v)
    BY <1>4 DEF Dispatch, Occupied
  <2>3. Loop!Moves(w, "slot", "poll")
    BY <2>1, LoopMoves
  <2>4. Cardinality(Occupied(w)) < Cardinality(Slots)
    BY <2>2, OccupiedFinite
  <2>5. [v \in Workers |-> Cardinality(Occupied(v))]' =
          [[v \in Workers |-> Cardinality(Occupied(v))] EXCEPT ![w] = @ + 1]
    BY <2>2, SlotTaken
  <2>6. cancelled' = cancelled
    BY <1>4 DEF Dispatch
  <2>7. Loop!StartHandler(w)
    BY <2>3, <2>4, <2>5, <2>6 DEF Loop!StartHandler
  <2> QED
    BY <2>7 DEF LoopStep, Loop!Next
<1>5. CASE Drain(w)
  <2>1. LoopState(w) = "poll" /\ LoopState(w)' = "down"
        /\ \A v \in Workers \ {w} : LoopState(v)' = LoopState(v)
    BY <1>5 DEF Drain, LoopState
  <2>2. cancelled[w] /\ cancelled' = cancelled /\ task' = task /\ Occupied(w) = {}
    BY <1>5 DEF Drain, Occupied
  <2>3. Loop!Moves(w, "poll", "down")
    BY <2>1, LoopMoves
  <2>4. Loop!Exit(w)
    BY <1>0, <2>2, <2>3, SameSlots, FS_EmptySet DEF Loop!Exit
  <2> QED
    BY <2>4 DEF LoopStep, Loop!Next
<1> QED
  BY <1>1, <1>2, <1>3, <1>4, <1>5 DEF Poll

LEMMA ProcessLoops ==
  ASSUME TypeOK, NEW w \in Workers, NEW s \in Slots, Process(w, s)
  PROVE  LoopStep
<1> USE DEF TypeOK
<1>1. loop' = loop /\ cancelled' = cancelled /\ s \in Occupied(w)
  BY DEF Process, HandlerReturns, CompleteJob, FailJob, FailJobMoves, ResultLost, Occupied
<1>2. \A v \in Workers : LoopState(v)' = LoopState(v)
  BY <1>1 DEF LoopState
<1>3. CASE HandlerReturns(w, s) \/ FailJob(w, s)
  <2>1. PICK pc \in {"complete", "fail", "retry", "bury"} :
          task' = [task EXCEPT ![<<w, s>>].pc = pc]
    BY <1>3 DEF HandlerReturns, FailJob
  <2>2. \A v \in Workers : Occupied(v)' = Occupied(v)
    BY <1>1, <2>1 DEF Occupied, Task
  <2> QED
    BY <1>1, <1>2, <2>2, LoopStays
<1>4. CASE ReleaseSlot(w, s)
  <2>1. /\ Occupied(w)' = Occupied(w) \ {s}
        /\ \A v \in Workers \ {w} : Occupied(v)' = Occupied(v)
    BY <1>4 DEF ReleaseSlot, Occupied, Free
  <2> QED
    BY <1>1, <1>2, <2>1, SlotReleased
<1> QED
  BY <1>3, <1>4 DEF Process, CompleteJob, FailJobMoves, ResultLost

LEMMA LifeLoops ==
  ASSUME TypeOK, NEW w \in Workers, Cancel(w) \/ Kill(w) \/ Restart(w)
  PROVE  LoopStep
<1> USE DEF TypeOK
<1>1. CASE Cancel(w)
  <2>1. \A v \in Workers : LoopState(v)' = LoopState(v) /\ Occupied(v)' = Occupied(v)
    BY <1>1 DEF Cancel, LoopState, Occupied
  <2>2. LoopState(w) # "down" /\ cancelled' = [cancelled EXCEPT ![w] = TRUE]
    BY <1>1 DEF Cancel, LoopState
  <2>3. Loop!Cancel(w)
    BY <2>1, <2>2, SameSlots DEF Loop!Cancel
  <2> QED
    BY <2>3 DEF LoopStep, Loop!Next
<1>2. CASE Kill(w)
  <2>1. LoopState(w) # "down" /\ LoopState(w)' = "down"
        /\ \A v \in Workers \ {w} : LoopState(v)' = LoopState(v)
    BY <1>2 DEF Kill, LoopState
  <2>2. Occupied(w)' = {} /\ \A v \in Workers \ {w} : Occupied(v)' = Occupied(v)
    BY <1>2 DEF Kill, Occupied, Free
  <2>3. [v \in Workers |-> LoopState(v)]' = [[v \in Workers |-> LoopState(v)] EXCEPT ![w] = "down"]
    BY <2>1
  <2>4. [v \in Workers |-> Cardinality(Occupied(v))]' =
          [[v \in Workers |-> Cardinality(Occupied(v))] EXCEPT ![w] = 0]
    BY <2>2, FS_EmptySet
  <2>5. Loop!Die(w)
    BY <1>2, <2>1, <2>3, <2>4 DEF Loop!Die, Kill
  <2> QED
    BY <2>5 DEF LoopStep, Loop!Next
<1>3. CASE Restart(w)
  <2>1. LoopState(w) = "down" /\ LoopState(w)' = "poll"
        /\ \A v \in Workers \ {w} : LoopState(v)' = LoopState(v)
    BY <1>3 DEF Restart, LoopState
  <2>2. \A v \in Workers : Occupied(v)' = Occupied(v)
    BY <1>3 DEF Restart, Occupied
  <2>3. Loop!Moves(w, "down", "poll")
    BY <2>1, LoopMoves
  <2>4. Loop!Start(w)
    BY <1>3, <2>2, <2>3, SameSlots DEF Loop!Start, Restart
  <2> QED
    BY <2>4 DEF LoopStep, Loop!Next
<1> QED
  BY <1>1, <1>2, <1>3

\* Producers, the expiry of hashes and the scheduler touch no worker.
LEMMA OutsideLoops ==
  ASSUME \/ \E p \in Producers : Produce(p)
         \/ \E j \in Job : HashExpires(j) \/ PromoteDelayed(j)
         \/ UNCHANGED vars
  PROVE  LoopStep
<1>1. UNCHANGED workerVars
  BY DEF Produce, CheckExists, NextJobID, StoreJob, PushJob, AddFails, HashExpires,
         PromoteDelayed, vars, workerVars
<1>2. \A v \in Workers : LoopState(v)' = LoopState(v) /\ Occupied(v)' = Occupied(v)
  BY <1>1 DEF workerVars, LoopState, Occupied
<1> QED
  BY <1>1, <1>2, LoopStays DEF workerVars

\* The polling loop, the semaphore and the context of every worker process are
\* a WorkerLoop, for any number of slots, under every crash and fault (run,
\* processJob).
THEOREM ImplementsLoopCorrect == Spec => ImplementsLoop
<1>1. Init => Loop!Init
  <2> SUFFICES ASSUME Init PROVE Loop!Init
    OBVIOUS
  <2>1. \A w \in Workers : LoopState(w) = "poll" /\ Occupied(w) = {}
    BY DEF Init, LoopState, Occupied, Free
  <2>2. \A w \in Workers : Cardinality(Occupied(w)) = 0
    BY <2>1, FS_EmptySet
  <2> QED
    BY <2>1, <2>2 DEF Loop!Init, Init
<1>2. TypeOK /\ [Next]_vars => [Loop!Next]_(Loop!vars)
  BY PollLoops, ProcessLoops, LifeLoops, OutsideLoops DEF Next, LoopStep
<1>3. IndInv => TypeOK
  BY DEF IndInv
<1> QED
  BY Invariant, <1>1, <1>2, <1>3, PTL DEF Spec, ImplementsLoop, Loop!Spec

=============================================================================
