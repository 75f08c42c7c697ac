-------------------------------- MODULE BullMQ --------------------------------
(***************************************************************************)
(* The Redis side of one BullMQ queue, as internal/bullmq/bullmq.go lays   *)
(* it out: the job hashes, the wait list, the prioritized, delayed,        *)
(* completed and failed sorted sets and the active list, and the commands  *)
(* that AddBulk, PopJob, CompleteJob and FailJob send.  Each definition    *)
(* below is the effect of one round trip to Redis; module JobQueue makes   *)
(* them the steps of the processes that send them.                         *)
(*                                                                         *)
(* A round trip is atomic here, except that AddBulk's pipeline is split    *)
(* where another client can see the difference: after its HSET.            *)
(***************************************************************************)
EXTENDS Integers, Sequences

CONSTANTS
  AutoIds,    \* ids that INCR on the queue's id counter hands out
  CallerIds,  \* ids chosen by the caller (AddJobOpts.JobID)
  Attempts,   \* opts.attempts of each job
  Priority    \* opts.priority of each job; 0 sends it to the wait list

Job == AutoIds \cup CallerIds

ASSUME JobAssumption ==
  /\ AutoIds \cap CallerIds = {}
  /\ Attempts \in [Job -> Nat]
  /\ Priority \in [Job -> Nat]

VARIABLES
  hash,         \* the job hash of each id
  issued,       \* auto ids the counter has handed out
  wait,         \* list: LPUSH at the head, RPOP at the tail
  prioritized,  \* sorted set; ZPOPMIN takes a member of least score
  active,       \* list, whose order no command reads: occurrences of each id
  delayed, completed, failed  \* sorted sets whose scores no Go code reads

queueVars == <<hash, issued, wait, prioritized, active, delayed, completed, failed>>
lists == <<wait, prioritized, active, delayed, completed, failed>>

\* body: the name, data and opts fields are there.  ttl: an EXPIRE is running.
Hash == [exists: BOOLEAN, body: BOOLEAN, made: Nat, ttl: BOOLEAN]
NoHash == [exists |-> FALSE, body |-> FALSE, made |-> 0, ttl |-> FALSE]

QueueTypeOK ==
  /\ hash \in [Job -> Hash]
  /\ issued \in SUBSET AutoIds
  /\ wait \in Seq(Job)
  /\ prioritized \in SUBSET Job
  /\ active \in [Job -> Nat]
  /\ delayed \in SUBSET Job
  /\ completed \in SUBSET Job
  /\ failed \in SUBSET Job

QueueInit ==
  /\ hash = [j \in Job |-> NoHash]
  /\ issued = {}
  /\ wait = <<>>
  /\ prioritized = {}
  /\ active = [j \in Job |-> 0]
  /\ delayed = {}
  /\ completed = {}
  /\ failed = {}

-----------------------------------------------------------------------------
(* AddBulk: EXISTS or INCR, then HSET and LPUSH or ZADD.                   *)

\* INCR is atomic: no two callers are handed the same id.
IncrId(a) ==
  /\ a \in AutoIds \ issued
  /\ issued' = issued \cup {a}

\* HSET overwrites the fields of an older hash and keeps a running EXPIRE.
StoreHash(j) ==
  hash' = [hash EXCEPT ![j] =
             [exists |-> TRUE, body |-> TRUE, made |-> 0, ttl |-> @.ttl]]

Enqueue(j) ==
  IF Priority[j] > 0
    THEN prioritized' = prioritized \cup {j} /\ UNCHANGED wait
    ELSE wait' = <<j>> \o wait /\ UNCHANGED prioritized

-----------------------------------------------------------------------------
(* PopJob: the moveToActive script.                                        *)

\* A bug: ZRANGE and LINDEX instead of ZPOPMIN and RPOP.
PeekNext(j) ==
  /\ \/ j \in prioritized
     \/ prioritized = {} /\ wait # <<>> /\ j = wait[Len(wait)]
  /\ UNCHANGED <<wait, prioritized>>

\* Scores are priority * 1e12 + now: the least priority first, then the
\* oldest.  Members of equal priority are taken in any order here.
TakeNext(j) ==
  \/ /\ j \in prioritized
     /\ \A k \in prioritized : Priority[j] <= Priority[k]
     /\ prioritized' = prioritized \ {j}
     /\ UNCHANGED wait
  \/ /\ prioritized = {}
     /\ wait # <<>>
     /\ j = wait[Len(wait)]
     /\ wait' = SubSeq(wait, 1, Len(wait) - 1)
     /\ UNCHANGED prioritized

MoveToActive(j) ==
  /\ TakeNext(j)
  /\ active' = [active EXCEPT ![j] = @ + 1]
  /\ UNCHANGED <<hash, issued, delayed, completed, failed>>

-----------------------------------------------------------------------------
(* CompleteJob and FailJob.                                                *)

\* LREM with count 0 removes every occurrence.
RemoveFromActive(j) == active' = [active EXCEPT ![j] = 0]

\* HSET finishedOn and EXPIRE; HSET creates the hash again if it had expired.
KeepForAWhile(j) ==
  hash' = [hash EXCEPT ![j] = [@ EXCEPT !.exists = TRUE, !.ttl = TRUE]]

\* A bug: the retry branch also sets the removeOnFail age.
KeepDelayedForAWhile(j) == KeepForAWhile(j)

\* HSET failedReason, with no EXPIRE.
KeepForRetry(j) == hash' = [hash EXCEPT ![j] = [@ EXCEPT !.exists = TRUE]]

MoveToCompleted(j) ==
  /\ RemoveFromActive(j)
  /\ completed' = completed \cup {j}
  /\ KeepForAWhile(j)
  /\ UNCHANGED <<issued, wait, prioritized, delayed, failed>>

\* A bug: the attempts that are left are counted down.
CountDown(j) ==
  /\ hash' = [hash EXCEPT ![j] = [@ EXCEPT !.exists = TRUE, !.made = hash[j].made - 1]]
  /\ UNCHANGED <<issued, lists>>

\* HINCRBY attemptsMade 1, a round trip of its own.
CountFailure(j) ==
  /\ hash' = [hash EXCEPT ![j] = [@ EXCEPT !.exists = TRUE, !.made = hash[j].made + 1]]
  /\ UNCHANGED <<issued, lists>>

\* A bug: one attempt too many.
RetryLeftInclusive(made, limit) == made <= limit

RetryLeft(made, limit) == made < limit

\* A bug: LREM without ZADD.
DropForRetry(j) ==
  /\ RemoveFromActive(j)
  /\ KeepForRetry(j)
  /\ UNCHANGED <<issued, wait, prioritized, delayed, completed, failed>>

MoveToDelayed(j) ==
  /\ RemoveFromActive(j)
  /\ delayed' = delayed \cup {j}
  /\ KeepForRetry(j)
  /\ UNCHANGED <<issued, wait, prioritized, completed, failed>>

\* A bug: the id is not removed from the active list.
MoveToFailedKeepActive(j) ==
  /\ failed' = failed \cup {j}
  /\ KeepForAWhile(j)
  /\ UNCHANGED <<issued, wait, prioritized, active, delayed, completed>>

MoveToFailed(j) ==
  /\ RemoveFromActive(j)
  /\ failed' = failed \cup {j}
  /\ KeepForAWhile(j)
  /\ UNCHANGED <<issued, wait, prioritized, delayed, completed>>

-----------------------------------------------------------------------------
(* What happens to the queue from outside this repository's code.          *)

\* Redis drops a hash whose EXPIRE has run out (1 h completed, 24 h failed).
Expire(j) ==
  /\ hash[j].ttl
  /\ hash' = [hash EXCEPT ![j] = NoHash]
  /\ UNCHANGED <<issued, lists>>

\* The BullMQ scheduler of the TypeScript layer moves a due job back.
Promote(j) ==
  /\ j \in delayed
  /\ delayed' = delayed \ {j}
  /\ Enqueue(j)
  /\ UNCHANGED <<hash, issued, active, completed, failed>>

=============================================================================
