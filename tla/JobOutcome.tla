------------------------------ MODULE JobOutcome ------------------------------
(***************************************************************************)
(* What a queue promises those who add jobs and wait for what comes of     *)
(* them: a job that was added stays open until an attempt succeeds or the  *)
(* last one fails, and is given up for no other reason but the end of the  *)
(* worker that holds it.  Nothing is said of lists, workers and retries.   *)
(***************************************************************************)
EXTENDS Naturals

CONSTANTS Job, Attempts

VARIABLES
  phase,    \* of each job: new, open, done, failed or lost
  failures  \* attempts of an open job that have failed

vars == <<phase, failures>>

Open == {j \in Job : phase[j] = "open"}

Init ==
  /\ phase = [j \in Job |-> "new"]
  /\ failures = [j \in Job |-> 0]

Move(j, from, to) == phase[j] = from /\ phase' = [phase EXCEPT ![j] = to]

Reset(j) == failures' = [failures EXCEPT ![j] = 0]

Add(j) == Move(j, "new", "open") /\ UNCHANGED failures

Succeed(j) == Move(j, "open", "done") /\ Reset(j)

\* An attempt fails, and another one will be made.
Fail(j) ==
  /\ phase[j] = "open"
  /\ failures[j] + 1 < Attempts[j]
  /\ failures' = [failures EXCEPT ![j] = @ + 1]
  /\ UNCHANGED phase

\* The last attempt fails.
GiveUp(j) ==
  /\ failures[j] + 1 >= Attempts[j]
  /\ Move(j, "open", "failed")
  /\ Reset(j)

\* A worker ends, and nobody finds the jobs again that it held.
Lose(S) ==
  /\ phase' = [j \in Job |-> IF j \in S THEN "lost" ELSE phase[j]]
  /\ failures' = [j \in Job |-> IF j \in S THEN 0 ELSE failures[j]]

\* What was kept of a finished job expires: its id can be used again.
Forget(j) ==
  /\ phase[j] \in {"done", "failed"}
  /\ phase' = [phase EXCEPT ![j] = "new"]
  /\ UNCHANGED failures

Next ==
  \/ \E j \in Job : Add(j) \/ Succeed(j) \/ Fail(j) \/ GiveUp(j) \/ Forget(j)
  \/ \E S \in SUBSET Open : Lose(S)

Spec == Init /\ [][Next]_vars

=============================================================================
