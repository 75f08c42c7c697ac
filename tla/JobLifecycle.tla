----------------------------- MODULE JobLifecycle -----------------------------
(***************************************************************************)
(* What a BullMQ queue promises of the jobs that get their id from its     *)
(* counter: a job waits, is taken by one worker, runs at most opts.attempts *)
(* times, and ends completed, failed or lost.  A job is lost when a worker *)
(* stops holding it without recording a result; no Go code finds it again. *)
(***************************************************************************)
EXTENDS Naturals

CONSTANTS Job, Attempts

VARIABLES
  state,  \* where each job is
  tries   \* how often its handler was called

vars == <<state, tries>>

State == {"new", "waiting", "taken", "running", "delayed",
          "completed", "failed", "lost"}

\* A job with no attempts option still runs once.
Limit(j) == IF Attempts[j] = 0 THEN 1 ELSE Attempts[j]

Init ==
  /\ state = [j \in Job |-> "new"]
  /\ tries = [j \in Job |-> 0]

Move(j, from, to) ==
  /\ state[j] = from
  /\ state' = [state EXCEPT ![j] = to]

Enqueue(j) == Move(j, "new", "waiting") /\ UNCHANGED tries

Take(j) == Move(j, "waiting", "taken") /\ UNCHANGED tries

Run(j) ==
  /\ Move(j, "taken", "running")
  /\ tries[j] < Limit(j)
  /\ tries' = [tries EXCEPT ![j] = @ + 1]

Finish(j) == Move(j, "running", "completed") /\ UNCHANGED tries

Retry(j) ==
  /\ Move(j, "running", "delayed")
  /\ tries[j] < Attempts[j]
  /\ UNCHANGED tries

GiveUp(j) ==
  /\ Move(j, "running", "failed")
  /\ tries[j] >= Attempts[j]
  /\ UNCHANGED tries

Requeue(j) == Move(j, "delayed", "waiting") /\ UNCHANGED tries

\* The reply of the pop was lost on its way to the worker.
Misplace(j) == Move(j, "waiting", "lost") /\ UNCHANGED tries

\* A process that ends loses every job it holds.
Lose(S) ==
  /\ \A j \in S : state[j] \in {"taken", "running"}
  /\ state' = [j \in Job |-> IF j \in S THEN "lost" ELSE state[j]]
  /\ UNCHANGED tries

Next ==
  \/ \E j \in Job :
       \/ Enqueue(j) \/ Take(j) \/ Run(j) \/ Finish(j)
       \/ Retry(j) \/ GiveUp(j) \/ Requeue(j) \/ Misplace(j)
  \/ \E S \in SUBSET Job : Lose(S)

Spec == Init /\ [][Next]_vars

=============================================================================
