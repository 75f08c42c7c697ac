------------------------------ MODULE WorkerLoop ------------------------------
(***************************************************************************)
(* What the worker of a queue promises the process it runs in: it never    *)
(* runs more than Concurrency handlers, takes a job only while its context *)
(* is not done, the one it had taken by then is the last that it starts,   *)
(* and it ends when none of its handlers is running.  Nothing is said of   *)
(* Redis, nor of how the process comes to cancel the context.              *)
(***************************************************************************)
EXTENDS Naturals

CONSTANTS
  Workers,
  Concurrency  \* handlers that a worker runs at once

VARIABLES
  loop,  \* "poll", "slot" with a job that waits for a slot, or "down"
  busy,  \* handlers that each worker is running
  done   \* its context is done

vars == <<loop, busy, done>>

Init ==
  /\ loop \in [Workers -> {"poll", "down"}]
  /\ busy = [w \in Workers |-> 0]
  /\ done = [w \in Workers |-> FALSE]

Moves(w, from, to) == loop[w] = from /\ loop' = [loop EXCEPT ![w] = to]

Take(w) ==
  /\ ~done[w]
  /\ Moves(w, "poll", "slot")
  /\ UNCHANGED <<busy, done>>

StartHandler(w) ==
  /\ busy[w] < Concurrency
  /\ Moves(w, "slot", "poll")
  /\ busy' = [busy EXCEPT ![w] = @ + 1]
  /\ UNCHANGED done

HandlerEnds(w) ==
  /\ busy[w] > 0
  /\ busy' = [busy EXCEPT ![w] = @ - 1]
  /\ UNCHANGED <<loop, done>>

Cancel(w) ==
  /\ loop[w] # "down"
  /\ done' = [done EXCEPT ![w] = TRUE]
  /\ UNCHANGED <<loop, busy>>

Exit(w) ==
  /\ done[w] /\ busy[w] = 0
  /\ Moves(w, "poll", "down")
  /\ UNCHANGED <<busy, done>>

\* The process is killed, and its handlers with it.
Die(w) ==
  /\ loop[w] # "down"
  /\ loop' = [loop EXCEPT ![w] = "down"]
  /\ busy' = [busy EXCEPT ![w] = 0]
  /\ UNCHANGED done

Start(w) ==
  /\ Moves(w, "down", "poll")
  /\ done' = [done EXCEPT ![w] = FALSE]
  /\ UNCHANGED busy

Next ==
  \E w \in Workers :
    \/ Take(w) \/ StartHandler(w) \/ HandlerEnds(w)
    \/ Cancel(w) \/ Exit(w) \/ Die(w) \/ Start(w)

Spec == Init /\ [][Next]_vars

=============================================================================
