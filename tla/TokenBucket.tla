------------------------------ MODULE TokenBucket ------------------------------
(***************************************************************************)
(* What the rate limit promises a client: one bucket of tokens for its     *)
(* address, of which it never sees that it is made late, deleted while it  *)
(* is full and made again.  Only a call that was under way when the full   *)
(* bucket was deleted may be answered from the bucket that is gone.        *)
(***************************************************************************)
EXTENDS Integers

CONSTANTS
  Calls, Addresses,
  Address,  \* of each call
  Burst     \* tokens of a full bucket

VARIABLES
  level,    \* tokens in the bucket of each address
  late,     \* calls whose bucket was deleted before they took from it
  outcome,  \* "none" until a call is admitted or refused
  allowed, stray,  \* calls admitted in a window of time, and those by Late
  ticks     \* tokens of time in the window

vars == <<level, late, outcome, allowed, stray, ticks>>

Init ==
  /\ level = [a \in Addresses |-> Burst]
  /\ late = {}
  /\ outcome = [c \in Calls |-> "none"]
  /\ allowed = [a \in Addresses |-> 0]
  /\ stray = [a \in Addresses |-> 0]
  /\ ticks = 0

Pending(c) == outcome[c] = "none"

Decide(c, o) == Pending(c) /\ outcome' = [outcome EXCEPT ![c] = o]

Admit(c) ==
  LET a == Address[c] IN
  /\ c \notin late /\ level[a] > 0
  /\ level' = [level EXCEPT ![a] = @ - 1]
  /\ Decide(c, "admitted")
  /\ allowed' = [allowed EXCEPT ![a] = @ + 1]
  /\ UNCHANGED <<late, stray, ticks>>

Refuse(c) ==
  /\ c \notin late /\ level[Address[c]] = 0
  /\ Decide(c, "refused")
  /\ UNCHANGED <<level, late, allowed, stray, ticks>>

\* A late call takes from no bucket that counts.
Late(c) ==
  LET a == Address[c] IN
  /\ c \in late
  /\ late' = late \ {c}
  /\ \/ /\ Decide(c, "admitted")
        /\ allowed' = [allowed EXCEPT ![a] = @ + 1]
        /\ stray' = [stray EXCEPT ![a] = @ + 1]
     \/ /\ Decide(c, "refused")
        /\ UNCHANGED <<allowed, stray>>
  /\ UNCHANGED <<level, ticks>>

\* Full buckets are deleted, under calls that are on their way to them.
Forget ==
  /\ late' \in SUBSET Calls
  /\ late \subseteq late'
  /\ \A c \in late' \ late : Pending(c) /\ level[Address[c]] = Burst
  /\ UNCHANGED <<level, outcome, allowed, stray, ticks>>

Refill ==
  /\ level' = [a \in Addresses |-> IF level[a] < Burst THEN level[a] + 1 ELSE level[a]]
  /\ ticks' = ticks + 1
  /\ UNCHANGED <<late, outcome, allowed, stray>>

OpenWindow ==
  /\ allowed' = [a \in Addresses |-> 0]
  /\ stray' = [a \in Addresses |-> 0]
  /\ ticks' = 0
  /\ UNCHANGED <<level, late, outcome>>

Next ==
  \/ \E c \in Calls : Admit(c) \/ Refuse(c) \/ Late(c)
  \/ Forget \/ Refill \/ OpenWindow

Spec == Init /\ [][Next]_vars

=============================================================================
