------------------------------- MODULE RateLimit -------------------------------
(***************************************************************************)
(* The token buckets of the API (internal/api/middleware/ratelimit.go):    *)
(* one for each address, made by the first request from it and deleted by  *)
(* a sweeper when it is full.  ApplyToPrefix calls Middleware for every    *)
(* request, so every request starts a sweeper of its own.                  *)
(*                                                                         *)
(* A step is a critical section of the mutex, or a call of the limiter.    *)
(***************************************************************************)
EXTENDS Integers

CONSTANTS
  Calls,        \* requests under /api/
  Addresses,    \* X-Forwarded-For, X-Real-IP or RemoteAddr
  Address,      \* of each call
  Burst,        \* tokens of a full bucket
  MaxLimiters,  \* bound: limiters that are made for an address
  MaxTicks      \* bound: tokens that are refilled in a window of time

ASSUME RateLimitAssumption ==
  /\ Address \in [Calls -> Addresses]
  /\ Burst \in Nat \ {0} /\ MaxLimiters \in Nat /\ MaxTicks \in Nat

VARIABLES
  limiters,  \* the map: the number of the limiter of each address, 0 for none
  made,      \* how many were made for it
  tokens,    \* tokens of each limiter
  call,      \* [pc, limiter] of each call
  sweepers,  \* calls whose sweeper runs
  allowed,   \* history: calls from each address that were allowed in the window
  ticks,     \* history: tokens of time in the window
  stray      \* history: how many of them through a limiter that had left the map

limitVars == <<limiters, made, tokens, call, sweepers, allowed, ticks, stray>>

Numbers == 1..MaxLimiters

NewCall == [pc |-> "new", limiter |-> 0]

TypeOKLimits ==
  /\ limiters \in [Addresses -> 0..MaxLimiters]
  /\ made \in [Addresses -> 0..MaxLimiters]
  /\ \A a \in Addresses : limiters[a] <= made[a]
  /\ tokens \in [Addresses \X Numbers -> 0..Burst]
  /\ call \in [Calls -> [pc: {"new", "begun", "held", "admitted", "refused"},
                         limiter: 0..MaxLimiters]]
  /\ sweepers \subseteq Calls
  /\ allowed \in [Addresses -> Nat] /\ stray \in [Addresses -> Nat] /\ ticks \in Nat

InitLimits ==
  /\ limiters = [a \in Addresses |-> 0]
  /\ made = [a \in Addresses |-> 0]
  /\ tokens = [l \in Addresses \X Numbers |-> Burst]
  /\ call = [c \in Calls |-> NewCall]
  /\ sweepers = {}
  /\ allowed = [a \in Addresses |-> 0]
  /\ ticks = 0
  /\ stray = [a \in Addresses |-> 0]

\* Middleware, which starts the sweeper, and the handler it returns.
Begin(c) ==
  /\ call[c].pc = "new"
  /\ call' = [call EXCEPT ![c].pc = "begun"]
  /\ sweepers' = sweepers \cup {c}
  /\ UNCHANGED <<limiters, made, tokens, allowed, ticks, stray>>

\* getLimiter of an address that has a limiter.
FindLimiter(c) ==
  /\ call[c].pc = "begun" /\ limiters[Address[c]] # 0
  /\ call' = [call EXCEPT ![c] = [pc |-> "held", limiter |-> limiters[Address[c]]]]
  /\ UNCHANGED <<limiters, made, tokens, sweepers, allowed, ticks, stray>>

\* getLimiter of an address that has none: NewLimiter is full.
MakeLimiter(c) ==
  LET a == Address[c]
      n == made[a] + 1
  IN
  /\ call[c].pc = "begun" /\ limiters[a] = 0 /\ n <= MaxLimiters
  /\ limiters' = [limiters EXCEPT ![a] = n]
  /\ made' = [made EXCEPT ![a] = n]
  /\ call' = [call EXCEPT ![c] = [pc |-> "held", limiter |-> n]]
  /\ UNCHANGED <<tokens, sweepers, allowed, ticks, stray>>

\* Allow.
Allow(c) ==
  LET a == Address[c]
      n == call[c].limiter
  IN
  /\ call[c].pc = "held" /\ tokens[<<a, n>>] > 0
  /\ tokens' = [tokens EXCEPT ![<<a, n>>] = @ - 1]
  /\ allowed' = [allowed EXCEPT ![a] = @ + 1]
  /\ stray' = IF n = limiters[a] THEN stray ELSE [stray EXCEPT ![a] = @ + 1]
  /\ call' = [call EXCEPT ![c].pc = "admitted"]
  /\ UNCHANGED <<limiters, made, sweepers, ticks>>

\* 429.
Refuse(c) ==
  /\ call[c].pc = "held" /\ tokens[<<Address[c], call[c].limiter>>] = 0
  /\ call' = [call EXCEPT ![c].pc = "refused"]
  /\ UNCHANGED <<limiters, made, tokens, sweepers, allowed, ticks, stray>>

\* A bug: a bucket that was used is deleted.
IdleTooSoon(a) == tokens[<<a, limiters[a]>>] > 0

Idle(a) == tokens[<<a, limiters[a]>>] = Burst

\* One round of a sweeper, with the mutex.  Nothing stops a sweeper.
Sweep ==
  /\ sweepers # {}
  /\ \E a \in Addresses : limiters[a] # 0 /\ Idle(a)
  /\ limiters' = [a \in Addresses |->
                    IF limiters[a] # 0 /\ Idle(a) THEN 0 ELSE limiters[a]]
  /\ UNCHANGED <<made, tokens, call, sweepers, allowed, ticks, stray>>

\* 1/rps s: a token more in every bucket that is not full.
Refill ==
  /\ ticks < MaxTicks
  /\ ticks' = ticks + 1
  /\ tokens' = [l \in Addresses \X Numbers |->
                  IF tokens[l] < Burst THEN tokens[l] + 1 ELSE tokens[l]]
  /\ UNCHANGED <<limiters, made, call, sweepers, allowed, stray>>

\* A window of time to look at begins: now.
OpenWindow ==
  /\ ticks # 0
  /\ ticks' = 0
  /\ allowed' = [a \in Addresses |-> 0]
  /\ stray' = [a \in Addresses |-> 0]
  /\ UNCHANGED <<limiters, made, tokens, call, sweepers>>

Limit(c) == Begin(c) \/ FindLimiter(c) \/ MakeLimiter(c) \/ Allow(c) \/ Refuse(c)

-----------------------------------------------------------------------------
\* In no window of time are more calls from one address allowed than a full
\* bucket has and the time refills, whenever sweepers delete its limiter, but
\* for those that held a limiter when it was deleted (Middleware, getLimiter).
RateBound == \A a \in Addresses : allowed[a] <= Burst + ticks + stray[a]

Current(c) == call[c].limiter = limiters[Address[c]]

Bucket == INSTANCE TokenBucket WITH
  level <- [a \in Addresses |-> IF limiters[a] = 0 THEN Burst ELSE tokens[<<a, limiters[a]>>]],
  late <- {c \in Calls : call[c].pc = "held" /\ ~Current(c)},
  outcome <- [c \in Calls |->
                IF call[c].pc \in {"admitted", "refused"} THEN call[c].pc ELSE "none"]

\* Clients see one bucket for their address, as TokenBucket describes it: no
\* order of sweepers, getLimiter and Allow refuses a call while the bucket has
\* tokens or fills the bucket before its time, but for the calls that held a
\* limiter when it was deleted (Middleware, getLimiter).
ImplementsBucket == Bucket!Spec

=============================================================================
