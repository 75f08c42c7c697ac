------------------------------- MODULE ApiProofs -------------------------------
(***************************************************************************)
(* What holds of module Api for any calls, addresses and inputs.  Each of  *)
(* its three parts has an inductive invariant of its own; a step of one    *)
(* leaves the variables of the others alone.                               *)
(***************************************************************************)
EXTENDS Api, FiniteSetTheorems, TLAPS

-----------------------------------------------------------------------------
(* The token buckets: what was allowed and what is left in the bucket of an *)
(* address come from a full bucket and the time.                           *)

Budget(a) ==
  IF limiters[a] = 0
    THEN allowed[a] <= ticks + stray[a]
    ELSE allowed[a] + tokens[<<a, limiters[a]>>] <= Burst + ticks + stray[a]

LimitInv ==
  /\ TypeOKLimits
  /\ \A a \in Addresses : Budget(a)
  /\ \A a \in Addresses, n \in Numbers : n > made[a] => tokens[<<a, n>>] = Burst
  /\ \A c \in Calls : call[c].pc = "held" => call[c].limiter \in 1..made[Address[c]]

LEMMA LimitInit == InitLimits => LimitInv
  BY RateLimitAssumption, SMTT(30)
     DEF InitLimits, LimitInv, TypeOKLimits, Budget, Numbers, NewCall

\* Every call of the limiter, every round of a sweeper and every tick keeps the
\* budget of every address.
LEMMA LimitNext ==
  ASSUME LimitInv, [(\E c \in Calls : Limit(c)) \/ Sweep \/ Refill \/ OpenWindow]_limitVars
  PROVE  LimitInv'
<1>1. ASSUME NEW c \in Calls, Begin(c) PROVE LimitInv'
  BY RateLimitAssumption, <1>1, SMTT(30)
     DEF Begin, LimitInv, TypeOKLimits, Budget, Numbers
<1>2. ASSUME NEW c \in Calls, FindLimiter(c) PROVE LimitInv'
  BY RateLimitAssumption, <1>2, SMTT(30)
     DEF FindLimiter, LimitInv, TypeOKLimits, Budget, Numbers
<1>3. ASSUME NEW c \in Calls, MakeLimiter(c) PROVE LimitInv'
  <2>1. PICK a \in Addresses, n \in Numbers :
          /\ a = Address[c] /\ n = made[a] + 1 /\ limiters[a] = 0
          /\ limiters' = [limiters EXCEPT ![a] = n] /\ made' = [made EXCEPT ![a] = n]
          /\ call' = [call EXCEPT ![c] = [pc |-> "held", limiter |-> n]]
    <3>1. Address[c] \in Addresses
      BY RateLimitAssumption
    <3>2. made[Address[c]] + 1 \in Numbers
      <4>1. made[Address[c]] \in 0..MaxLimiters
        BY <3>1 DEF LimitInv, TypeOKLimits
      <4>2. made[Address[c]] + 1 <= MaxLimiters
        BY <1>3 DEF MakeLimiter
      <4> QED
        BY <4>1, <4>2, RateLimitAssumption DEF Numbers
    <3> QED
      BY <1>3, <3>1, <3>2 DEF MakeLimiter
  <2>2. UNCHANGED <<tokens, sweepers, allowed, ticks, stray>>
    BY <1>3 DEF MakeLimiter
  <2>3. tokens[<<a, n>>] = Burst /\ made[a] \in Nat
    BY <2>1, RateLimitAssumption DEF LimitInv, TypeOKLimits, Numbers
  <2>4. TypeOKLimits'
    BY <2>1, <2>2, RateLimitAssumption, SMTT(30) DEF LimitInv, TypeOKLimits, Numbers
  <2>5. ASSUME NEW b \in Addresses PROVE Budget(b)'
    <3>1. CASE b = a
      <4>1. allowed[a] <= ticks + stray[a]
        BY <2>1 DEF LimitInv, Budget
      <4>2. limiters'[b] = n /\ n # 0
        BY <2>1, <3>1 DEF LimitInv, TypeOKLimits, Numbers
      <4>3. allowed[a] \in Nat /\ ticks \in Nat /\ stray[a] \in Nat
        BY DEF LimitInv, TypeOKLimits
      <4> QED
        BY <2>2, <2>3, <3>1, <4>1, <4>2, <4>3, RateLimitAssumption DEF Budget
    <3>2. CASE b # a
      <4>1. limiters'[b] = limiters[b]
        BY <2>1, <3>2 DEF LimitInv, TypeOKLimits
      <4> QED
        BY <2>2, <4>1 DEF LimitInv, Budget
    <3> QED
      BY <3>1, <3>2
  <2>6. (\A b \in Addresses, m \in Numbers : m > made[b] => tokens[<<b, m>>] = Burst)'
    BY <2>1, <2>2, <2>3, RateLimitAssumption, SMTT(30) DEF LimitInv, TypeOKLimits, Numbers
  <2>7. (\A d \in Calls : call[d].pc = "held" => call[d].limiter \in 1..made[Address[d]])'
    BY <2>1, <2>3, RateLimitAssumption, SMTT(30) DEF LimitInv, TypeOKLimits, Numbers
  <2> QED
    BY <2>4, <2>5, <2>6, <2>7 DEF LimitInv
<1>4. ASSUME NEW c \in Calls, Allow(c) PROVE LimitInv'
  BY RateLimitAssumption, <1>4, SMTT(30)
     DEF Allow, LimitInv, TypeOKLimits, Budget, Numbers
<1>5. ASSUME NEW c \in Calls, Refuse(c) PROVE LimitInv'
  BY RateLimitAssumption, <1>5, SMTT(30)
     DEF Refuse, LimitInv, TypeOKLimits, Budget, Numbers
<1>6. CASE Sweep
  BY RateLimitAssumption, <1>6, SMTT(30)
     DEF Sweep, Idle, LimitInv, TypeOKLimits, Budget, Numbers
<1>7. CASE Refill
  BY RateLimitAssumption, <1>7, SMTT(30)
     DEF Refill, LimitInv, TypeOKLimits, Budget, Numbers
<1>8. CASE OpenWindow
  BY RateLimitAssumption, <1>8, SMTT(30)
     DEF OpenWindow, LimitInv, TypeOKLimits, Budget, Numbers
<1>9. CASE UNCHANGED limitVars
  BY RateLimitAssumption, <1>9, SMTT(30)
     DEF limitVars, LimitInv, TypeOKLimits, Budget, Numbers
<1> QED
  BY <1>1, <1>2, <1>3, <1>4, <1>5, <1>6, <1>7, <1>8, <1>9 DEF Limit

LEMMA LimitSafe == LimitInv => RateBound
<1> SUFFICES ASSUME LimitInv, NEW a \in Addresses
             PROVE  allowed[a] <= Burst + ticks + stray[a]
  BY DEF RateBound
<1>1. Budget(a) /\ allowed[a] \in Nat /\ ticks \in Nat /\ stray[a] \in Nat
  BY DEF LimitInv, TypeOKLimits
<1>2. CASE limiters[a] = 0
  BY <1>1, <1>2, RateLimitAssumption DEF Budget
<1>3. CASE limiters[a] # 0
  <2>1. <<a, limiters[a]>> \in Addresses \X Numbers
    BY <1>3, RateLimitAssumption DEF LimitInv, TypeOKLimits, Numbers
  <2>2. tokens[<<a, limiters[a]>>] \in 0..Burst
    BY <2>1 DEF LimitInv, TypeOKLimits
  <2> QED
    BY <1>1, <1>3, <2>2, RateLimitAssumption DEF Budget
<1> QED
  BY <1>2, <1>3

-----------------------------------------------------------------------------
(* The refinement of TokenBucket: which bucket a client sees.              *)

Level(a) == IF limiters[a] = 0 THEN Burst ELSE tokens[<<a, limiters[a]>>]
IsLate(c) == call[c].pc = "held" /\ ~Current(c)
Outcome(c) == IF call[c].pc \in {"admitted", "refused"} THEN call[c].pc ELSE "none"

BucketStep == [Bucket!Next]_(Bucket!vars)

\* A step that no client sees.
LEMMA BucketSame ==
  ASSUME \A a \in Addresses : Level(a)' = Level(a),
         \A c \in Calls : (IsLate(c)' <=> IsLate(c)) /\ Outcome(c)' = Outcome(c),
         UNCHANGED <<allowed, stray, ticks>>
  PROVE  BucketStep
<1>1. [a \in Addresses |-> Level(a)]' = [a \in Addresses |-> Level(a)]
  OBVIOUS
<1>2. {c \in Calls : IsLate(c)}' = {c \in Calls : IsLate(c)}
  OBVIOUS
<1>3. [c \in Calls |-> Outcome(c)]' = [c \in Calls |-> Outcome(c)]
  OBVIOUS
<1> QED
  BY <1>1, <1>2, <1>3 DEF BucketStep, Bucket!vars, Level, IsLate, Outcome

\* The answer of one call, and what becomes of its lateness.
LEMMA CallAnswered ==
  ASSUME LimitInv, NEW c \in Calls, NEW o \in {"admitted", "refused"},
         call[c].pc = "held", limiters' = limiters,
         call' = [call EXCEPT ![c].pc = o]
  PROVE  /\ Outcome(c) = "none"
         /\ [d \in Calls |-> Outcome(d)]' = [[d \in Calls |-> Outcome(d)] EXCEPT ![c] = o]
         /\ {d \in Calls : IsLate(d)}' = {d \in Calls : IsLate(d)} \ {c}
<1>1. call \in [Calls -> [pc: {"new", "begun", "held", "admitted", "refused"}, limiter: 0..MaxLimiters]]
  BY DEF LimitInv, TypeOKLimits
<1>2. call'[c].pc = o /\ \A d \in Calls \ {c} : call'[d] = call[d]
  BY <1>1
<1>3. Outcome(c) = "none" /\ Outcome(c)' = o /\ ~IsLate(c)'
  BY <1>2 DEF Outcome, IsLate
<1>4. \A d \in Calls \ {c} : Outcome(d)' = Outcome(d) /\ (IsLate(d)' <=> IsLate(d))
  BY <1>2 DEF Outcome, IsLate, Current
<1> QED
  BY <1>3, <1>4

\* Whoever asks for a limiter gets the one that counts, and a new one is as
\* full as the one that was deleted.
LEMMA GetLimiterHidden ==
  ASSUME LimitInv, NEW c \in Calls, Begin(c) \/ FindLimiter(c) \/ MakeLimiter(c)
  PROVE  BucketStep
<1>t. /\ call \in [Calls -> [pc: {"new", "begun", "held", "admitted", "refused"}, limiter: 0..MaxLimiters]]
      /\ limiters \in [Addresses -> 0..MaxLimiters] /\ made \in [Addresses -> 0..MaxLimiters]
      /\ tokens \in [Addresses \X Numbers -> 0..Burst]
      /\ Address \in [Calls -> Addresses] /\ MaxLimiters \in Nat
  BY RateLimitAssumption DEF LimitInv, TypeOKLimits
<1>1. /\ UNCHANGED <<tokens, allowed, stray, ticks>>
      /\ \A d \in Calls \ {c} : call'[d] = call[d]
      /\ call[c].pc \in {"new", "begun"} /\ call'[c].pc \in {"begun", "held"}
  BY <1>t DEF Begin, FindLimiter, MakeLimiter
<1>2. CASE Begin(c) \/ FindLimiter(c)
  <2>1. limiters' = limiters /\ ~IsLate(c)'
    BY <1>t, <1>2 DEF Begin, FindLimiter, IsLate, Current
  <2>2. \A d \in Calls : (IsLate(d)' <=> IsLate(d)) /\ Outcome(d)' = Outcome(d)
    BY <1>1, <2>1 DEF IsLate, Current, Outcome
  <2> QED
    BY <1>1, <2>1, <2>2, BucketSame DEF Level
<1>3. CASE MakeLimiter(c)
  <2>1. PICK a \in Addresses, n \in Numbers :
          /\ a = Address[c] /\ n = made[a] + 1 /\ limiters[a] = 0
          /\ limiters' = [limiters EXCEPT ![a] = n]
          /\ call' = [call EXCEPT ![c] = [pc |-> "held", limiter |-> n]]
    <3>1. Address[c] \in Addresses /\ made[Address[c]] \in 0..MaxLimiters
      BY <1>t
    <3>2. made[Address[c]] + 1 \in Numbers
      BY <1>t, <1>3, <3>1 DEF MakeLimiter, Numbers
    <3> QED
      BY <1>3, <3>1, <3>2 DEF MakeLimiter
  <2>2. limiters'[a] = n /\ n # 0 /\ \A b \in Addresses \ {a} : limiters'[b] = limiters[b]
    BY <1>t, <2>1 DEF Numbers
  <2>3. tokens[<<a, n>>] = Burst
    BY <1>t, <2>1 DEF LimitInv, Numbers
  <2>4. \A b \in Addresses : Level(b)' = Level(b)
    BY <1>1, <2>1, <2>2, <2>3 DEF Level
  <2>5. ~IsLate(c)' /\ ~IsLate(c) /\ Outcome(c)' = Outcome(c)
    BY <1>t, <1>1, <2>1, <2>2 DEF IsLate, Current, Outcome
  <2>6. ASSUME NEW d \in Calls \ {c} PROVE (IsLate(d)' <=> IsLate(d)) /\ Outcome(d)' = Outcome(d)
    <3>1. call'[d] = call[d] /\ Address[d] \in Addresses
      BY <1>t, <1>1
    <3>2. call[d].pc = "held" => call[d].limiter \in 1..made[Address[d]]
      BY DEF LimitInv
    <3>3. made[a] \in Nat
      BY <1>t
    <3>4. call[d].pc = "held" /\ Address[d] = a => call[d].limiter # 0 /\ call[d].limiter # n
      BY <2>1, <3>2, <3>3
    <3> QED
      BY <2>1, <2>2, <3>1, <3>4 DEF IsLate, Current, Outcome
  <2> QED
    BY <1>1, <2>4, <2>5, <2>6, BucketSame
<1> QED
  BY <1>2, <1>3

\* Allow takes from the bucket that the client sees, or from one that is gone.
LEMMA AllowSeen ==
  ASSUME LimitInv, NEW c \in Calls, Allow(c) \/ Refuse(c)
  PROVE  BucketStep
<1> DEFINE a == Address[c]
           n == call[c].limiter
           l == <<a, n>>
<1>t. /\ a \in Addresses /\ limiters \in [Addresses -> 0..MaxLimiters]
      /\ tokens \in [Addresses \X Numbers -> 0..Burst] /\ MaxLimiters \in Nat
      /\ made \in [Addresses -> 0..MaxLimiters]
      /\ allowed \in [Addresses -> Nat] /\ stray \in [Addresses -> Nat]
  BY RateLimitAssumption DEF LimitInv, TypeOKLimits
<1>1. call[c].pc = "held" /\ limiters' = limiters /\ ticks' = ticks
  BY DEF Allow, Refuse
<1>2. n \in Numbers /\ n # 0
  <2>1. n \in 1..made[a] /\ made[a] \in 0..MaxLimiters
    BY <1>t, <1>1 DEF LimitInv
  <2> QED
    BY <1>t, <2>1 DEF Numbers
<1>3. l \in Addresses \X Numbers
  BY <1>t, <1>2
<1>4. IsLate(c) <=> n # limiters[a]
  BY <1>1 DEF IsLate, Current
<1>5. n = limiters[a] => Level(a) = tokens[l]
  BY <1>2 DEF Level
<1> DEFINE lv == [b \in Addresses |-> Level(b)]
           lt == {d \in Calls : IsLate(d)}
           oc == [d \in Calls |-> Outcome(d)]
<1>6. lv[a] = Level(a) /\ (c \in lt <=> IsLate(c))
  BY <1>t
<1>7. CASE Allow(c)
  <2>1. /\ tokens' = [tokens EXCEPT ![l] = @ - 1] /\ tokens[l] > 0
        /\ allowed' = [allowed EXCEPT ![a] = @ + 1]
        /\ stray' = IF n = limiters[a] THEN stray ELSE [stray EXCEPT ![a] = @ + 1]
        /\ call' = [call EXCEPT ![c].pc = "admitted"]
    BY <1>7 DEF Allow
  <2>2. Outcome(c) = "none" /\ oc' = [oc EXCEPT ![c] = "admitted"] /\ lt' = lt \ {c}
    BY <1>1, <2>1, CallAnswered
  <2>3. CASE n = limiters[a]
    <3>1. Level(a)' = Level(a) - 1
      BY <1>1, <1>2, <1>3, <1>t, <2>1, <2>3 DEF Level
    <3>2. \A b \in Addresses \ {a} : Level(b)' = Level(b)
      <4> SUFFICES ASSUME NEW b \in Addresses \ {a} PROVE Level(b)' = Level(b)
        OBVIOUS
      <4>1. limiters[b] # 0 => <<b, limiters[b]>> \in Addresses \X Numbers /\ <<b, limiters[b]>> # l
        BY <1>t DEF Numbers
      <4> QED
        BY <1>1, <1>3, <1>t, <2>1, <4>1 DEF Level
    <3>3. lv' = [lv EXCEPT ![a] = @ - 1]
      BY <1>6, <3>1, <3>2
    <3>4. lt' = lt /\ c \notin lt /\ lv[a] > 0 /\ stray' = stray
      BY <1>4, <1>5, <1>6, <2>1, <2>2, <2>3
    <3>5. Bucket!Admit(c)
      BY <1>1, <2>1, <2>2, <3>3, <3>4
      DEF Bucket!Admit, Bucket!Decide, Bucket!Pending, Level, IsLate, Outcome
    <3> QED
      BY <3>5 DEF BucketStep, Bucket!Next
  <2>4. CASE n # limiters[a]
    <3>1. \A b \in Addresses : Level(b)' = Level(b)
      <4> SUFFICES ASSUME NEW b \in Addresses PROVE Level(b)' = Level(b)
        OBVIOUS
      <4>1. limiters[b] # 0 => <<b, limiters[b]>> \in Addresses \X Numbers /\ <<b, limiters[b]>> # l
        BY <1>t, <2>4 DEF Numbers
      <4> QED
        BY <1>1, <1>3, <1>t, <2>1, <4>1 DEF Level
    <3>2. lv' = lv /\ c \in lt
      BY <1>4, <1>6, <2>4, <3>1
    <3>3. Bucket!Late(c)
      BY <1>1, <2>1, <2>2, <2>4, <3>2
      DEF Bucket!Late, Bucket!Decide, Bucket!Pending, Level, IsLate, Outcome
    <3> QED
      BY <3>3 DEF BucketStep, Bucket!Next
  <2> QED
    BY <2>3, <2>4
<1>8. CASE Refuse(c)
  <2>1. /\ tokens' = tokens /\ tokens[l] = 0 /\ UNCHANGED <<allowed, stray>>
        /\ call' = [call EXCEPT ![c].pc = "refused"]
    BY <1>8 DEF Refuse
  <2>2. Outcome(c) = "none" /\ oc' = [oc EXCEPT ![c] = "refused"] /\ lt' = lt \ {c}
    BY <1>1, <2>1, CallAnswered
  <2>3. lv' = lv
    BY <1>1, <2>1 DEF Level
  <2>4. CASE n = limiters[a]
    <3>1. lt' = lt /\ c \notin lt /\ lv[a] = 0
      BY <1>4, <1>5, <1>6, <2>1, <2>2, <2>4
    <3>2. Bucket!Refuse(c)
      BY <1>1, <2>1, <2>2, <2>3, <3>1
      DEF Bucket!Refuse, Bucket!Decide, Bucket!Pending, Level, IsLate, Outcome
    <3> QED
      BY <3>2 DEF BucketStep, Bucket!Next
  <2>5. CASE n # limiters[a]
    <3>1. c \in lt
      BY <1>4, <1>6, <2>5
    <3>2. Bucket!Late(c)
      BY <1>1, <2>1, <2>2, <2>3, <3>1
      DEF Bucket!Late, Bucket!Decide, Bucket!Pending, Level, IsLate, Outcome
    <3> QED
      BY <3>2 DEF BucketStep, Bucket!Next
  <2> QED
    BY <2>4, <2>5
<1> QED
  BY <1>7, <1>8

\* A sweeper forgets full buckets, and time fills the ones that are seen.
LEMMA SweepHidden ==
  ASSUME LimitInv, Sweep \/ Refill \/ OpenWindow
  PROVE  BucketStep
<1>t. /\ limiters \in [Addresses -> 0..MaxLimiters] /\ MaxLimiters \in Nat
      /\ tokens \in [Addresses \X Numbers -> 0..Burst] /\ Burst \in Nat
      /\ Address \in [Calls -> Addresses]
  BY RateLimitAssumption DEF LimitInv, TypeOKLimits
<1> DEFINE lv == [b \in Addresses |-> Level(b)]
           lt == {d \in Calls : IsLate(d)}
           oc == [d \in Calls |-> Outcome(d)]
<1>1. CASE Sweep
  <2>1. /\ \A b \in Addresses :
             \/ limiters[b] # 0 /\ Idle(b) /\ limiters'[b] = 0
             \/ limiters'[b] = limiters[b]
        /\ UNCHANGED <<tokens, call, allowed, ticks, stray>>
    BY <1>1 DEF Sweep
  <2>2. \A b \in Addresses : Level(b)' = Level(b)
    BY <2>1 DEF Level, Idle
  <2>3. \A d \in Calls : IsLate(d) => IsLate(d)'
    <3> SUFFICES ASSUME NEW d \in Calls, IsLate(d) PROVE IsLate(d)'
      OBVIOUS
    <3>1. Address[d] \in Addresses /\ call[d].limiter # 0
      BY <1>t DEF LimitInv, IsLate
    <3> QED
      BY <2>1, <3>1 DEF IsLate, Current
  <2>4. \A d \in Calls : IsLate(d)' /\ ~IsLate(d) => Outcome(d) = "none" /\ Level(Address[d]) = Burst
    <3> SUFFICES ASSUME NEW d \in Calls, IsLate(d)', ~IsLate(d)
                 PROVE  Outcome(d) = "none" /\ Level(Address[d]) = Burst
      OBVIOUS
    <3>1. call[d].pc = "held" /\ limiters'[Address[d]] # limiters[Address[d]]
      BY <2>1 DEF IsLate, Current
    <3>2. Idle(Address[d])
      BY <1>t, <2>1, <3>1
    <3> QED
      BY <3>1, <3>2 DEF Outcome, Level, Idle
  <2>5. lv' = lv /\ oc' = oc
    BY <2>1, <2>2 DEF Outcome
  <2>6. /\ lt' \in SUBSET Calls /\ lt \subseteq lt'
        /\ \A d \in lt' \ lt : oc[d] = "none" /\ lv[Address[d]] = Burst
    BY <1>t, <2>3, <2>4
  <2>7. Bucket!Forget
    BY <2>1, <2>5, <2>6 DEF Bucket!Forget, Bucket!Pending, Level, IsLate, Outcome
  <2> QED
    BY <2>7 DEF BucketStep, Bucket!Next
<1>2. CASE Refill
  <2>1. /\ ticks' = ticks + 1 /\ UNCHANGED <<limiters, call, allowed, stray>>
        /\ \A l \in Addresses \X Numbers :
             tokens'[l] = IF tokens[l] < Burst THEN tokens[l] + 1 ELSE tokens[l]
    BY <1>2 DEF Refill
  <2>2. \A b \in Addresses : Level(b)' = IF Level(b) < Burst THEN Level(b) + 1 ELSE Level(b)
    <3> SUFFICES ASSUME NEW b \in Addresses
                 PROVE  Level(b)' = IF Level(b) < Burst THEN Level(b) + 1 ELSE Level(b)
      OBVIOUS
    <3>1. limiters[b] # 0 => <<b, limiters[b]>> \in Addresses \X Numbers
      BY <1>t DEF Numbers
    <3> QED
      BY <1>t, <2>1, <3>1 DEF Level
  <2>3. lv' = [b \in Addresses |-> IF lv[b] < Burst THEN lv[b] + 1 ELSE lv[b]]
    BY <2>2
  <2>4. lt' = lt /\ oc' = oc
    BY <2>1 DEF IsLate, Current, Outcome
  <2>5. Bucket!Refill
    BY <2>1, <2>3, <2>4 DEF Bucket!Refill, Level, IsLate, Outcome
  <2> QED
    BY <2>5 DEF BucketStep, Bucket!Next
<1>3. CASE OpenWindow
  <2>1. lv' = lv /\ lt' = lt /\ oc' = oc
    BY <1>3 DEF OpenWindow, Level, IsLate, Current, Outcome
  <2>2. Bucket!OpenWindow
    BY <1>3, <2>1 DEF OpenWindow, Bucket!OpenWindow, Level, IsLate, Outcome
  <2> QED
    BY <2>2 DEF BucketStep, Bucket!Next
<1> QED
  BY <1>1, <1>2, <1>3

LEMMA BucketNext ==
  ASSUME LimitInv, [(\E c \in Calls : Limit(c)) \/ Sweep \/ Refill \/ OpenWindow]_limitVars
  PROVE  BucketStep
<1>1. CASE UNCHANGED limitVars
  BY <1>1, BucketSame DEF limitVars, Level, IsLate, Current, Outcome
<1> QED
  BY <1>1, GetLimiterHidden, AllowSeen, SweepHidden DEF Limit

LEMMA BucketInit == InitLimits => Bucket!Init
<1> SUFFICES ASSUME InitLimits PROVE Bucket!Init
  OBVIOUS
<1> QED
  BY RateLimitAssumption DEF InitLimits, NewCall, Bucket!Init

-----------------------------------------------------------------------------
(* Accounts: a user without a profile is in an open transaction, of the    *)
(* call that is between the two INSERTs.                                   *)

AccountInv ==
  /\ TypeOKAccounts
  /\ AccountsWhole
  /\ open \subseteq users
  /\ \A c \in Signups : c \in open <=> signup[c] = "inserted"
  /\ \A c \in users : signup[c] \in {"inserted", "created", "error"}
  /\ \A u, v \in users : u # v => Email[u] # Email[v]

LEMMA AccountInit == InitAccounts => AccountInv
  BY DEF InitAccounts, AccountInv, TypeOKAccounts, AccountsWhole, Answers, WithEmail, WithUsername

\* Neither a lost race nor a lost connection leaves half an account.
LEMMA AccountNext ==
  ASSUME AccountInv, NEW c \in Signups, CreateEmailUser(c) \/ SignupFails(c)
  PROVE  AccountInv'
<1> USE DEF AccountInv, TypeOKAccounts, AccountsWhole, Answers, WithEmail, WithUsername, Answer
<1>1. CASE CheckEmail(c)
  BY <1>1, SMTT(30) DEF CheckEmail
<1>2. CASE CheckUsername(c)
  BY <1>2, SMTT(30) DEF CheckUsername
<1>3. CASE CreateUser(c)
  BY <1>3, SMTT(30) DEF CreateUser
<1>4. CASE CreateProfile(c)
  BY <1>4, SMTT(30) DEF CreateProfile
<1>5. CASE SignupFails(c)
  BY <1>5, SMTT(30) DEF SignupFails
<1> QED
  BY <1>1, <1>2, <1>3, <1>4, <1>5 DEF CreateEmailUser

LEMMA AccountStutter == AccountInv /\ UNCHANGED accountVars => AccountInv'
  BY SMTT(30) DEF AccountInv, TypeOKAccounts, AccountsWhole, Answers, WithEmail, WithUsername,
                  accountVars

-----------------------------------------------------------------------------
(* The refinement of AtomicSignup: the account is made by the step that    *)
(* commits it, when email and username are still free.                     *)

Told(c) == IF signup[c] \in Answers THEN signup[c] ELSE "none"

SignupAtomicStep == [Atomic!Next]_(Atomic!vars)

\* A step that answers nobody.
LEMMA Untold ==
  ASSUME AccountInv, NEW c \in Signups, NEW next \in {"newEmail", "newName", "inserted"},
         signup[c] \notin Answers, Answer(c, next), profiles' = profiles
  PROVE  SignupAtomicStep
<1>1. \A d \in Signups : Told(d)' = Told(d)
  BY DEF Told, Answer, Answers, AccountInv, TypeOKAccounts
<1> QED
  BY <1>1 DEF SignupAtomicStep, Atomic!vars, Told

\* A step that answers one call.
LEMMA Answered ==
  ASSUME AccountInv, NEW c \in Signups, NEW a \in Answers, signup[c] \notin Answers, Answer(c, a)
  PROVE  Atomic!Give(c, a)
<1> DEFINE tell == [d \in Signups |-> Told(d)]
<1>1. tell[c] = "none" /\ tell' = [tell EXCEPT ![c] = a]
  BY DEF Told, Answer, AccountInv, TypeOKAccounts
<1> QED
  BY <1>1 DEF Atomic!Give, Told

\* A call with both INSERTs done, the second while the username is free, opens
\* an account whose email nobody has: its user is in the table.
LEMMA Opened ==
  ASSUME AccountInv, NEW c \in Signups, signup[c] = "inserted",
         WithUsername(c, profiles) = {}, profiles' = profiles \cup {c}
  PROVE  Atomic!Open(c)
<1>1. c \in users /\ c \in open /\ users \ open = profiles
  BY DEF AccountInv, AccountsWhole
<1>2. \A u \in profiles : u # c /\ Email[u] # Email[c]
  BY <1>1 DEF AccountInv
<1>3. \A u \in profiles : Username[u] # Username[c]
  BY DEF WithUsername
<1> QED
  BY <1>2, <1>3 DEF Atomic!Open, Atomic!EmailTaken, Atomic!UsernameTaken

LEMMA SignupNext ==
  ASSUME AccountInv, NEW c \in Signups, CreateEmailUser(c) \/ SignupFails(c)
  PROVE  SignupAtomicStep
<1>0. profiles = users \ open
  BY DEF AccountInv, AccountsWhole
<1> USE DEF Answers
<1>1. CASE CheckEmail(c)
  <2>1. CASE WithEmail(c, users \ open) = {}
    BY <1>1, <2>1, Untold DEF CheckEmail
  <2>2. CASE WithEmail(c, users \ open) # {}
    <3>1. Atomic!Give(c, "UserAlreadyExists") /\ profiles' = profiles
      BY <1>1, <2>2, Answered DEF CheckEmail
    <3>2. Atomic!EmailTaken(c)
      BY <1>0, <2>2 DEF WithEmail, Atomic!EmailTaken
    <3> QED
      BY <3>1, <3>2 DEF SignupAtomicStep, Atomic!Next, Atomic!TurnAway
  <2> QED
    BY <2>1, <2>2
<1>2. CASE CheckUsername(c)
  <2>1. CASE WithUsername(c, profiles \ open) = {}
    BY <1>2, <2>1, Untold DEF CheckUsername
  <2>2. CASE WithUsername(c, profiles \ open) # {}
    <3>1. Atomic!Give(c, "UsernameTaken") /\ profiles' = profiles
      BY <1>2, <2>2, Answered DEF CheckUsername
    <3>2. Atomic!UsernameTaken(c)
      BY <2>2 DEF WithUsername, Atomic!UsernameTaken
    <3> QED
      BY <3>1, <3>2 DEF SignupAtomicStep, Atomic!Next, Atomic!TurnAway
  <2> QED
    BY <2>1, <2>2
<1>3. ASSUME Answer(c, "error"), signup[c] \notin Answers,
             Atomic!Open(c) \/ profiles' = profiles
      PROVE  SignupAtomicStep
  <2>1. Atomic!Give(c, "error")
    BY <1>3, Answered
  <2> QED
    BY <1>3, <2>1 DEF SignupAtomicStep, Atomic!Next, Atomic!BreakDown
<1>4. CASE CreateUser(c)
  <2>1. CASE Answer(c, "inserted")
    BY <1>4, <2>1, Untold DEF CreateUser
  <2> QED
    BY <1>3, <1>4, <2>1 DEF CreateUser
<1>5. CASE CreateProfile(c)
  <2>1. CASE WithUsername(c, profiles) = {}
    <3>1. profiles' = profiles \cup {c} /\ Answer(c, "created") /\ signup[c] = "inserted"
      BY <1>5, <2>1 DEF CreateProfile
    <3>2. Atomic!Open(c) /\ Atomic!Give(c, "created")
      BY <2>1, <3>1, Opened, Answered
    <3> QED
      BY <3>2 DEF SignupAtomicStep, Atomic!Next, Atomic!SignUp
  <2>2. CASE WithUsername(c, profiles) # {}
    BY <1>3, <1>5, <2>2 DEF CreateProfile
  <2> QED
    BY <2>1, <2>2
<1>6. CASE SignupFails(c)
  BY <1>3, <1>6, Opened DEF SignupFails
<1> QED
  BY <1>1, <1>2, <1>4, <1>5, <1>6 DEF CreateEmailUser

LEMMA SignupStutter == UNCHANGED accountVars => SignupAtomicStep
  BY DEF accountVars, SignupAtomicStep, Atomic!vars

LEMMA SignupInit == InitAccounts => Atomic!Init
  BY DEF InitAccounts, Atomic!Init, Answers

-----------------------------------------------------------------------------
(* Subscriptions: whoever has counted, and nobody has added a feed since,  *)
(* finds room.                                                             *)

SubscriptionInv ==
  /\ TypeOKSubscriptions
  /\ QuotaKept
  /\ \A c \in Counted \ stale : Cardinality(Active) < Quota
  /\ \A c \in excess : subscribe[c] = "success"

LEMMA ActiveFinite == IsFiniteSet(Active) /\ Cardinality(Active) \in Nat
  BY SubscriptionsAssumption, FS_Subset, FS_CardinalityType DEF Active

LEMMA ExcessFinite ==
  ASSUME TypeOKSubscriptions PROVE IsFiniteSet(excess) /\ Cardinality(excess) \in Nat
  BY SubscriptionsAssumption, FS_Subset, FS_CardinalityType DEF TypeOKSubscriptions

LEMMA SubscriptionInit == InitSubscriptions => SubscriptionInv
<1> SUFFICES ASSUME InitSubscriptions PROVE SubscriptionInv
  OBVIOUS
<1>1. Active = {} /\ Counted = {}
  BY DEF InitSubscriptions, Active, Counted
<1>2. Cardinality({}) = 0
  BY FS_EmptySet
<1> QED
  BY <1>1, <1>2, SubscriptionsAssumption
     DEF InitSubscriptions, SubscriptionInv, TypeOKSubscriptions, QuotaKept

\* A feed that becomes active adds one to the feeds that are.
LEMMA AddFeed ==
  ASSUME TypeOKSubscriptions, NEW u \in Urls, feeds[u] # "ACTIVE",
         feeds' = [feeds EXCEPT ![u] = "ACTIVE"]
  PROVE  Cardinality(Active') = Cardinality(Active) + 1
<1>1. Active' = Active \cup {u} /\ u \notin Active
  BY DEF Active, TypeOKSubscriptions
<1> QED
  BY <1>1, ActiveFinite, FS_AddElement

LEMMA AddExcess ==
  ASSUME TypeOKSubscriptions, NEW c \in Subscribers, c \notin excess, excess' = excess \cup {c}
  PROVE  Cardinality(excess') = Cardinality(excess) + 1
  BY ExcessFinite, FS_AddElement

LEMMA SubscribeTypes ==
  ASSUME TypeOKSubscriptions, NEW c \in Subscribers, Subscribe(c)
  PROVE  TypeOKSubscriptions'
<1> USE SubscriptionsAssumption DEF TypeOKSubscriptions, Reply
<1>1. CASE FindRSSByUserAndURLs(c)
  BY <1>1, SMTT(30) DEF FindRSSByUserAndURLs
<1>2. CASE CountActiveRSSByUser(c)
  BY <1>2, SMTT(30) DEF CountActiveRSSByUser
<1>3. CASE Reactivate(c)
  BY <1>3, SMTT(30) DEF Reactivate, Counted
<1>4. CASE SaveNew(c)
  BY <1>4, SMTT(30) DEF SaveNew, Counted
<1> QED
  BY <1>1, <1>2, <1>3, <1>4 DEF Subscribe

\* Whatever a call of Subscribe does, the room it counted on is there or its
\* excess is recorded.
LEMMA SubscribeNext ==
  ASSUME SubscriptionInv, NEW c \in Subscribers, Subscribe(c)
  PROVE  SubscriptionInv'
<1> USE SubscriptionsAssumption
<1>t. TypeOKSubscriptions /\ TypeOKSubscriptions'
  BY SubscribeTypes DEF SubscriptionInv
<1>f. Cardinality(Active) \in Nat /\ Cardinality(excess) \in Nat
  BY <1>t, ActiveFinite, ExcessFinite
<1>s. \A d \in excess : subscribe[d] = "success"
  BY DEF SubscriptionInv
<1>r. \A d \in Counted \ stale : Cardinality(Active) < Quota
  BY DEF SubscriptionInv
<1>q. Cardinality(Active) <= Quota + Cardinality(excess)
  BY DEF SubscriptionInv, QuotaKept
<1> SUFFICES /\ Cardinality(Active') <= Quota + Cardinality(excess')
             /\ \A d \in Counted' \ stale' : Cardinality(Active') < Quota
             /\ \A d \in excess' : subscribe'[d] = "success"
  BY <1>t DEF SubscriptionInv, QuotaKept
<1>1. CASE FindRSSByUserAndURLs(c)
  <2>1. Active' = Active /\ Counted' \subseteq Counted /\ excess' = excess /\ stale' = stale
    BY <1>1, <1>t DEF FindRSSByUserAndURLs, Active, Counted, Reply, TypeOKSubscriptions
  <2>2. \A d \in excess' : subscribe'[d] = "success"
    BY <1>1, <1>s, <1>t DEF FindRSSByUserAndURLs, Reply, TypeOKSubscriptions
  <2> QED
    BY <2>1, <2>2, <1>q, <1>r
<1>2. CASE CountActiveRSSByUser(c)
  <2>1. Active' = Active /\ Counted' \subseteq Counted \cup {c} /\ excess' = excess /\ stale' = stale
    BY <1>2, <1>t DEF CountActiveRSSByUser, Active, Counted, Reply, TypeOKSubscriptions
  <2>2. c \in Counted' => Cardinality(Active) < Quota
    BY <1>2, <1>f, <1>t DEF CountActiveRSSByUser, Counted, QuotaReached, Reply, TypeOKSubscriptions
  <2>3. \A d \in excess' : subscribe'[d] = "success"
    BY <1>2, <1>s, <1>t DEF CountActiveRSSByUser, Reply, TypeOKSubscriptions
  <2> QED
    BY <2>1, <2>2, <2>3, <1>q, <1>r
<1>3. CASE Reactivate(c)
  <2>1. Counted' \subseteq stale'
    BY <1>3, <1>t DEF Reactivate, Counted, Reply, TypeOKSubscriptions
  <2>2. c \notin excess
    BY <1>3, <1>s DEF Reactivate
  <2>3. Cardinality(excess') = Cardinality(excess) + 1
    BY <1>3, <1>t, <2>2, AddExcess DEF Reactivate
  <2>4. Cardinality(Active') <= Cardinality(Active) + 1
    <3>1. CASE feeds[Url[c]] # "ACTIVE"
      <4>1. Url[c] \in Urls /\ feeds' = [feeds EXCEPT ![Url[c]] = "ACTIVE"]
        BY <1>3 DEF Reactivate
      <4>2. Cardinality(Active') = Cardinality(Active) + 1
        BY <1>t, <3>1, <4>1, AddFeed
      <4> QED
        BY <1>f, <4>2
    <3>2. CASE feeds[Url[c]] = "ACTIVE"
      <4>1. Active' = Active
        BY <1>3, <1>t, <3>2 DEF Reactivate, Active, TypeOKSubscriptions
      <4> QED
        BY <1>f, <4>1
    <3> QED
      BY <3>1, <3>2
  <2>5. Active' \subseteq Urls
    BY DEF Active
  <2>7. Cardinality(Active') \in Nat
    BY <2>5, FS_Subset, FS_CardinalityType DEF SubscriptionsAssumption
  <2>6. \A d \in excess' : subscribe'[d] = "success"
    BY <1>3, <1>s, <1>t DEF Reactivate, Reply, TypeOKSubscriptions
  <2> QED
    BY <1>f, <1>q, <2>1, <2>3, <2>4, <2>6, <2>7
<1>4. CASE SaveNew(c)
  <2>1. CASE feeds[Url[c]] # "none"
    <3>1. Active' = Active /\ Counted' \subseteq Counted /\ excess' = excess /\ stale' = stale
      BY <1>4, <1>t, <2>1 DEF SaveNew, Active, Counted, Reply, TypeOKSubscriptions
    <3>2. \A d \in excess' : subscribe'[d] = "success"
      BY <1>4, <1>s, <1>t, <2>1 DEF SaveNew, Reply, TypeOKSubscriptions
    <3> QED
      BY <3>1, <3>2, <1>q, <1>r
  <2>2. CASE feeds[Url[c]] = "none"
    <3>1. Counted' \subseteq stale'
      BY <1>4, <1>t, <2>2 DEF SaveNew, Counted, Reply, TypeOKSubscriptions
    <3>2. Cardinality(Active') = Cardinality(Active) + 1
      BY <1>4, <1>t, <2>2, AddFeed DEF SaveNew
    <3>3. c \in Counted /\ c \notin excess
      BY <1>4, <1>s DEF SaveNew, Counted
    <3>4. \A d \in excess' : subscribe'[d] = "success"
      BY <1>4, <1>s, <1>t, <2>2 DEF SaveNew, Reply, TypeOKSubscriptions
    <3>5. CASE c \in stale
      <4>1. Cardinality(excess') = Cardinality(excess) + 1
        BY <1>4, <1>t, <2>2, <3>3, <3>5, AddExcess DEF SaveNew
      <4> QED
        BY <1>f, <1>q, <3>1, <3>2, <3>4, <4>1
    <3>6. CASE c \notin stale
      <4>1. Cardinality(Active) < Quota /\ excess' = excess
        BY <1>4, <1>r, <2>2, <3>3, <3>6 DEF SaveNew
      <4> QED
        BY <1>f, <3>1, <3>2, <3>4, <4>1
    <3> QED
      BY <3>5, <3>6
  <2> QED
    BY <2>1, <2>2
<1> QED
  BY <1>1, <1>2, <1>3, <1>4 DEF Subscribe

LEMMA UnsubscribeNext ==
  ASSUME SubscriptionInv, NEW u \in Urls, Unsubscribe(u)
  PROVE  SubscriptionInv'
<1> USE SubscriptionsAssumption DEF SubscriptionInv, TypeOKSubscriptions
<1>1. Active' \subseteq Active /\ Counted' = Counted
  BY DEF Unsubscribe, Active, Counted
<1>2. Cardinality(Active') <= Cardinality(Active) /\ Cardinality(Active') \in Nat
  BY <1>1, ActiveFinite, FS_Subset, FS_CardinalityType
<1> QED
  BY <1>1, <1>2, ActiveFinite, ExcessFinite DEF Unsubscribe, QuotaKept

LEMMA SubscriptionStutter == SubscriptionInv /\ UNCHANGED subscriptionVars => SubscriptionInv'
  BY SMTT(30) DEF SubscriptionInv, TypeOKSubscriptions, QuotaKept, Active, Counted, subscriptionVars

-----------------------------------------------------------------------------
(* The three together.                                                     *)

ApiInv == LimitInv /\ AccountInv /\ SubscriptionInv /\ cast \in Casts

\* The invariants of the three parts hold however their steps are mixed
\* (Middleware, CreateEmailUser, Subscribe).
THEOREM Invariant == Spec => []ApiInv
<1>1. Init => ApiInv
  BY LimitInit, AccountInit, SubscriptionInit DEF Init, ApiInv
<1>2. ApiInv /\ [Next]_vars => ApiInv'
  <2> SUFFICES ASSUME ApiInv, [Next]_vars PROVE ApiInv'
    OBVIOUS
  <2> USE ApiAssumption DEF ApiInv
  <2>1. CASE LimitStep
    <3>1. [(\E c \in Calls : Limit(c)) \/ Sweep \/ Refill \/ OpenWindow]_limitVars
      BY <2>1 DEF LimitStep
    <3>2. LimitInv'
      BY <3>1, LimitNext
    <3> QED
      BY <2>1, <3>2, AccountStutter, SubscriptionStutter DEF LimitStep
  <2>2. CASE SignupStep
    <3>1. AccountInv'
      BY <2>2, AccountNext DEF SignupStep
    <3> QED
      BY <2>2, <3>1, LimitNext, SubscriptionStutter DEF SignupStep
  <2>3. CASE SubscribeStep
    <3>1. SubscriptionInv'
      BY <2>3, SubscribeNext, UnsubscribeNext DEF SubscribeStep
    <3> QED
      BY <2>3, <3>1, LimitNext, AccountStutter DEF SubscribeStep
  <2>4. CASE UNCHANGED vars
    BY <2>4, LimitNext, AccountStutter, SubscriptionStutter DEF vars
  <2> QED
    BY <2>1, <2>2, <2>3, <2>4 DEF Next
<1> QED
  BY <1>1, <1>2, PTL DEF Spec

\* The rate of every address is bounded in every window of time (Middleware).
THEOREM RateBoundCorrect == Spec => []RateBound
<1>1. ApiInv => RateBound
  BY LimitSafe DEF ApiInv
<1> QED
  BY <1>1, Invariant, PTL

\* Sign-ups leave whole accounts and true answers (CreateEmailUser).
THEOREM AccountsWholeCorrect == Spec => []AccountsWhole
<1>1. ApiInv => AccountsWhole
  BY DEF ApiInv, AccountInv
<1> QED
  BY <1>1, Invariant, PTL

\* The limit on active feeds is passed by stale counts and reactivations only
\* (Subscribe).
THEOREM QuotaKeptCorrect == Spec => []QuotaKept
<1>1. ApiInv => QuotaKept
  BY DEF ApiInv, SubscriptionInv
<1> QED
  BY <1>1, Invariant, PTL

\* To clients the rate limit is one bucket of tokens for their address, however
\* limiters are made, found and swept (Middleware, getLimiter, Allow).
THEOREM ImplementsBucketCorrect == Spec => ImplementsBucket
<1>1. ApiInv /\ [Next]_vars => [Bucket!Next]_(Bucket!vars)
  <2> SUFFICES ASSUME ApiInv, [Next]_vars PROVE BucketStep
    BY DEF BucketStep
  <2>1. [(\E c \in Calls : Limit(c)) \/ Sweep \/ Refill \/ OpenWindow]_limitVars
    BY ApiAssumption DEF Next, LimitStep, SignupStep, SubscribeStep, vars, ApiInv
  <2> QED
    BY <2>1, BucketNext DEF ApiInv
<1>2. Init => Bucket!Init
  BY BucketInit DEF Init
<1> QED
  BY <1>1, <1>2, Invariant, PTL DEF Spec, ImplementsBucket, Bucket!Spec

\* To clients a sign-up is one step, however its checks and INSERTs interleave
\* with those of others and whatever fails (CreateEmailUser).
THEOREM ImplementsAtomicSignupCorrect == Spec => ImplementsAtomicSignup
<1>1. ApiInv /\ [Next]_vars => [Atomic!Next]_(Atomic!vars)
  <2> SUFFICES ASSUME ApiInv, [Next]_vars PROVE SignupAtomicStep
    BY DEF SignupAtomicStep
  <2>1. CASE SignupStep
    BY <2>1, SignupNext DEF SignupStep, ApiInv
  <2> QED
    BY <2>1, SignupStutter DEF Next, LimitStep, SubscribeStep, vars
<1>2. Init => Atomic!Init
  BY SignupInit DEF Init
<1> QED
  BY <1>1, <1>2, Invariant, PTL DEF Spec, ImplementsAtomicSignup, Atomic!Spec

=============================================================================
