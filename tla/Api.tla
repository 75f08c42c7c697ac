---------------------------------- MODULE Api ----------------------------------
(***************************************************************************)
(* Requests to the API program that write what no job does: the rate limit *)
(* of module RateLimit, and behind it the sign-ups of Accounts and the     *)
(* Subscribe calls of Subscriptions, all at once.                          *)
(***************************************************************************)
EXTENDS RateLimit, Accounts, Subscriptions

CONSTANT Casts  \* bound: the sets of calls that are made in a behaviour

ASSUME ApiAssumption ==
  /\ Signups \cap Subscribers = {}
  /\ Signups \cup Subscribers \subseteq Calls
  /\ Casts \subseteq SUBSET Calls

VARIABLE cast  \* the calls of this behaviour

vars == <<limitVars, accountVars, subscriptionVars, cast>>

TypeOK == TypeOKLimits /\ TypeOKAccounts /\ TypeOKSubscriptions /\ cast \in Casts

Init == InitLimits /\ InitAccounts /\ InitSubscriptions /\ cast \in Casts

Admitted(c) == call[c].pc = "admitted"

\* The middleware and its time.
LimitStep ==
  /\ (\E c \in cast : Limit(c)) \/ Sweep \/ Refill \/ OpenWindow
  /\ UNCHANGED <<accountVars, subscriptionVars, cast>>

SignupStep ==
  /\ \E c \in Signups : Admitted(c) /\ (CreateEmailUser(c) \/ SignupFails(c))
  /\ UNCHANGED <<limitVars, subscriptionVars, cast>>

SubscribeStep ==
  /\ \/ \E c \in Subscribers : Admitted(c) /\ Subscribe(c)
     \/ \E u \in Urls : Unsubscribe(u)
  /\ UNCHANGED <<limitVars, accountVars, cast>>

Next == LimitStep \/ SignupStep \/ SubscribeStep

Spec == Init /\ [][Next]_vars

=============================================================================
