---------------------------- MODULE Subscriptions ----------------------------
(***************************************************************************)
(* The limit on the feeds of one user (resolver Subscribe and              *)
(* SubscriptionRepository): a look-up, a count and a save, each in a       *)
(* transaction of its own.  What becomes of the feed is in FeedRefresh.    *)
(***************************************************************************)
EXTENDS Integers, FiniteSets

CONSTANTS
  Subscribers,  \* calls of Subscribe
  Urls,
  Url,          \* the feed of each call
  Quota         \* 256

ASSUME SubscriptionsAssumption ==
  /\ IsFiniteSet(Urls) /\ IsFiniteSet(Subscribers)
  /\ Url \in [Subscribers -> Urls]
  /\ Quota \in Nat

VARIABLES
  feeds,      \* the subscription of each URL: unique for the user
  subscribe,  \* pc, and then the answer, of each call
  stale,      \* history: calls since whose count another call has added a feed
  excess      \* history: calls that added a feed after a stale count, or none

subscriptionVars == <<feeds, subscribe, stale, excess>>

TypeOKSubscriptions ==
  /\ feeds \in [Urls -> {"none", "ACTIVE", "UNSUBSCRIBED"}]
  /\ subscribe \in [Subscribers -> {"begin", "unsubscribed", "new", "counted", "success",
                                    "alreadySubscribed", "exceededMax", "error"}]
  /\ stale \subseteq Subscribers /\ excess \subseteq Subscribers

InitSubscriptions ==
  /\ feeds = [u \in Urls |-> "none"]
  /\ subscribe = [c \in Subscribers |-> "begin"]
  /\ stale = {}
  /\ excess = {}

Active == {u \in Urls : feeds[u] = "ACTIVE"}

Reply(c, next) == subscribe' = [subscribe EXCEPT ![c] = next]

FindRSSByUserAndURLs(c) ==
  /\ subscribe[c] = "begin"
  /\ \/ feeds[Url[c]] = "ACTIVE" /\ Reply(c, "alreadySubscribed")
     \/ feeds[Url[c]] = "UNSUBSCRIBED" /\ Reply(c, "unsubscribed")
     \/ feeds[Url[c]] = "none" /\ Reply(c, "new")
  /\ UNCHANGED <<feeds, stale, excess>>

\* A bug: one feed too many.
OverQuota(n) == n > Quota

QuotaReached(n) == n >= Quota

CountActiveRSSByUser(c) ==
  /\ subscribe[c] = "new"
  /\ Reply(c, IF QuotaReached(Cardinality(Active)) THEN "exceededMax" ELSE "counted")
  /\ UNCHANGED <<feeds, stale, excess>>

Counted == {c \in Subscribers : subscribe[c] = "counted"}

\* The feed of an unsubscribed one is active again, and nothing is counted.
Reactivate(c) ==
  /\ subscribe[c] = "unsubscribed"
  /\ feeds' = [feeds EXCEPT ![Url[c]] = "ACTIVE"]
  /\ stale' = stale \cup Counted
  /\ excess' = excess \cup {c}
  /\ Reply(c, "success")

\* Save of a new subscription: the index may refuse it.
SaveNew(c) ==
  /\ subscribe[c] = "counted"
  /\ \/ /\ feeds[Url[c]] = "none"
        /\ feeds' = [feeds EXCEPT ![Url[c]] = "ACTIVE"]
        /\ stale' = stale \cup (Counted \ {c})
        /\ excess' = IF c \in stale THEN excess \cup {c} ELSE excess
        /\ Reply(c, "success")
     \/ /\ feeds[Url[c]] # "none"
        /\ Reply(c, "error")
        /\ UNCHANGED <<feeds, stale, excess>>

\* The user unsubscribes.
Unsubscribe(u) ==
  /\ feeds[u] = "ACTIVE"
  /\ feeds' = [feeds EXCEPT ![u] = "UNSUBSCRIBED"]
  /\ UNCHANGED <<subscribe, stale, excess>>

Subscribe(c) ==
  \/ FindRSSByUserAndURLs(c)
  \/ CountActiveRSSByUser(c)
  \/ Reactivate(c)
  \/ SaveNew(c)

-----------------------------------------------------------------------------
\* A user has more active feeds than the limit only by calls that reactivated
\* one, which counts nothing, or that added one although another call had done
\* so since they counted: at most one for each of them (Subscribe).
QuotaKept == Cardinality(Active) <= Quota + Cardinality(excess)

=============================================================================
