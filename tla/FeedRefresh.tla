----------------------------- MODULE FeedRefresh -----------------------------
(***************************************************************************)
(* One feed and its subscribers: Subscribe (the GraphQL resolver),         *)
(* refresh-all-feeds, which adds one refresh-feed job for the subscribers  *)
(* that are due, and refresh-feed itself, which fetches the feed, hands    *)
(* the new entries of each subscriber to save-page and fetch-content jobs  *)
(* and writes the subscription's row.                                      *)
(*                                                                         *)
(* An entry is the date it was published at, and the feed changes at most  *)
(* once at each date: its checksum is the date of its last change.  So     *)
(* entries appear in the order of their dates.                             *)
(*                                                                         *)
(* A queue is reduced to what module JobQueue shows of it: a job is run    *)
(* until it is done or out of attempts, and a job whose worker was killed  *)
(* keeps its hash for ever.                                                *)
(***************************************************************************)
EXTENDS Integers, FiniteSets

CONSTANTS
  Users,
  Strangers,     \* subscribers whose rows are not modelled
  FetchType,     \* fetch_content_type of each user's subscription
  FetchBlocked,  \* isContentFetchBlocked of the feed's URL
  HasBuildDate,  \* the feed has a date of its own
  OldEntries,    \* what the feed has at first
  Empty,         \* entries without content
  Day,           \* 24 hours
  MaxItems,      \* maxItemsPerFeed
  MaxFailures,   \* MaxFeedFetchFailures
  MaxTime,       \* bound: the last date
  LastJoin,      \* bound: the last date at which somebody subscribes
  MaxFaults      \* bound: fetches and commands that fail, workers that are killed

Dates == 1..MaxTime

\* A job id is made of the URL and the sorted user ids.
Groups == {g \in SUBSET (Users \cup Strangers) : g \cap Users # {}}

ASSUME FeedAssumption ==
  /\ Users \cap Strangers = {}
  /\ FetchType \in [Users -> {"ALWAYS", "NEVER", "WHEN_EMPTY"}]
  /\ {FetchBlocked, HasBuildDate} \subseteq BOOLEAN
  /\ OldEntries \subseteq {1}
  /\ Empty \subseteq Nat
  /\ {Day, MaxFailures, LastJoin, MaxFaults} \subseteq Nat
  /\ {MaxItems, MaxTime} \subseteq Nat \ {0}

VARIABLES
  now,
  feed,         \* [entries, changed] as the feed's server shows it
  row,          \* the subscription of each user
  job,          \* the refresh-feed job of each group
  fails,        \* feed-fetch-failure:<url>, 0 when there is no such key
  faults,       \* bound counter
  got,          \* history: the entries each user's jobs were added for
  leftOut       \* history: the entries given up for a named reason

vars == <<now, feed, row, job, fails, faults, got, leftOut>>
world == <<now, feed>>
history == <<got, leftOut>>

\* 0 stands for NULL in a date and for the empty checksum.
Known == [mr: Nat, checksum: Nat]
Unknown == [mr |-> 0, checksum |-> 0]

\* scheduled_at is NULL, past or to come.
Row == [on: BOOLEAN, known: Known, sched: {"null", "past", "later"}, joined: Nat]

Feed == [entries: SUBSET Nat, changed: Nat]

NoFeed == [entries |-> {}, changed |-> 0]

\* know: the payload.  page: the feed as it was fetched.  left: the
\* subscriptions that are not processed yet.  tasks: fetchContentTasks.
Job == [st: {"none", "waiting", "running", "stuck", "ended"},
        tries: 0..2,
        know: [Users -> Known], page: Feed, left: SUBSET Users,
        tasks: SUBSET (Users \X Nat)]

NoJob == [st |-> "none", tries |-> 0, know |-> [u \in Users |-> Unknown],
          page |-> NoFeed, left |-> {}, tasks |-> {}]

TypeOK ==
  /\ now \in Dates
  /\ feed \in Feed
  /\ row \in [Users -> Row]
  /\ job \in [Groups -> Job]
  /\ fails \in Nat
  /\ faults \in 0..MaxFaults
  /\ got \in [Users -> SUBSET Nat]
  /\ leftOut \in [Users -> SUBSET Nat]

Init ==
  /\ now = 1
  /\ feed = [entries |-> OldEntries, changed |-> 1]
  /\ row = [u \in Users |-> [on |-> FALSE, known |-> Unknown, sched |-> "null", joined |-> 0]]
  /\ job = [g \in Groups |-> NoJob]
  /\ fails = 0
  /\ faults = 0
  /\ got = [u \in Users |-> {}]
  /\ leftOut = [u \in Users |-> {}]

-----------------------------------------------------------------------------
(* The feed and the clock.                                                 *)

\* Time passes, and the feed changes or not.
Turn(page) ==
  /\ now < MaxTime
  /\ now' = now + 1
  /\ feed' = page
  /\ UNCHANGED <<row, job, fails, faults, history>>

Tick == Turn(feed)

Publish == Turn([entries |-> feed.entries \cup {now + 1}, changed |-> now + 1])

\* A typo is corrected, a counter or a date in the feed's head changes.
Edit == Turn([entries |-> feed.entries, changed |-> now + 1])

\* The clock passes scheduled_at.
BecomesDue(u) ==
  /\ row[u].sched = "later"
  /\ row' = [row EXCEPT ![u].sched = "past"]
  /\ UNCHANGED <<world, job, fails, faults, history>>

-----------------------------------------------------------------------------
Fault == faults < MaxFaults /\ faults' = faults + 1

(* Subscribe and refresh-all-feeds.  Each writes or reads the row and then *)
(* sends AddBulk, which skips a job whose hash is there.  They are single  *)
(* steps here: what happens between their two parts might as well happen   *)
(* while the job waits, with the payload it has.                           *)

AddJob(g, know) ==
  job' = IF job[g].st = "none"
           THEN [job EXCEPT ![g] = [NoJob EXCEPT !.st = "waiting", !.know = know]]
           ELSE job

\* Subscribe, for a user that has no row.  The payload has what the new row
\* has; an error leaves the row there.
Subscribe(u) ==
  /\ ~row[u].on /\ now <= LastJoin
  /\ row' = [row EXCEPT ![u] =
       [on |-> TRUE, known |-> Unknown, sched |-> "null", joined |-> now]]
  /\ \/ AddJob({u}, [v \in Users |-> Unknown]) /\ UNCHANGED faults
     \/ Fault /\ UNCHANGED job
  /\ UNCHANGED <<world, fails, history>>

\* A bug: a subscription that was never scheduled is not selected.
IsDueScheduled(u) == row[u].on /\ row[u].sched = "past"

IsDue(u) == row[u].on /\ row[u].sched \in {"null", "past"}

\* The query takes the due subscriptions of the feed as one group.  Strangers
\* are due at any time.
HandleRefreshAllFeeds ==
  LET due == {u \in Users : IsDue(u)} IN
  /\ due # {}
  /\ \E others \in SUBSET Strangers :
       AddJob(due \cup others, [u \in Users |-> IF u \in due THEN row[u].known ELSE Unknown])
  /\ UNCHANGED <<world, row, fails, faults, history>>

-----------------------------------------------------------------------------
(* HandleRefreshFeed: the feed.                                            *)

Blocked == fails > MaxFailures

Finish(st) == [NoJob EXCEPT !.st = st]

\* A bug: one attempt too many.
FailedInclusive(j) ==
  IF j.tries + 1 <= 3 THEN [j EXCEPT !.tries = j.tries + 1] ELSE Finish("ended")

\* FailJob with attempts 3; a retried job is promoted at once.
Failed(j) ==
  IF j.tries + 1 < 3 THEN [j EXCEPT !.tries = j.tries + 1] ELSE Finish("ended")

FailJob(g) == job' = [job EXCEPT ![g] = Failed(job[g])]

RefuseBlocked(g) ==
  /\ job[g].st = "waiting" /\ Blocked
  /\ FailJob(g)
  /\ UNCHANGED <<world, row, fails, faults, history>>

\* The feed does not answer or cannot be parsed.  incrementFeedFailure logs
\* its errors; the dates that markSubscriptionsFailed writes are not read.
FetchFails(g) ==
  /\ job[g].st = "waiting" /\ ~Blocked
  /\ Fault
  /\ fails' = fails + 1 \/ UNCHANGED fails
  /\ FailJob(g)
  /\ UNCHANGED <<world, row, history>>

Fetch(g) ==
  /\ job[g].st = "waiting" /\ ~Blocked
  /\ job' = [job EXCEPT ![g] = [job[g] EXCEPT !.st = "running", !.page = feed, !.left = g \cap Users]]
  /\ UNCHANGED <<world, row, fails, faults, history>>

-----------------------------------------------------------------------------
(* processSubscription.                                                    *)

\* The subscription is processed; what is no longer read is forgotten.
Processed(j, u, tasks) ==
  [j EXCEPT !.left = j.left \ {u}, !.know[u] = Unknown, !.tasks = j.tasks \cup tasks,
            !.page = IF j.left = {u} THEN NoFeed ELSE j.page]

\* The checksum of the payload, or the feed's own date.
Unchanged(know, page) ==
  \/ page.changed = know.checksum
  \/ HasBuildDate /\ know.mr > 0 /\ page.changed <= know.mr

IsOldItem(e, mr) == IF mr = 0 THEN e < now - Day ELSE e <= mr

\* enqueueSavePageFromFeed now, or else a task to fetch the content.
SavesPage(u, e) ==
  \/ FetchBlocked \/ FetchType[u] = "NEVER"
  \/ FetchType[u] = "WHEN_EMPTY" /\ e \notin Empty

\* The entries that are not old; if there are none, the newest entry for a
\* subscription that has no date.
Wanted(mr, entries) ==
  LET fresh == {e \in entries : ~IsOldItem(e, mr)} IN
  IF mr = 0 /\ fresh = {} THEN {e \in entries : \A f \in entries : f <= e} ELSE fresh

\* given: saved now or made a task.  failed: could not be saved.  The cap
\* drops the others, in the order of the feed.
HandsOver(u, wanted, given, failed) ==
  /\ \A e \in failed : SavesPage(u, e)
  /\ Cardinality(given) <= MaxItems
  /\ given \cup failed = wanted \/ Cardinality(given) = MaxItems

\* A bug: the time of the refresh instead of the entry's.
MostRecentNow(given, mr) == mr = IF given = {} THEN 0 ELSE now

\* lastItemFetchedAt: NULL when nothing was handed over.
MostRecent(given, mr) ==
  IF given = {} THEN mr = 0 ELSE mr \in given /\ \A e \in given : e <= mr

\* updateSubscription.
Updated(u, mr, page) ==
  [row EXCEPT ![u] = [on |-> TRUE, known |-> [mr |-> mr, checksum |-> page.changed],
                      sched |-> "later", joined |-> row[u].joined]]

SkipSubscription(g, u) ==
  /\ job[g].st = "running" /\ u \in job[g].left
  /\ Unchanged(job[g].know[u], job[g].page)
  /\ job' = [job EXCEPT ![g] = Processed(job[g], u, {})]
  /\ UNCHANGED <<world, row, fails, faults, history>>

\* What the page has that the payload does not say to be seen.
Unseen(mr, entries) == {e \in entries : mr = 0 \/ e > mr}

ProcessSubscription(g, u) ==
  LET mr == job[g].know[u].mr
      page == job[g].page
      wanted == Wanted(mr, page.entries)
  IN
  /\ job[g].st = "running" /\ u \in job[g].left
  /\ ~Unchanged(job[g].know[u], page)
  /\ \E given \in SUBSET wanted : \E failed \in SUBSET (wanted \ given), new \in {0} \cup Dates :
       /\ HandsOver(u, wanted, given, failed)
       /\ MostRecent(given, new)
       \* A failed save and a failed update are logged.
       /\ \/ failed = {} /\ row' = Updated(u, new, page) /\ UNCHANGED faults
          \/ failed # {} /\ row' = Updated(u, new, page) /\ Fault
          \/ UNCHANGED row /\ Fault
       /\ got' = [got EXCEPT ![u] = got[u] \cup {e \in given : SavesPage(u, e)}]
       /\ leftOut' = [leftOut EXCEPT ![u] = leftOut[u] \cup (Unseen(mr, page.entries) \ given)]
       /\ job' = [job EXCEPT ![g] =
            Processed(job[g], u, {u} \X {e \in given : ~SavesPage(u, e)})]
  /\ UNCHANGED <<world, fails>>

\* enqueueFetchContentTasks: one job for each entry, in any order.  An error
\* is logged, and the entries that are left are in no job.
EnqueueTasks(g) ==
  /\ job[g].st = "running" /\ job[g].left = {}
  /\ \E sent \in SUBSET {t[2] : t \in job[g].tasks} :
       /\ \/ (\A t \in job[g].tasks : t[2] \in sent) /\ UNCHANGED faults
          \/ Fault
       /\ got' = [u \in Users |-> got[u] \cup {e \in sent : <<u, e>> \in job[g].tasks}]
       /\ leftOut' = [u \in Users |->
            leftOut[u] \cup {t[2] : t \in {s \in job[g].tasks : s[1] = u /\ s[2] \notin sent}}]
  /\ job' = [job EXCEPT ![g] = Finish("ended")]
  /\ UNCHANGED <<world, row, fails>>

-----------------------------------------------------------------------------
(* Crashes and Redis.                                                      *)

\* The worker is killed: its job stays in the active list, its hash stays.
Kill(g) ==
  /\ Fault /\ job[g].st \in {"waiting", "running"}
  /\ leftOut' = [u \in Users |->
       leftOut[u] \cup {t[2] : t \in {s \in job[g].tasks : s[1] = u}}]
  /\ job' = [job EXCEPT ![g] = Finish("stuck")]
  /\ UNCHANGED <<world, row, fails, got>>

\* An hour after it was completed, a day after it failed.
JobExpires(g) ==
  /\ job[g].st = "ended"
  /\ job' = [job EXCEPT ![g] = NoJob]
  /\ UNCHANGED <<world, row, fails, faults, history>>

FailuresExpire ==
  /\ fails > 0
  /\ fails' = 0
  /\ UNCHANGED <<world, row, job, faults, history>>

-----------------------------------------------------------------------------

RunJob(g) ==
  \/ RefuseBlocked(g) \/ FetchFails(g) \/ Fetch(g)
  \/ \E u \in g \cap Users : SkipSubscription(g, u) \/ ProcessSubscription(g, u)
  \/ EnqueueTasks(g)

Next ==
  \/ Tick \/ Publish \/ Edit
  \/ \E u \in Users : BecomesDue(u) \/ Subscribe(u)
  \/ HandleRefreshAllFeeds
  \/ \E g \in Groups : RunJob(g) \/ Kill(g) \/ JobExpires(g)
  \/ FailuresExpire

Spec == Init /\ [][Next]_vars

\* A scheduler adds refresh-all-feeds again and again, workers run, scheduled
\* times come and Redis expires keys.  Nobody has to subscribe or publish.
FairSpec ==
  /\ Spec
  /\ WF_vars(HandleRefreshAllFeeds) /\ WF_vars(FailuresExpire)
  /\ \A u \in Users : WF_vars(BecomesDue(u))
  /\ \A g \in Groups : WF_vars(RunJob(g) \/ JobExpires(g))

-----------------------------------------------------------------------------

\* The entries of a user that no later refresh has to hand over.
Settled(u) == got[u] \cup leftOut[u]

Handed(u, e) == \E g \in Groups : <<u, e>> \in job[g].tasks

\* A refresh that starts from what the row says now would hand the entry over.
StillToCome(u, e) ==
  /\ row[u].known.checksum # feed.changed
  /\ row[u].known.mr = 0 \/ e > row[u].known.mr

\* No entry is lost silently.  An entry published after the subscription was
\* made is in a job that was added for it, is in the tasks of a running
\* refresh, or was given up for a reason the code has (too old for a new
\* subscription, over the cap, an error that was logged, a killed worker);
\* else the row still lets the next refresh hand it over.  Overlapping
\* refreshes with stale payloads, and the order in which processSubscription
\* writes the row and the tasks are enqueued, must not break this.
NothingMissed ==
  \A u \in Users : \A e \in feed.entries :
    row[u].on /\ e > row[u].joined =>
      e \in Settled(u) \/ Handed(u, e) \/ StillToCome(u, e)

\* The job of a group that has the user was killed: its hash, which stays,
\* keeps refreshes of that group away (AddBulk skips the id).
Stuck(u) == \E g \in Groups : u \in g /\ job[g].st = "stuck"

\* Each entry published after a subscription (so not at date 1) is handed over or given up in
\* the end, when the feed answers again: a blocked feed is unblocked, a failed
\* or skipped refresh is repeated, a subscription whose first job could not be
\* added is picked up by refresh-all-feeds.
EntriesArrive ==
  \A u \in Users, e \in 2..MaxTime :
    (row[u].on /\ e \in feed.entries /\ e > row[u].joined)
      ~> (e \in Settled(u) \/ Stuck(u))

\* "Existing subscription: skip items at or before last seen date."
\* (refresh_feed.go:349): no refresh hands over an entry the user already got.
SeenOnce ==
  \A g \in Groups : \A u \in g \cap Users, e \in Dates :
    <<u, e>> \in job[g].tasks => e \notin got[u]

=============================================================================
