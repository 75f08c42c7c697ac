------------------------------ MODULE FeedProofs ------------------------------
(***************************************************************************)
(* What holds of module FeedRefresh for any users, strangers, contents of  *)
(* the feed and bounds: no entry is lost silently.                         *)
(***************************************************************************)
EXTENDS FeedRefresh, TLAPS

\* Handed over or given up, or about to be.
Kept(u, e) == e \in Settled(u) \/ Handed(u, e)

\* A copy of the feed is the part of it up to the date of its last change.
Copy(page) ==
  /\ page.entries \subseteq feed.entries /\ page.changed <= feed.changed
  /\ \A e \in feed.entries : e \in page.entries <=> e <= page.changed

\* What a payload says to be seen is kept.
Seen(u, mr) ==
  \A e \in feed.entries : e > row[u].joined /\ mr # 0 /\ e <= mr => Kept(u, e)

\* The payload of a job that has the user.
Payload(g, u) == /\ row[u].on
                 /\ job[g].know[u].mr <= now
                 /\ Seen(u, job[g].know[u].mr)

FeedInv == Copy(feed) /\ feed.changed <= now

RowInv == \A u \in Users : row[u].known.mr <= now /\ row[u].known.checksum <= now

JobInv ==
  \A g \in Groups :
    /\ job[g].left # {} \/ job[g].tasks # {} => job[g].st = "running"
    /\ job[g].left \subseteq g
    /\ job[g].st = "waiting" => \A u \in g \cap Users : Payload(g, u)
    /\ \A u \in job[g].left : Payload(g, u) /\ Copy(job[g].page)

IndInv == TypeOK /\ FeedInv /\ RowInv /\ JobInv /\ NothingMissed

-----------------------------------------------------------------------------
(* Types of the parts.                                                     *)

LEMMA Types ==
  ASSUME TypeOK
  PROVE  /\ \A u \in Users : row[u] \in Row /\ got[u] \in SUBSET Nat /\ leftOut[u] \in SUBSET Nat
         /\ \A g \in Groups : job[g] \in Job
         /\ now \in Nat /\ feed \in Feed /\ feed.entries \subseteq Nat /\ feed.changed \in Nat
  BY FeedAssumption DEF TypeOK, Dates, Feed

LEMMA RecordTypes ==
  /\ \A r \in Row : /\ r.on \in BOOLEAN /\ r.known \in Known /\ r.joined \in Nat
                    /\ r.known.mr \in Nat /\ r.known.checksum \in Nat
  /\ \A j \in Job : /\ j.know \in [Users -> Known] /\ j.left \in SUBSET Users
                    /\ j.page \in Feed /\ j.page.entries \subseteq Nat /\ j.page.changed \in Nat
                    /\ j.tasks \in SUBSET (Users \X Nat) /\ j.tries \in 0..2
  /\ \A j \in Job : \A u \in Users : j.know[u] \in Known /\ j.know[u].mr \in Nat
<1>1. \A k \in Known : k.mr \in Nat /\ k.checksum \in Nat
  BY DEF Known
<1>2. \A p \in Feed : p.entries \subseteq Nat /\ p.changed \in Nat
  BY DEF Feed
<1>3. \A r \in Row : r.on \in BOOLEAN /\ r.known \in Known /\ r.joined \in Nat
  BY DEF Row
<1>4. \A j \in Job : /\ j.know \in [Users -> Known] /\ j.left \in SUBSET Users
                     /\ j.page \in Feed /\ j.tasks \in SUBSET (Users \X Nat) /\ j.tries \in 0..2
  BY DEF Job
<1>5. \A j \in Job : \A u \in Users : j.know[u] \in Known
  BY <1>4
<1> QED
  BY <1>1, <1>2, <1>3, <1>4, <1>5

LEMMA NoJobType == /\ NoJob \in Job /\ NoJob.left = {} /\ NoJob.tasks = {}
                   /\ NoJob.st = "none" /\ Unknown \in Known /\ NoFeed \in Feed
  BY DEF NoJob, Job, NoFeed, Feed, Unknown, Known

\* A job that is over has nothing left to do.
LEMMA Finished ==
  ASSUME NEW st \in {"stuck", "ended"}
  PROVE  /\ Finish(st) \in Job /\ Finish(st).st = st
         /\ Finish(st).left = {} /\ Finish(st).tasks = {}
  BY DEF Finish, NoJob, Job, NoFeed, Feed, Unknown, Known

-----------------------------------------------------------------------------
(* A step of the job of one group, which may write rows and histories.     *)

LEMMA JobStep ==
  ASSUME IndInv, NEW g \in Groups, NEW new \in Job,
         job' = [job EXCEPT ![g] = new],
         UNCHANGED world,
         fails' \in Nat, faults' \in 0..MaxFaults, row' \in [Users -> Row],
         got' \in [Users -> SUBSET Nat], leftOut' \in [Users -> SUBSET Nat],
         \A u \in Users : /\ row'[u].on = row[u].on /\ row'[u].joined = row[u].joined
                          /\ row'[u].known.mr <= now /\ row'[u].known.checksum <= now,
         \A u \in Users, e \in Nat : Kept(u, e) => Kept(u, e)',
         NothingMissed',
         new.left # {} \/ new.tasks # {} => new.st = "running",
         new.left \subseteq g,
         \A u \in g \cap Users : new.st = "waiting" \/ u \in new.left =>
           row[u].on /\ new.know[u].mr <= now /\ Seen(u, new.know[u].mr),
         \A u \in new.left : Copy(new.page)
  PROVE  IndInv'
<1>1. now' = now /\ feed' = feed
  BY DEF world
<1>2. job' \in [Groups -> Job] /\ \A h \in Groups : job'[h] = IF h = g THEN new ELSE job[h]
  BY DEF IndInv, TypeOK
<1>3. TypeOK'
  BY <1>1, <1>2 DEF IndInv, TypeOK
<1>4. FeedInv' /\ RowInv'
  BY <1>1 DEF IndInv, FeedInv, RowInv, Copy
<1>5. ASSUME NEW u \in Users, NEW mr, Seen(u, mr) PROVE Seen(u, mr)'
  BY <1>1, <1>5, Types DEF IndInv, Seen
<1>6. ASSUME NEW h \in Groups
      PROVE  /\ job'[h].left # {} \/ job'[h].tasks # {} => job'[h].st = "running"
             /\ job'[h].left \subseteq h
             /\ job'[h].st = "waiting" => \A u \in h \cap Users : Payload(h, u)'
             /\ \A u \in job'[h].left : Payload(h, u)' /\ Copy(job[h].page)'
  <2>1. CASE h = g
    <3>1. ASSUME NEW u \in g \cap Users, new.st = "waiting" \/ u \in new.left
          PROVE  Payload(h, u)'
      BY <1>1, <1>2, <1>5, <2>1, <3>1 DEF Payload
    <3>2. new.left \subseteq g \cap Users
      BY RecordTypes
    <3>3. \A u \in new.left : Copy(job[h].page)'
      BY <1>1, <1>2, <2>1 DEF Copy
    <3> QED
      BY <1>2, <2>1, <3>1, <3>2, <3>3
  <2>2. CASE h # g
    <3>1. job'[h] = job[h]
      BY <1>2, <2>2
    <3>2. ASSUME NEW u \in Users, Payload(h, u) PROVE Payload(h, u)'
      BY <1>1, <1>5, <3>1, <3>2 DEF Payload
    <3>3. job[h].left \subseteq Users
      BY Types, RecordTypes DEF IndInv
    <3>4. Copy(job[h].page) => Copy(job[h].page)'
      BY <1>1, <3>1 DEF Copy
    <3> QED
      BY <3>1, <3>2, <3>3, <3>4 DEF IndInv, JobInv
  <2> QED
    BY <2>1, <2>2
<1> QED
  BY <1>3, <1>4, <1>6 DEF IndInv, JobInv

\* The same, when nothing but the job changes and its tasks stay.
LEMMA QuietStep ==
  ASSUME IndInv, NEW g \in Groups, NEW new \in Job,
         job' = [job EXCEPT ![g] = new],
         UNCHANGED <<world, row, history>>,
         fails' \in Nat, faults' \in 0..MaxFaults,
         new.tasks = job[g].tasks,
         new.left # {} \/ new.tasks # {} => new.st = "running",
         new.left \subseteq g,
         \A u \in g \cap Users : new.st = "waiting" \/ u \in new.left =>
           row[u].on /\ new.know[u].mr <= now /\ Seen(u, new.know[u].mr),
         \A u \in new.left : Copy(new.page)
  PROVE  IndInv'
<1>1. \A h \in Groups : job'[h].tasks = job[h].tasks
  BY DEF IndInv, TypeOK
<1>2. UNCHANGED <<now, feed, row, got, leftOut>>
  BY DEF world, history
<1>3. \A u \in Users, e \in Nat : Kept(u, e) => Kept(u, e)'
  BY <1>1, <1>2 DEF Kept, Settled, Handed
<1>4. NothingMissed'
  BY <1>1, <1>2 DEF IndInv, NothingMissed, Settled, Handed, StillToCome
<1>5. \A u \in Users : row'[u].known.mr <= now /\ row'[u].known.checksum <= now
  BY <1>2 DEF IndInv, RowInv
<1>6. /\ row' \in [Users -> Row] /\ got' \in [Users -> SUBSET Nat]
      /\ leftOut' \in [Users -> SUBSET Nat] /\ UNCHANGED world
  BY <1>2 DEF IndInv, TypeOK, world
<1> QED
  BY <1>2, <1>3, <1>4, <1>5, <1>6, JobStep

-----------------------------------------------------------------------------
(* The feed changes; users subscribe.                                      *)

LEMMA TurnNext ==
  ASSUME IndInv, NEW page,
         Turn(page),
         \/ page = feed
         \/ page = [entries |-> feed.entries \cup {now + 1}, changed |-> now + 1]
         \/ page = [entries |-> feed.entries, changed |-> now + 1]
  PROVE  IndInv'
<1>1. /\ now' = now + 1 /\ feed' = page /\ now < MaxTime
      /\ UNCHANGED <<row, job, fails, faults, got, leftOut>>
  BY DEF Turn, history
<1>2. /\ now \in Nat /\ now' \in Nat /\ feed.changed \in Nat /\ feed.changed <= now
      /\ feed.entries \subseteq Nat /\ \A e \in feed.entries : e <= feed.changed
  BY <1>1, Types DEF IndInv, FeedInv, Copy
<1>3. /\ page \in Feed /\ page.changed \in {feed.changed, now + 1}
      /\ feed.entries \subseteq page.entries /\ page.entries \subseteq feed.entries \cup {now + 1}
      /\ now + 1 \in page.entries => page.changed = now + 1
  <2>1. feed \in Feed /\ now + 1 \notin feed.entries
    BY <1>2, Types DEF IndInv
  <2> QED
    BY <1>2, <2>1 DEF Feed
<1>4. TypeOK'
  BY <1>1, <1>2, <1>3, FeedAssumption DEF IndInv, TypeOK, Dates
<1>5. FeedInv' /\ RowInv'
  BY <1>1, <1>2, <1>3, Types, RecordTypes DEF IndInv, FeedInv, RowInv, Copy
<1>6. \A u \in Users, e \in Nat : Kept(u, e) => Kept(u, e)'
  BY <1>1 DEF Kept, Settled, Handed
<1>7. ASSUME NEW g \in Groups, NEW u \in Users, Payload(g, u) PROVE Payload(g, u)'
  <2>1. job[g].know[u].mr \in Nat
    BY Types, RecordTypes DEF IndInv
  <2> QED
    BY <1>1, <1>2, <1>3, <1>6, <1>7, <2>1 DEF Payload, Seen
<1>8. ASSUME NEW g \in Groups, Copy(job[g].page) PROVE Copy(job[g].page)'
  <2>1. job[g].page.changed \in Nat /\ job[g].page.entries \subseteq Nat
    BY Types, RecordTypes DEF IndInv
  <2> QED
    BY <1>1, <1>2, <1>3, <1>8, <2>1 DEF Copy
<1>9. JobInv'
  BY <1>1, <1>7, <1>8, Types, RecordTypes DEF IndInv, JobInv
<1>10. NothingMissed'
  <2> SUFFICES ASSUME NEW u \in Users, NEW e \in feed'.entries, row[u].on, e > row[u].joined
               PROVE  (e \in Settled(u) \/ Handed(u, e) \/ StillToCome(u, e))'
    BY <1>1 DEF NothingMissed
  <2>1. /\ row[u].known.mr \in Nat /\ row[u].known.checksum \in Nat
        /\ row[u].known.mr <= now /\ row[u].known.checksum <= now
    BY Types, RecordTypes DEF IndInv, RowInv
  <2>2. CASE e = now + 1
    BY <1>1, <1>2, <1>3, <2>1, <2>2 DEF StillToCome
  <2>3. CASE e \in feed.entries
    <3>1. e \in Settled(u) \/ Handed(u, e) \/ StillToCome(u, e)
      BY <2>3 DEF IndInv, NothingMissed
    <3>2. e \in Settled(u) => e \in Settled(u)'
      BY <1>1 DEF Settled
    <3>3. Handed(u, e) => Handed(u, e)'
      BY <1>1 DEF Handed
    <3>4. StillToCome(u, e) => StillToCome(u, e)'
      BY <1>1, <1>2, <1>3, <2>1 DEF StillToCome
    <3> QED
      BY <3>1, <3>2, <3>3, <3>4
  <2> QED
    BY <1>1, <1>3, <2>2, <2>3
<1> QED
  BY <1>4, <1>5, <1>9, <1>10 DEF IndInv

LEMMA FeedNext == ASSUME IndInv, Tick \/ Publish \/ Edit PROVE IndInv'
  BY TurnNext DEF Tick, Publish, Edit

LEMMA BecomesDueNext == ASSUME IndInv, NEW u \in Users, BecomesDue(u) PROVE IndInv'
<1>1. UNCHANGED <<now, feed, job, fails, faults, got, leftOut>>
  BY DEF BecomesDue, world, history
<1> DEFINE new == [row[u] EXCEPT !.sched = "past"]
<1>2. row[u] \in Row
  BY Types DEF IndInv
<1>3. /\ new \in Row /\ new.on = row[u].on /\ new.known = row[u].known
      /\ new.joined = row[u].joined
  BY <1>2 DEF Row
<1>4. row' = [row EXCEPT ![u] = new]
  BY DEF BecomesDue
<1> HIDE DEF new
<1>5. /\ row' \in [Users -> Row]
      /\ \A v \in Users : /\ row'[v].on = row[v].on /\ row'[v].known = row[v].known
                          /\ row'[v].joined = row[v].joined
  BY <1>3, <1>4 DEF IndInv, TypeOK
<1>6. TypeOK'
  BY <1>1, <1>5 DEF IndInv, TypeOK
<1>7. FeedInv' /\ RowInv'
  BY <1>1, <1>5 DEF IndInv, FeedInv, RowInv, Copy
<1>8. \A g \in Groups, v \in Users : Payload(g, v) => Payload(g, v)'
  BY <1>1, <1>5 DEF Payload, Seen, Kept, Settled, Handed
<1>9. \A g \in Groups : Copy(job[g].page) => Copy(job[g].page)'
  BY <1>1 DEF Copy
<1>10. JobInv'
  BY <1>1, <1>8, <1>9, Types, RecordTypes DEF IndInv, JobInv
<1>11. NothingMissed'
  BY <1>1, <1>5 DEF IndInv, NothingMissed, Settled, Handed, StillToCome
<1> QED
  BY <1>6, <1>7, <1>10, <1>11 DEF IndInv

\* AddBulk of a job whose payload tells nothing that is not kept.
LEMMA AddJobNext ==
  ASSUME IndInv, NEW g \in Groups, NEW know \in [Users -> Known], AddJob(g, know),
         UNCHANGED <<world, row, fails, history>>, faults' \in 0..MaxFaults,
         \A u \in g \cap Users : row[u].on /\ know[u].mr <= now /\ Seen(u, know[u].mr)
  PROVE  IndInv'
<1>1. CASE job[g].st = "none"
  <2> DEFINE new == [NoJob EXCEPT !.st = "waiting", !.know = know]
  <2>1. /\ new \in Job /\ new.st = "waiting" /\ new.know = know
        /\ new.left = {} /\ new.tasks = {}
    BY NoJobType DEF Job
  <2>2. job' = [job EXCEPT ![g] = new]
    BY <1>1 DEF AddJob
  <2> HIDE DEF new
  <2>3. job[g].tasks = {}
    BY <1>1 DEF IndInv, JobInv
  <2>4. fails' \in Nat
    BY DEF IndInv, TypeOK
  <2> QED
    BY <2>1, <2>2, <2>3, <2>4, QuietStep
<1>2. CASE job[g].st # "none"
  <2>1. job' = job
    BY <1>2 DEF AddJob
  <2>2. UNCHANGED <<now, feed, row, job, fails, got, leftOut>>
    BY <2>1 DEF world, history
  <2> QED
    BY <2>2 DEF IndInv, TypeOK, FeedInv, RowInv, JobInv, NothingMissed, Payload, Copy, Seen, Kept,
                Settled, Handed, StillToCome
<1> QED
  BY <1>1, <1>2

LEMMA RefreshAllNext == ASSUME IndInv, HandleRefreshAllFeeds PROVE IndInv'
<1> DEFINE due == {u \in Users : IsDue(u)}
           know == [u \in Users |-> IF u \in due THEN row[u].known ELSE Unknown]
<1>1. PICK others \in SUBSET Strangers : AddJob(due \cup others, know)
  BY DEF HandleRefreshAllFeeds
<1>2. due \cup others \in Groups /\ (due \cup others) \cap Users = due
  BY FeedAssumption DEF Groups, HandleRefreshAllFeeds
<1>3. know \in [Users -> Known]
  BY Types, RecordTypes, NoJobType DEF IndInv
<1>4. ASSUME NEW u \in due
      PROVE  row[u].on /\ know[u].mr <= now /\ Seen(u, know[u].mr)
  <2>1. row[u].on /\ know[u] = row[u].known
    BY DEF IsDue
  <2>2. row[u].known.mr \in Nat /\ row[u].known.mr <= now /\ feed.entries \subseteq Nat
    BY Types, RecordTypes DEF IndInv, RowInv
  <2>3. Seen(u, row[u].known.mr)
    BY <2>1, <2>2 DEF IndInv, NothingMissed, Seen, Kept, StillToCome
  <2> QED
    BY <2>1, <2>2, <2>3
<1>5. /\ UNCHANGED <<world, row, fails, history>> /\ faults' \in 0..MaxFaults
  BY DEF HandleRefreshAllFeeds, IndInv, TypeOK
<1> HIDE DEF due, know
<1> QED
  BY <1>1, <1>2, <1>3, <1>4, <1>5, AddJobNext

\* Nobody had a job for the user; what the feed has is older than the row.
LEMMA SubscribeNext == ASSUME IndInv, NEW u \in Users, Subscribe(u) PROVE IndInv'
<1> DEFINE r == [on |-> TRUE, known |-> Unknown, sched |-> "null", joined |-> now]
           know == [v \in Users |-> Unknown]
           new == [NoJob EXCEPT !.st = "waiting", !.know = know]
<1>1. /\ UNCHANGED <<now, feed, fails, got, leftOut>> /\ faults' \in 0..MaxFaults /\ ~row[u].on
  <2>1. UNCHANGED faults \/ Fault
    BY DEF Subscribe
  <2>2. faults' \in 0..MaxFaults
    BY <2>1, FeedAssumption DEF Fault, IndInv, TypeOK
  <2> QED
    BY <2>2 DEF Subscribe, world, history
<1>2. /\ now \in Nat /\ feed.entries \subseteq Nat /\ feed.changed \in Nat
      /\ \A e \in feed.entries : e <= now
  BY Types DEF IndInv, FeedInv, Copy
<1>3. /\ r \in Row /\ r.on /\ r.known = Unknown /\ r.joined = now
      /\ Unknown.mr = 0 /\ Unknown.checksum = 0
  BY <1>2, NoJobType DEF Row, Unknown
<1>4. /\ new \in Job /\ new.st = "waiting" /\ new.know = know
      /\ new.left = {} /\ new.tasks = {} /\ know \in [Users -> Known]
  BY NoJobType DEF Job
<1>5. row' = [row EXCEPT ![u] = r]
  BY DEF Subscribe
<1>6. \/ job' = job
      \/ job[{u}].st = "none" /\ job' = [job EXCEPT ![{u}] = new]
  BY DEF Subscribe, AddJob
<1>7. {u} \in Groups
  BY DEF Groups
<1> HIDE DEF r, new
<1>8. row' \in [Users -> Row] /\ \A v \in Users : row'[v] = IF v = u THEN r ELSE row[v]
  BY <1>3, <1>5 DEF IndInv, TypeOK
<1>9. /\ job' \in [Groups -> Job]
      /\ \A g \in Groups : job'[g] = job[g] \/ (g = {u} /\ job[g].st = "none" /\ job'[g] = new)
  BY <1>4, <1>6, <1>7 DEF IndInv, TypeOK
<1>10. \A g \in Groups : job'[g].tasks = job[g].tasks
  BY <1>4, <1>9 DEF IndInv, JobInv
<1>11. \A v \in Users, e \in Nat : Kept(v, e) => Kept(v, e)'
  BY <1>1, <1>10 DEF Kept, Settled, Handed
<1>12. TypeOK'
  BY <1>1, <1>8, <1>9 DEF IndInv, TypeOK
<1>13. FeedInv' /\ RowInv'
  BY <1>1, <1>2, <1>3, <1>8 DEF IndInv, FeedInv, RowInv, Copy
<1>14. ASSUME NEW g \in Groups, NEW v \in Users, Payload(g, v), job'[g] = job[g]
       PROVE  Payload(g, v)'
  <2>1. v # u
    BY <1>1, <1>14 DEF Payload
  <2> QED
    BY <1>1, <1>2, <1>8, <1>11, <1>14, <2>1 DEF Payload, Seen
<1>15. ASSUME NEW g \in Groups, Copy(job[g].page), job'[g] = job[g] PROVE Copy(job[g].page)'
  BY <1>1, <1>15 DEF Copy
<1>16. JobInv'
  <2> SUFFICES ASSUME NEW g \in Groups
               PROVE  /\ job'[g].left # {} \/ job'[g].tasks # {} => job'[g].st = "running"
                      /\ job'[g].left \subseteq g
                      /\ job'[g].st = "waiting" => \A v \in g \cap Users : Payload(g, v)'
                      /\ \A v \in job'[g].left : Payload(g, v)' /\ Copy(job[g].page)'
    BY DEF JobInv
  <2>1. CASE job'[g] = job[g]
    BY <1>14, <1>15, <2>1, Types, RecordTypes DEF IndInv, JobInv
  <2>2. CASE g = {u} /\ job'[g] = new
    <3>1. Payload(g, u)'
      BY <1>1, <1>2, <1>3, <1>4, <1>8, <2>2 DEF Payload, Seen
    <3> QED
      BY <1>4, <2>2, <3>1
  <2> QED
    BY <1>9, <2>1, <2>2
<1>17. NothingMissed'
  <2> SUFFICES ASSUME NEW v \in Users, NEW e \in feed.entries, row'[v].on, e > row'[v].joined
               PROVE  (e \in Settled(v) \/ Handed(v, e) \/ StillToCome(v, e))'
    BY <1>1 DEF NothingMissed
  <2>1. v # u
    BY <1>2, <1>3, <1>8
  <2>2. row'[v] = row[v] /\ (e \in Settled(v) \/ Handed(v, e) \/ StillToCome(v, e))
    BY <1>8, <2>1 DEF IndInv, NothingMissed
  <2> QED
    BY <1>1, <1>10, <2>2 DEF Settled, Handed, StillToCome
<1> QED
  BY <1>12, <1>13, <1>16, <1>17 DEF IndInv

-----------------------------------------------------------------------------
(* The job.                                                                *)

LEMMA FailJobNext ==
  ASSUME IndInv, NEW g \in Groups, job[g].st = "waiting", FailJob(g),
         UNCHANGED <<world, row, history>>, fails' \in Nat, faults' \in 0..MaxFaults
  PROVE  IndInv'
<1>1. /\ job[g] \in Job /\ job[g].left = {} /\ job[g].tasks = {} /\ job[g].tries \in 0..2
      /\ \A u \in g \cap Users : Payload(g, u)
  BY Types, RecordTypes DEF IndInv, JobInv
<1>2. CASE job' = [job EXCEPT ![g] = Finish("ended")]
  <2>1. \A u \in Finish("ended").left : Copy(Finish("ended").page)
    BY Finished
  <2> QED
    BY <1>1, <1>2, <2>1, Finished, QuietStep
<1>3. CASE job[g].tries + 1 < 3 /\ job' = [job EXCEPT ![g] = [job[g] EXCEPT !.tries = job[g].tries + 1]]
  <2> DEFINE new == [job[g] EXCEPT !.tries = job[g].tries + 1]
  <2>1. /\ new \in Job /\ new.st = "waiting" /\ new.know = job[g].know
        /\ new.left = {} /\ new.tasks = {}
    BY <1>1, <1>3 DEF Job
  <2>2. job' = [job EXCEPT ![g] = new]
    BY <1>3
  <2> HIDE DEF new
  <2> QED
    BY <1>1, <2>1, <2>2, QuietStep DEF Payload
<1> QED
  BY <1>2, <1>3 DEF FailJob, Failed

LEMMA RefuseNext == ASSUME IndInv, NEW g \in Groups, RefuseBlocked(g) PROVE IndInv'
  BY FailJobNext DEF RefuseBlocked, IndInv, TypeOK

LEMMA FetchFailsNext == ASSUME IndInv, NEW g \in Groups, FetchFails(g) PROVE IndInv'
<1>1. fails' \in Nat /\ faults' \in 0..MaxFaults
  BY FeedAssumption DEF FetchFails, Fault, IndInv, TypeOK
<1> QED
  BY <1>1, FailJobNext DEF FetchFails

LEMMA FetchNext == ASSUME IndInv, NEW g \in Groups, Fetch(g) PROVE IndInv'
<1> DEFINE new == [job[g] EXCEPT !.st = "running", !.page = feed, !.left = g \cap Users]
<1>1. /\ job[g] \in Job /\ job[g].tasks = {} /\ feed \in Feed
      /\ \A u \in g \cap Users : Payload(g, u)
  BY Types DEF Fetch, IndInv, JobInv
<1>2. /\ new \in Job /\ new.st = "running" /\ new.page = feed /\ new.know = job[g].know
      /\ new.left = g \cap Users /\ new.tasks = job[g].tasks
  BY <1>1 DEF Job
<1>3. /\ job' = [job EXCEPT ![g] = new]
      /\ UNCHANGED <<world, row, history>> /\ fails' \in Nat /\ faults' \in 0..MaxFaults
  BY DEF Fetch, IndInv, TypeOK
<1>4. Copy(feed)
  BY DEF IndInv, FeedInv
<1> HIDE DEF new
<1>5. /\ new.left \subseteq g /\ \A u \in new.left : Copy(new.page)
      /\ \A u \in g \cap Users : row[u].on /\ new.know[u].mr <= now /\ Seen(u, new.know[u].mr)
  BY <1>1, <1>2, <1>4 DEF Payload
<1> QED
  BY <1>2, <1>3, <1>5, QuietStep

-----------------------------------------------------------------------------
(* processSubscription.                                                    *)

LEMMA ProcessedType ==
  ASSUME NEW j \in Job, NEW u \in Users, NEW tasks \in SUBSET (Users \X Nat)
  PROVE  LET new == Processed(j, u, tasks) IN
         /\ new \in Job /\ new.st = j.st /\ new.left = j.left \ {u} /\ new.tasks = j.tasks \cup tasks
         /\ \A v \in Users \ {u} : new.know[v] = j.know[v]
         /\ \A v \in new.left : new.page = j.page
<1> DEFINE page == IF j.left = {u} THEN NoFeed ELSE j.page
           know == [j.know EXCEPT ![u] = Unknown]
           first == [j EXCEPT !.left = j.left \ {u}, !.know = know]
           second == [first EXCEPT !.tasks = j.tasks \cup tasks]
           new == Processed(j, u, tasks)
<1>1. /\ page \in Feed /\ know \in [Users -> Known] /\ \A v \in Users \ {u} : know[v] = j.know[v]
      /\ j.left \ {u} \in SUBSET Users /\ j.tasks \cup tasks \in SUBSET (Users \X Nat)
  BY RecordTypes, NoJobType
<1>2. j.left \ {u} # {} => page = j.page
  OBVIOUS
<1>3. new = [second EXCEPT !.page = page]
  BY DEF Processed, Job
<1> HIDE DEF page, know, new, second
<1>4. first \in Job /\ first.st = j.st /\ first.left = j.left \ {u} /\ first.know = know
  BY <1>1 DEF Job
<1> HIDE DEF first
<1>5. /\ second \in Job /\ second.st = j.st /\ second.left = j.left \ {u} /\ second.know = know
      /\ second.tasks = j.tasks \cup tasks
  BY <1>1, <1>4 DEF Job, second
<1>6. /\ new \in Job /\ new.st = j.st /\ new.left = j.left \ {u} /\ new.know = know
      /\ new.tasks = j.tasks \cup tasks /\ new.page = page
  BY <1>1, <1>3, <1>5 DEF Job
<1>7. /\ new \in Job /\ new.st = j.st /\ new.left = j.left \ {u} /\ new.tasks = j.tasks \cup tasks
      /\ \A v \in Users \ {u} : new.know[v] = j.know[v]
      /\ \A v \in new.left : new.page = j.page
  BY <1>1, <1>2, <1>6
<1> QED
  BY <1>7 DEF new

LEMMA SkipNext ==
  ASSUME IndInv, NEW g \in Groups, NEW u \in g \cap Users, SkipSubscription(g, u)
  PROVE  IndInv'
<1> DEFINE tasks == {}
           new == Processed(job[g], u, tasks)
<1>1. /\ job[g] \in Job /\ job[g].st = "running" /\ job[g].left \subseteq g \cap Users
      /\ \A v \in job[g].left : Payload(g, v) /\ Copy(job[g].page)
  BY Types, RecordTypes DEF SkipSubscription, IndInv, JobInv
<1>2. tasks \in SUBSET (Users \X Nat) /\ job[g].tasks \cup tasks = job[g].tasks
  OBVIOUS
<1>3. /\ job' = [job EXCEPT ![g] = new]
      /\ UNCHANGED <<world, row, history>> /\ fails' \in Nat /\ faults' \in 0..MaxFaults
  BY DEF SkipSubscription, IndInv, TypeOK
<1> HIDE DEF tasks
<1>4. /\ new \in Job /\ new.st = "running" /\ new.left = job[g].left \ {u}
      /\ new.tasks = job[g].tasks
      /\ \A v \in Users \ {u} : new.know[v] = job[g].know[v]
      /\ \A v \in new.left : new.page = job[g].page
  <2>1. /\ new \in Job /\ new.st = job[g].st /\ new.left = job[g].left \ {u}
        /\ new.tasks = job[g].tasks \cup tasks
        /\ \A v \in Users \ {u} : new.know[v] = job[g].know[v]
        /\ \A v \in new.left : new.page = job[g].page
    BY <1>1, <1>2, ProcessedType
  <2> QED
    BY <1>1, <1>2, <2>1
<1> HIDE DEF new
<1>5. /\ new.left \subseteq g /\ \A v \in new.left : Copy(new.page)
      /\ \A v \in g \cap Users : new.st = "waiting" \/ v \in new.left =>
           row[v].on /\ new.know[v].mr <= now /\ Seen(v, new.know[v].mr)
  BY <1>1, <1>4 DEF Payload
<1> QED
  BY <1>3, <1>4, <1>5, QuietStep

\* What a payload did not say to be seen is handed over or left out, and the
\* row says as much of the page as this.
LEMMA ProcessNext ==
  ASSUME IndInv, NEW g \in Groups, NEW u \in g \cap Users, ProcessSubscription(g, u)
  PROVE  IndInv'
<1> DEFINE mr == job[g].know[u].mr
           page == job[g].page
           wanted == Wanted(mr, page.entries)
<1>1. /\ job[g] \in Job /\ job[g].st = "running" /\ job[g].left \subseteq g \cap Users
      /\ u \in job[g].left /\ \A v \in job[g].left : Payload(g, v) /\ Copy(job[g].page)
  BY Types, RecordTypes DEF ProcessSubscription, IndInv, JobInv
<1>2. /\ page.entries \subseteq feed.entries /\ page.entries \subseteq Nat /\ page.changed \in Nat
      /\ page.changed <= feed.changed /\ feed.changed <= now /\ now \in Nat
      /\ feed.entries \subseteq Nat /\ feed.changed \in Nat
      /\ \A e \in feed.entries : (e \in page.entries <=> e <= page.changed) /\ e <= feed.changed
  BY <1>1, Types, RecordTypes DEF IndInv, FeedInv, Copy
<1>3. row[u].on /\ mr \in Nat /\ mr <= now /\ Seen(u, mr)
  BY <1>1, RecordTypes DEF Payload
<1>4. PICK given \in SUBSET wanted : \E failed \in SUBSET (wanted \ given), r \in {0} \cup Dates :
        /\ MostRecent(given, r)
        /\ \/ row' = Updated(u, r, page) /\ (UNCHANGED faults \/ Fault)
           \/ UNCHANGED row /\ Fault
        /\ got' = [got EXCEPT ![u] = got[u] \cup {e \in given : SavesPage(u, e)}]
        /\ leftOut' = [leftOut EXCEPT ![u] = leftOut[u] \cup (Unseen(mr, page.entries) \ given)]
        /\ job' = [job EXCEPT ![g] =
             Processed(job[g], u, {u} \X {e \in given : ~SavesPage(u, e)})]
  BY DEF ProcessSubscription
<1>5. PICK r \in {0} \cup Dates :
        /\ MostRecent(given, r)
        /\ \/ row' = Updated(u, r, page) /\ (UNCHANGED faults \/ Fault)
           \/ UNCHANGED row /\ Fault
  BY <1>4
<1>6. given \subseteq page.entries /\ given \subseteq Nat
  BY <1>2 DEF Wanted
<1> DEFINE tasks == {u} \X {e \in given : ~SavesPage(u, e)}
           new == Processed(job[g], u, tasks)
<1>7. /\ got' = [got EXCEPT ![u] = got[u] \cup {e \in given : SavesPage(u, e)}]
      /\ leftOut' = [leftOut EXCEPT ![u] = leftOut[u] \cup (Unseen(mr, page.entries) \ given)]
      /\ job' = [job EXCEPT ![g] = new] /\ UNCHANGED <<now, feed, fails>>
  BY <1>4 DEF ProcessSubscription, world
<1>8. tasks \in SUBSET (Users \X Nat) /\ \A e \in given : ~SavesPage(u, e) => <<u, e>> \in tasks
  BY <1>6
<1> HIDE DEF tasks
<1>9. /\ new \in Job /\ new.st = "running" /\ new.left = job[g].left \ {u}
      /\ new.tasks = job[g].tasks \cup tasks
      /\ \A v \in Users \ {u} : new.know[v] = job[g].know[v]
      /\ \A v \in new.left : new.page = job[g].page
  BY <1>1, <1>8, ProcessedType
<1> HIDE DEF new, wanted
<1>10. fails' \in Nat /\ faults' \in 0..MaxFaults
  BY <1>5, <1>7, FeedAssumption DEF Fault, IndInv, TypeOK
<1>11. /\ got' \in [Users -> SUBSET Nat] /\ leftOut' \in [Users -> SUBSET Nat]
       /\ \A v \in Users : got[v] \subseteq got'[v] /\ leftOut[v] \subseteq leftOut'[v]
       /\ {e \in given : SavesPage(u, e)} \subseteq got'[u]
       /\ Unseen(mr, page.entries) \ given \subseteq leftOut'[u]
  <2>1. /\ {e \in given : SavesPage(u, e)} \subseteq Nat
        /\ Unseen(mr, page.entries) \ given \subseteq Nat
    BY <1>2, <1>6 DEF Unseen
  <2> QED
    BY <1>7, <2>1 DEF IndInv, TypeOK
<1>12. \A h \in Groups : job[h].tasks \subseteq job'[h].tasks
  BY <1>7, <1>9 DEF IndInv, TypeOK
<1>13. ASSUME NEW v \in Users, NEW e \in Nat, Kept(v, e) PROVE Kept(v, e)'
  BY <1>11, <1>12, <1>13 DEF Kept, Settled, Handed
<1>14. ASSUME NEW e \in page.entries, mr = 0 \/ e > mr PROVE Kept(u, e)'
  <2>1. e \in Unseen(mr, page.entries)
    BY <1>14 DEF Unseen
  <2>2. CASE e \in given /\ ~SavesPage(u, e)
    <3>1. job'[g].tasks = new.tasks
      BY <1>7 DEF IndInv, TypeOK
    <3>2. <<u, e>> \in job'[g].tasks
      BY <1>8, <1>9, <2>2, <3>1
    <3> QED
      BY <3>2 DEF Kept, Handed
  <2> QED
    BY <1>11, <2>1, <2>2 DEF Kept, Settled
<1>15. ASSUME NEW e \in page.entries, e > row[u].joined PROVE Kept(u, e)'
  BY <1>2, <1>3, <1>13, <1>14, <1>15 DEF Seen
<1>16. r \in Nat /\ (r # 0 => r <= page.changed)
  BY <1>2, <1>5, <1>6 DEF MostRecent, Dates
<1> DEFINE updated == [on |-> TRUE, known |-> [mr |-> r, checksum |-> page.changed],
                       sched |-> "later", joined |-> row[u].joined]
<1>17. row[u] \in Row /\ row[u].joined \in Nat
  BY Types, RecordTypes DEF IndInv
<1>18. /\ updated \in Row /\ updated.on /\ updated.joined = row[u].joined
       /\ updated.known.mr = r /\ updated.known.checksum = page.changed
  BY <1>2, <1>16, <1>17 DEF Row, Known
<1>19. row' = [row EXCEPT ![u] = updated] \/ row' = row
  BY <1>5 DEF Updated
<1> HIDE DEF updated
<1>20. /\ row' \in [Users -> Row] /\ \A v \in Users \ {u} : row'[v] = row[v]
       /\ row'[u] = updated \/ row'[u] = row[u]
  BY <1>18, <1>19 DEF IndInv, TypeOK
<1>21. \A v \in Users : /\ row'[v].on = row[v].on /\ row'[v].joined = row[v].joined
                        /\ row'[v].known.mr <= now /\ row'[v].known.checksum <= now
  <2>1. ASSUME NEW v \in Users, row'[v] = row[v]
        PROVE  /\ row'[v].on = row[v].on /\ row'[v].joined = row[v].joined
               /\ row'[v].known.mr <= now /\ row'[v].known.checksum <= now
    BY <2>1 DEF IndInv, RowInv
  <2>2. /\ updated.on = row[u].on /\ updated.joined = row[u].joined
        /\ updated.known.mr <= now /\ updated.known.checksum <= now
    <3>1. updated.on \in BOOLEAN /\ row[u].on \in BOOLEAN
      BY <1>17, <1>18, RecordTypes
    <3> QED
      BY <1>2, <1>3, <1>16, <1>18, <3>1
  <2> QED
    BY <1>20, <2>1, <2>2
<1>22. NothingMissed'
  <2> SUFFICES ASSUME NEW v \in Users, NEW e \in feed.entries, row[v].on, e > row[v].joined
               PROVE  Kept(v, e)' \/ StillToCome(v, e)'
    BY <1>7, <1>21 DEF NothingMissed, Kept
  <2>1. CASE row'[v] = row[v]
    <3>1. Kept(v, e) \/ StillToCome(v, e)
      BY DEF IndInv, NothingMissed, Kept
    <3>2. StillToCome(v, e) => StillToCome(v, e)'
      BY <1>7, <2>1 DEF StillToCome
    <3> QED
      BY <1>2, <1>13, <3>1, <3>2
  <2>2. CASE v = u /\ row'[u] = updated
    <3>1. CASE e \in page.entries
      BY <1>15, <2>2, <3>1
    <3>2. CASE e > page.changed
      <4>1. page.changed # feed.changed
        BY <1>2, <3>2
      <4>2. r = 0 \/ e > r
        BY <1>2, <1>16, <3>2
      <4> QED
        BY <1>7, <1>18, <2>2, <4>1, <4>2 DEF StillToCome
    <3> QED
      BY <1>2, <3>1, <3>2
  <2> QED
    BY <1>20, <2>1, <2>2
<1>23. /\ new.left \subseteq g /\ \A v \in new.left : Copy(new.page)
       /\ \A v \in g \cap Users : new.st = "waiting" \/ v \in new.left =>
            row[v].on /\ new.know[v].mr <= now /\ Seen(v, new.know[v].mr)
  BY <1>1, <1>9 DEF Payload
<1>24. UNCHANGED world
  BY <1>7 DEF world
<1> QED
  BY <1>7, <1>9, <1>10, <1>11, <1>13, <1>20, <1>21, <1>22, <1>23, <1>24, JobStep

\* A job that is over: its tasks have become entries that are got or left out.
LEMMA EndNext ==
  ASSUME IndInv, NEW g \in Groups, NEW st \in {"stuck", "ended"},
         job' = [job EXCEPT ![g] = Finish(st)],
         UNCHANGED <<world, row, fails>>, faults' \in 0..MaxFaults,
         got' \in [Users -> SUBSET Nat], leftOut' \in [Users -> SUBSET Nat],
         \A u \in Users : got[u] \subseteq got'[u] /\ leftOut[u] \subseteq leftOut'[u],
         \A u \in Users, e \in Nat : <<u, e>> \in job[g].tasks => e \in got'[u] \cup leftOut'[u]
  PROVE  IndInv'
<1>1. \A h \in Groups \ {g} : job'[h].tasks = job[h].tasks
  BY DEF IndInv, TypeOK
<1>2. ASSUME NEW u \in Users, NEW e \in Nat, Kept(u, e) PROVE Kept(u, e)'
  <2>1. CASE e \in Settled(u)
    BY <2>1 DEF Kept, Settled
  <2>2. ASSUME NEW h \in Groups, <<u, e>> \in job[h].tasks PROVE Kept(u, e)'
    BY <1>1, <2>2 DEF Kept, Settled, Handed
  <2> QED
    BY <1>2, <2>1, <2>2 DEF Kept, Handed
<1>3. NothingMissed'
  <2> SUFFICES ASSUME NEW u \in Users, NEW e \in feed.entries, row[u].on, e > row[u].joined
               PROVE  Kept(u, e)' \/ StillToCome(u, e)'
    BY DEF NothingMissed, Kept, world
  <2>1. Kept(u, e) \/ StillToCome(u, e)
    BY DEF IndInv, NothingMissed, Kept
  <2>2. StillToCome(u, e) => StillToCome(u, e)'
    BY DEF StillToCome, world
  <2> QED
    BY <1>2, <2>1, <2>2, Types DEF IndInv
<1>4. row' \in [Users -> Row] /\ fails' \in Nat
  BY DEF IndInv, TypeOK
<1>5. \A u \in Users : /\ row'[u].on = row[u].on /\ row'[u].joined = row[u].joined
                       /\ row'[u].known.mr <= now /\ row'[u].known.checksum <= now
  BY DEF IndInv, RowInv
<1>6. /\ Finish(st).left \subseteq g /\ \A u \in Finish(st).left : Copy(Finish(st).page)
      /\ Finish(st).left = {} /\ Finish(st).tasks = {} /\ Finish(st) \in Job
      /\ Finish(st).st # "waiting"
  BY Finished
<1> QED
  BY <1>2, <1>3, <1>4, <1>5, <1>6, JobStep

LEMMA EnqueueNext == ASSUME IndInv, NEW g \in Groups, EnqueueTasks(g) PROVE IndInv'
<1>1. PICK sent \in SUBSET {t[2] : t \in job[g].tasks} :
        /\ UNCHANGED faults \/ Fault
        /\ got' = [u \in Users |-> got[u] \cup {e \in sent : <<u, e>> \in job[g].tasks}]
        /\ leftOut' = [u \in Users |->
             leftOut[u] \cup {t[2] : t \in {s \in job[g].tasks : s[1] = u /\ s[2] \notin sent}}]
  BY DEF EnqueueTasks
<1>2. job[g].tasks \in SUBSET (Users \X Nat)
  BY Types, RecordTypes DEF IndInv
<1>3. faults' \in 0..MaxFaults
  BY <1>1, FeedAssumption DEF Fault, IndInv, TypeOK
<1>4. ASSUME NEW u \in Users
      PROVE  /\ got'[u] \in SUBSET Nat /\ leftOut'[u] \in SUBSET Nat
             /\ got[u] \subseteq got'[u] /\ leftOut[u] \subseteq leftOut'[u]
  <2>1. got[u] \in SUBSET Nat /\ leftOut[u] \in SUBSET Nat
    BY Types DEF IndInv
  <2>2. \A t \in job[g].tasks : t[2] \in Nat
    BY <1>2
  <2> QED
    BY <1>1, <1>2, <2>1, <2>2
<1>5. ASSUME NEW u \in Users, NEW e \in Nat, <<u, e>> \in job[g].tasks
      PROVE  e \in got'[u] \cup leftOut'[u]
  <2>1. CASE e \in sent
    BY <1>1, <1>5, <2>1
  <2>2. CASE e \notin sent
    <3>1. <<u, e>> \in {s \in job[g].tasks : s[1] = u /\ s[2] \notin sent} /\ <<u, e>>[2] = e
      BY <1>5, <2>2
    <3> QED
      BY <1>1, <3>1
  <2> QED
    BY <2>1, <2>2
<1>6. got' \in [Users -> SUBSET Nat] /\ leftOut' \in [Users -> SUBSET Nat]
  BY <1>1, <1>4
<1>7. job' = [job EXCEPT ![g] = Finish("ended")] /\ UNCHANGED <<world, row, fails>>
  BY DEF EnqueueTasks
<1> QED
  BY <1>3, <1>4, <1>5, <1>6, <1>7, EndNext

LEMMA KillNext == ASSUME IndInv, NEW g \in Groups, Kill(g) PROVE IndInv'
<1>1. /\ leftOut' = [u \in Users |->
           leftOut[u] \cup {t[2] : t \in {s \in job[g].tasks : s[1] = u}}]
      /\ UNCHANGED <<world, row, fails>> /\ got' = got
      /\ job' = [job EXCEPT ![g] = Finish("stuck")]
  BY DEF Kill
<1>2. job[g].tasks \in SUBSET (Users \X Nat)
  BY Types, RecordTypes DEF IndInv
<1>3. faults' \in 0..MaxFaults
  BY FeedAssumption DEF Kill, Fault, IndInv, TypeOK
<1>4. ASSUME NEW u \in Users
      PROVE  leftOut'[u] \in SUBSET Nat /\ leftOut[u] \subseteq leftOut'[u]
  <2>1. leftOut[u] \in SUBSET Nat /\ \A t \in job[g].tasks : t[2] \in Nat
    BY <1>2, Types DEF IndInv
  <2> QED
    BY <1>1, <2>1
<1>5. ASSUME NEW u \in Users, NEW e \in Nat, <<u, e>> \in job[g].tasks
      PROVE  e \in got'[u] \cup leftOut'[u]
  <2>1. <<u, e>> \in {s \in job[g].tasks : s[1] = u} /\ <<u, e>>[2] = e
    BY <1>5
  <2> QED
    BY <1>1, <2>1
<1>6. got' \in [Users -> SUBSET Nat] /\ leftOut' \in [Users -> SUBSET Nat]
  BY <1>1, <1>4 DEF IndInv, TypeOK
<1>7. \A u \in Users : got[u] \subseteq got'[u]
  BY <1>1
<1> QED
  BY <1>1, <1>3, <1>4, <1>5, <1>6, <1>7, EndNext

LEMMA ExpireNext ==
  ASSUME IndInv, FailuresExpire \/ \E g \in Groups : JobExpires(g)
  PROVE  IndInv'
<1>1. CASE FailuresExpire
  BY <1>1 DEF FailuresExpire, world, history, IndInv, TypeOK, FeedInv, RowInv, JobInv,
              NothingMissed, Payload, Copy, Seen, Kept, Settled, Handed, StillToCome
<1>2. ASSUME NEW g \in Groups, JobExpires(g) PROVE IndInv'
  <2>1. job[g].tasks = {}
    BY <1>2 DEF JobExpires, IndInv, JobInv
  <2>2. /\ job' = [job EXCEPT ![g] = NoJob]
        /\ UNCHANGED <<world, row, history>> /\ fails' \in Nat /\ faults' \in 0..MaxFaults
    BY <1>2 DEF JobExpires, IndInv, TypeOK
  <2>3. \A u \in NoJob.left : Copy(NoJob.page)
    BY NoJobType
  <2> QED
    BY <2>1, <2>2, <2>3, NoJobType, QuietStep
<1> QED
  BY <1>1, <1>2

-----------------------------------------------------------------------------
(* The theorems.                                                           *)

LEMMA InitInv == Init => IndInv
<1> SUFFICES ASSUME Init PROVE IndInv
  OBVIOUS
<1>1. /\ now = 1 /\ feed = [entries |-> OldEntries, changed |-> 1]
      /\ feed.entries = OldEntries /\ feed.changed = 1
      /\ OldEntries \subseteq {1} /\ 1 \in Dates /\ 0 \in 0..MaxFaults
  BY FeedAssumption DEF Init, Dates
<1>2. /\ \A u \in Users : row[u].known = Unknown /\ ~row[u].on
      /\ \A g \in Groups : job[g] = NoJob
      /\ Unknown.mr = 0 /\ Unknown.checksum = 0
  BY DEF Init, Unknown
<1>3. TypeOK
  <2>1. feed \in Feed
    BY <1>1 DEF Feed
  <2>2. row \in [Users -> Row]
    BY NoJobType DEF Init, Row
  <2>3. job \in [Groups -> Job]
    BY NoJobType DEF Init
  <2> QED
    BY <1>1, <2>1, <2>2, <2>3 DEF Init, TypeOK
<1>4. FeedInv /\ RowInv
  BY <1>1, <1>2 DEF FeedInv, RowInv, Copy
<1>5. JobInv
  BY <1>2, NoJobType DEF JobInv
<1>6. NothingMissed
  BY <1>2 DEF NothingMissed
<1> QED
  BY <1>3, <1>4, <1>5, <1>6 DEF IndInv

LEMMA Inductive == IndInv /\ [Next]_vars => IndInv'
<1> SUFFICES ASSUME IndInv, [Next]_vars PROVE IndInv'
  OBVIOUS
<1>1. ASSUME NEW g \in Groups, RunJob(g) PROVE IndInv'
  BY <1>1, RefuseNext, FetchFailsNext, FetchNext, SkipNext, ProcessNext, EnqueueNext DEF RunJob
<1>2. CASE UNCHANGED vars
  BY <1>2 DEF vars, IndInv, TypeOK, FeedInv, RowInv, JobInv, NothingMissed, Payload, Copy, Seen,
              Kept, Settled, Handed, StillToCome
<1> QED
  BY <1>1, <1>2, FeedNext, BecomesDueNext, SubscribeNext, RefreshAllNext, KillNext, ExpireNext
  DEF Next

\* Every state of the feed's refreshes satisfies the inductive invariant.
THEOREM Invariant == Spec => []IndInv
  BY InitInv, Inductive, PTL DEF Spec

\* TypeOK, for any users, groups, entries and bounds.
THEOREM TypeCorrect == Spec => []TypeOK
<1>1. IndInv => TypeOK
  BY DEF IndInv
<1> QED
  BY <1>1, Invariant, PTL

\* No entry of the feed is lost silently, whatever refreshes overlap, with
\* whatever payloads, and whoever is killed.
THEOREM NothingMissedCorrect == Spec => []NothingMissed
<1>1. IndInv => NothingMissed
  BY DEF IndInv
<1> QED
  BY <1>1, Invariant, PTL

=============================================================================
