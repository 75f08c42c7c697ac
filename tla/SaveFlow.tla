------------------------------- MODULE SaveFlow -------------------------------
(***************************************************************************)
(* How one URL of one user gets into the library: the saveUrl and savePage *)
(* services, the feed refresh that finds the URL, the fetch-content job    *)
(* (internal/handler), the save-page job (internal/jobs/save_page.go), and *)
(* the resolvers that edit the row meanwhile.                              *)
(*                                                                         *)
(* A queue is reduced to what module JobQueue shows of it without crashes  *)
(* and Redis faults: a job is run until it is done or out of attempts, one *)
(* run at a time.  A step is one round trip to PostgreSQL or Redis, or the *)
(* code between two of them.  Times are milliseconds on a small scale.     *)
(***************************************************************************)
EXTENDS Integers, FiniteSets

CONSTANTS
  UrlSavers,    \* calls of saveUrl
  PageSavers,   \* calls of savePage
  Editors,      \* calls of resolvers that edit the item
  Requests,     \* ClientRequestIDs
  Request,      \* the ClientRequestID of each call of saveUrl
  FeedJobs,     \* fetch-content jobs that feed refreshes add
  Undated,      \* those of entries without a date
  NoItem,
  MaxFailures,  \* MaxFeedFetchFailures
  MsPerSec,     \* milliseconds of a second
  Start,        \* the earliest time
  MaxLost,      \* bound: EXPIRE calls that fail
  Casts         \* bound: the sets of calls and feed jobs that meet; "late" is in
                \* one if AddBulk may fail after it added a job, "listed" if the
                \* domain of the URL is localhost or weibo.com

Savers == UrlSavers \cup PageSavers

\* uuid.New() names an item after the call or the feed entry it is made for.
Items == Savers \cup FeedJobs

FetchJobs == Requests \cup FeedJobs

\* save-page_<item>: the id that savePage gives its job.  A fetch-content job
\* adds one save-page job, which has its name here, and another one if it is
\* retried after the first was added.
PageJobs == {"save-page"} \X Items
Again(js) == {"again"} \X js

ParseJobs == FetchJobs \cup Again(FetchJobs) \cup PageJobs

Time == Start .. (Start + MsPerSec - 1)
NoTime == 0

Unix(t) == t \div MsPerSec
Rfc3339(t) == Unix(t) * MsPerSec

\* A time in seconds is never a time in milliseconds.
ASSUME SaveFlowAssumption ==
  /\ NoItem \notin Items \cup Requests
  /\ Request \in [UrlSavers -> Requests]
  /\ UrlSavers \cap PageSavers = {} /\ Savers \cap FeedJobs = {}
  /\ Requests \cap FeedJobs = {} /\ FetchJobs \cap (PageJobs \cup Again(FetchJobs)) = {}
  /\ {MaxFailures, MaxLost} \subseteq Nat
  /\ {MsPerSec, Start} \subseteq Nat \ {0}
  /\ \A t, u \in Time : Unix(t) < Rfc3339(u)
  /\ Undated \subseteq FeedJobs

VARIABLES
  row,      \* the library_item of the user and the URL: their hash is unique
  saver,    \* [pc, item] of each SaveURL or SavePage call
  editor,   \* [pc, seen] of each call that reads a row and saves it back
  fetch,    \* fetch-content jobs
  parse,    \* save-page jobs
  cache,    \* fetch-result:<url> is in Redis
  blobs,    \* <<item, n>>: content/<user>/<item>.<n>.original is stored
  fails,    \* fetch-failure:<domain>, 0 when there is no such key
  ttl,      \* that key has an EXPIRE running
  excused,  \* history: what happened last explains a row that stays PROCESSING
  lost,     \* bound counter: EXPIRE calls that failed
  cast      \* the calls and feed jobs of this behaviour

queues == <<fetch, parse>>
domain == <<fails, ttl>>
vars == <<row, saver, editor, queues, cache, blobs, domain, excused, lost, cast>>

NoRow == [id |-> NoItem, state |-> "none"]
State == {"PROCESSING", "SUCCEEDED", "FAILED", "ARCHIVED", "DELETED"}

NoFetch == [st |-> "none", tries |-> 0, item |-> NoItem, savedAt |-> NoTime, pdf |-> FALSE]
NoParse == [st |-> "none", tries |-> 0, item |-> NoItem, savedAt |-> NoTime, pdf |-> FALSE,
            keyed |-> FALSE]

MaybeItem == Items \cup {NoItem}

TypeOK ==
  /\ row \in [id: Items, state: State] \cup {NoRow}
  /\ saver \in [Savers -> [pc: {"begin", "found", "written", "ready", "ended"},
                           item: MaybeItem]]
  /\ editor \in [Editors -> [pc: {"begin", "read", "ended"}, seen: State \cup {"none"}]]
  /\ fetch \in [FetchJobs -> [st: {"none", "waiting", "fetching", "counting", "deliver",
                                    "done", "failed"},
                              tries: 0..2, item: MaybeItem, savedAt: Nat, pdf: BOOLEAN]]
  /\ parse \in [ParseJobs -> [st: {"none", "waiting", "upsert", "done", "failed"},
                              tries: 0..2, item: MaybeItem, savedAt: Nat, pdf: BOOLEAN,
                              keyed: BOOLEAN]]
  /\ {cache, ttl, excused} \subseteq BOOLEAN
  /\ blobs \subseteq Items \X Nat
  /\ fails \in Nat
  /\ lost \in 0..MaxLost
  /\ cast \in Casts

Init ==
  /\ row = NoRow
  /\ saver = [s \in Savers |-> [pc |-> "begin", item |-> NoItem]]
  /\ editor = [e \in Editors |-> [pc |-> "begin", seen |-> "none"]]
  /\ fetch = [j \in FetchJobs |-> NoFetch]
  /\ parse = [p \in ParseJobs |-> NoParse]
  /\ cache = FALSE
  /\ blobs = {}
  /\ fails = 0
  /\ ttl = FALSE
  /\ excused = FALSE
  /\ lost = 0
  /\ cast \in Casts

\* What is left of a finished job: its id and its item.
Finish(job, st) == [job EXCEPT !.st = st, !.tries = 0, !.savedAt = NoTime, !.pdf = FALSE]

\* A job that may still set the state of the item.
Pending(i) ==
  \/ \E j \in FetchJobs :
       fetch[j].item = i /\ fetch[j].st \in {"waiting", "fetching", "counting", "deliver"}
  \/ \E p \in ParseJobs : parse[p].item = i /\ parse[p].st \in {"waiting", "upsert"}

-----------------------------------------------------------------------------
(* SaveURL and SavePage.                                                   *)

Write(s, pc, i) == saver' = [saver EXCEPT ![s] = [pc |-> pc, item |-> i]]

End(s) == saver' = [saver EXCEPT ![s].pc = "ended"]

FindByURL(s) ==
  /\ saver[s].pc = "begin" /\ s \in cast
  /\ Write(s, "found", row.id)
  /\ UNCHANGED <<row, editor, queues, cache, blobs, domain, excused, lost, cast>>

\* SavePage has the upload before it.
Written(s) == IF s \in PageSavers THEN "written" ELSE "ready"

UpdateRow(s) ==
  /\ saver[s].pc = "found" /\ saver[s].item # NoItem
  /\ row' = [row EXCEPT !.state = "PROCESSING"]
  /\ Write(s, Written(s), saver[s].item)
  /\ UNCHANGED <<editor, queues, cache, blobs, domain, excused, lost, cast>>

\* A bug: INSERT ... ON CONFLICT DO NOTHING.
CreateRowOrIgnore(s) ==
  /\ saver[s].pc = "found" /\ saver[s].item = NoItem
  /\ row' = IF row = NoRow THEN [id |-> s, state |-> "PROCESSING"] ELSE row
  /\ Write(s, Written(s), s)
  /\ UNCHANGED <<editor, queues, cache, blobs, domain, excused, lost, cast>>

\* The unique index refuses a second row for the URL: the call returns an
\* error.
CreateRow(s) ==
  /\ saver[s].pc = "found" /\ saver[s].item = NoItem
  /\ \/ /\ row = NoRow
        /\ row' = [id |-> s, state |-> "PROCESSING"]
        /\ Write(s, Written(s), s)
     \/ row # NoRow /\ End(s) /\ UNCHANGED row
  /\ UNCHANGED <<editor, queues, cache, blobs, domain, excused, lost, cast>>

\* UploadOriginalContent logs the errors of the upload.
UploadPage(s) ==
  /\ saver[s].pc = "written"
  /\ \/ \E now \in Time : blobs' = blobs \cup {<<saver[s].item, Unix(now)>>}
     \/ UNCHANGED blobs
  /\ Write(s, "ready", saver[s].item)
  /\ UNCHANGED <<row, editor, queues, cache, domain, excused, lost, cast>>

\* AddBulk skips a job whose id is still there, whatever became of that job.
Skip(i) == excused' = (excused \/ ~Pending(i)) /\ UNCHANGED queues

EnqueueFetch(s) ==
  LET r == Request[s] IN
  /\ s \in UrlSavers /\ saver[s].pc = "ready"
  /\ \/ /\ fetch[r].st = "none"
        /\ fetch' = [fetch EXCEPT ![r] = [@ EXCEPT !.st = "waiting", !.item = saver[s].item]]
        /\ excused' = FALSE
        /\ UNCHANGED parse
     \/ fetch[r].st # "none" /\ Skip(saver[s].item)
  /\ End(s)
  /\ UNCHANGED <<row, editor, cache, blobs, domain, lost, cast>>

EnqueueParse(s) ==
  LET i == saver[s].item
      p == <<"save-page", i>>
  IN
  /\ s \in PageSavers /\ saver[s].pc = "ready"
  /\ \/ /\ parse[p].st = "none"
        /\ parse' = [parse EXCEPT ![p] = [@ EXCEPT !.st = "waiting", !.item = i]]
        /\ excused' = FALSE
        /\ UNCHANGED fetch
     \/ parse[p].st # "none" /\ Skip(i)
  /\ End(s)
  /\ UNCHANGED <<row, editor, cache, blobs, domain, lost, cast>>

\* AddBulk fails or the API process ends: the row stays as it was written.
SaveFails(s) ==
  /\ saver[s].pc \in {"written", "ready"}
  /\ End(s)
  /\ excused' = TRUE
  /\ UNCHANGED <<row, editor, queues, cache, blobs, domain, lost, cast>>

\* itemISODate: an entry without a date has none.
EntryDate(j, date) == IF j \in Undated THEN NoTime ELSE Rfc3339(date)

\* enqueueFetchContentTasks: a new item id, no row yet, the date of the entry.
FeedFinds(j, date) ==
  /\ fetch[j].st = "none" /\ j \in cast
  /\ fetch' = [fetch EXCEPT ![j] = [@ EXCEPT !.st = "waiting", !.item = j,
                                             !.savedAt = EntryDate(j, date)]]
  /\ UNCHANGED <<row, saver, editor, parse, cache, blobs, domain, excused, lost, cast>>

-----------------------------------------------------------------------------
(* SetLinkArchived, SetBookmarkArticle, UpdatePage: GetByID, then a Save of *)
(* every column.                                                           *)

GetByID(e) ==
  /\ editor[e].pc = "begin" /\ e \in cast /\ row # NoRow
  /\ editor' = [editor EXCEPT ![e] = [pc |-> "read", seen |-> row.state]]
  /\ UNCHANGED <<row, saver, queues, cache, blobs, domain, excused, lost, cast>>

SaveBack(e, new) ==
  /\ editor[e].pc = "read"
  /\ row' = [row EXCEPT !.state = new]
  /\ excused' = (excused \/ new = "PROCESSING")
  /\ editor' = [editor EXCEPT ![e].pc = "ended"]
  /\ UNCHANGED <<saver, queues, cache, blobs, domain, lost, cast>>

\* SetLinkArchived with and without archived, SetBookmarkArticle without
\* bookmark.
SetState(e) == \E new \in {"ARCHIVED", "SUCCEEDED", "DELETED"} : SaveBack(e, new)

\* The state is the one that was read unless the input has one.
UpdatePage(e) ==
  \/ SaveBack(e, editor[e].seen)
  \/ \E new \in State : SaveBack(e, new)

-----------------------------------------------------------------------------
(* ProcessFetchContentJob.                                                 *)

\* isDomainBlocked knows some domains, and counts the failures of the others.
Listed == "listed" \in cast
CountedOut == fails > MaxFailures

\* The item of a job that ends without setting its state.
Excuse(i) == excused' = (excused \/ i = row.id)

\* A blocked domain: the job is completed and nothing is fetched.
DropBlocked(j) ==
  /\ fetch[j].st = "waiting"
  /\ Listed \/ CountedOut
  /\ fetch' = [fetch EXCEPT ![j] = Finish(@, "done")]
  /\ Excuse(fetch[j].item)
  /\ UNCHANGED <<row, saver, editor, parse, cache, blobs, domain, lost, cast>>

\* A GET that fails, of the counter or of the cache, is logged and the job goes
\* on: as if the domain were not blocked, or the page not cached.
GetCachedResult(j) ==
  /\ fetch[j].st = "waiting" /\ ~Listed
  /\ \E st \in {"fetching"} \cup (IF cache THEN {"deliver"} ELSE {}) :
       fetch' = [fetch EXCEPT ![j].st = st, ![j].pdf = FALSE]
  /\ UNCHANGED <<row, saver, editor, parse, cache, blobs, domain, excused, lost, cast>>

\* A bug: no save-page job for a PDF.
PdfForgotten(j) ==
  /\ fetch[j].st = "fetching"
  /\ \/ fetch' = [fetch EXCEPT ![j].st = "deliver"] /\ cache' = TRUE
     \/ fetch' = [fetch EXCEPT ![j] = Finish(@, "done")] /\ UNCHANGED cache
  /\ UNCHANGED <<row, saver, editor, parse, blobs, domain, excused, lost, cast>>

\* SETNX, whose error is logged.
CacheResult == cache' = TRUE \/ UNCHANGED cache

\* A page, which is cached unless its URL is in NoCacheURLs; or a PDF, whose
\* content is empty.
FetchSucceeds(j) ==
  /\ fetch[j].st = "fetching"
  /\ \E isPdf \in BOOLEAN :
       /\ fetch' = [fetch EXCEPT ![j].st = "deliver", ![j].pdf = isPdf]
       /\ IF isPdf THEN UNCHANGED cache ELSE CacheResult
  /\ UNCHANGED <<row, saver, editor, parse, blobs, domain, excused, lost, cast>>

\* A bug: one attempt too many.
FailedInclusive(job, attempts) ==
  IF job.tries + 1 <= attempts
    THEN [job EXCEPT !.tries = @ + 1, !.st = "waiting"]
    ELSE Finish(job, "failed")

\* FailJob, as module JobQueue has it; a retried job is promoted at once.
Failed(job, attempts) ==
  IF job.tries + 1 < attempts
    THEN [job EXCEPT !.tries = @ + 1, !.st = "waiting"]
    ELSE Finish(job, "failed")

FetchAttempts(j) == IF j \in Requests THEN 2 ELSE 3

FailFetch(j) ==
  /\ fetch' = [fetch EXCEPT ![j] = Failed(@, FetchAttempts(j))]
  /\ \/ fetch'[j].st = "failed" /\ Excuse(fetch[j].item)
     \/ fetch'[j].st # "failed" /\ UNCHANGED excused

\* incrementDomainFailure, first call: INCR.  If it fails there is no second
\* call, and the job fails.
FetchFails(j) ==
  /\ fetch[j].st = "fetching"
  /\ \/ /\ fails' = fails + 1
        /\ fetch' = [fetch EXCEPT ![j].st = "counting"]
        /\ UNCHANGED excused
     \/ FailFetch(j) /\ UNCHANGED fails
  /\ UNCHANGED <<row, saver, editor, parse, cache, blobs, ttl, lost, cast>>

\* A bug: only the first failure sets the EXPIRE.
ExpireFirst(j) ==
  /\ fetch[j].st = "counting"
  /\ \/ ttl' = (ttl \/ fails = 1) /\ UNCHANGED lost
     \/ lost < MaxLost /\ lost' = lost + 1 /\ UNCHANGED ttl
  /\ FailFetch(j)
  /\ UNCHANGED <<row, saver, editor, parse, cache, blobs, fails, cast>>

\* Second call: EXPIRE, whose error is dropped, and the job fails.
ExpireFailures(j) ==
  /\ fetch[j].st = "counting"
  /\ \/ ttl' = (fails > 0) /\ UNCHANGED lost
     \/ lost < MaxLost /\ lost' = lost + 1 /\ UNCHANGED ttl
  /\ FailFetch(j)
  /\ UNCHANGED <<row, saver, editor, parse, cache, blobs, fails, cast>>

\* A bug: the time of the upload instead of the job's savedAt.
SavedDateNow(j, now) == now

SavedDate(j, now) == IF fetch[j].savedAt = NoTime THEN now ELSE fetch[j].savedAt

\* AddBulk of the save-page job, whose id comes from the counter.
AddParse(j, date) ==
  LET p == IF parse[j].st = "none" THEN j ELSE <<"again", j>> IN
  parse' = [parse EXCEPT ![p] =
    [NoParse EXCEPT !.st = "waiting", !.item = fetch[j].item, !.keyed = TRUE,
                    !.savedAt = Rfc3339(date), !.pdf = fetch[j].pdf]]

\* The upload, whose errors are logged, and the save-page job.  When AddBulk
\* fails the job fails, and a retry uploads and adds again: what was added (the
\* jobs of the users before, or all with the reply lost) stays.
Deliver(j, now) ==
  LET date == SavedDate(j, now) IN
  /\ fetch[j].st = "deliver"
  /\ \/ ~fetch[j].pdf /\ blobs' = blobs \cup {<<fetch[j].item, date>>}
     \/ UNCHANGED blobs
  /\ \/ /\ AddParse(j, date)
        /\ fetch' = [fetch EXCEPT ![j] = Finish(@, "done")]
        /\ UNCHANGED excused
     \/ FailFetch(j) /\ UNCHANGED parse
     \/ /\ "late" \in cast /\ parse[j].st = "none"
        /\ AddParse(j, date)
        /\ FailFetch(j)
  /\ UNCHANGED <<row, saver, editor, cache, domain, lost, cast>>

-----------------------------------------------------------------------------
(* handleSavePageImpl.                                                     *)

ParseAttempts(p) == IF p \in FeedJobs \cup Again(FeedJobs) THEN 2 ELSE 3

\* PDFs are skipped: the job is completed.
SkipPdf(p) ==
  /\ parse[p].st = "waiting" /\ parse[p].pdf
  /\ parse' = [parse EXCEPT ![p] = Finish(@, "done")]
  /\ Excuse(parse[p].item)
  /\ UNCHANGED <<row, saver, editor, fetch, cache, blobs, domain, lost, cast>>

\* contentBlobPath, in a call at time now.
BlobPath(p, now) ==
  <<parse[p].item, IF parse[p].savedAt = NoTime THEN now ELSE parse[p].savedAt>>

\* fetchContent: the cache, then the storage.  A GET of the cache that fails is
\* a miss; an object that is there is downloaded.
Content(p, now) == (parse[p].keyed /\ cache) \/ BlobPath(p, now) \in blobs

FailParse(p) ==
  /\ parse' = [parse EXCEPT ![p] = Failed(@, ParseAttempts(p))]
  /\ \/ parse'[p].st = "failed" /\ Excuse(parse[p].item)
     \/ parse'[p].st # "failed" /\ UNCHANGED excused
  /\ UNCHANGED row

ReadContent(p, now) ==
  /\ parse[p].st = "waiting" /\ ~parse[p].pdf
  /\ \/ /\ Content(p, now)
        /\ parse' = [parse EXCEPT ![p].st = "upsert"]
        /\ UNCHANGED <<row, excused>>
     \/ BlobPath(p, now) \notin blobs /\ FailParse(p)
  /\ UNCHANGED <<saver, editor, fetch, cache, blobs, domain, lost, cast>>

\* A bug: the parsed content is stored and the state is left alone.
UpsertKeepState(p) ==
  /\ parse[p].st = "upsert"
  /\ \/ /\ row.id = parse[p].item
        /\ parse' = [parse EXCEPT ![p] = Finish(@, "done")]
        /\ UNCHANGED <<row, excused>>
     \/ row.id # parse[p].item /\ FailParse(p)
  /\ UNCHANGED <<saver, editor, fetch, cache, blobs, domain, lost, cast>>

\* SELECT by id, then UPDATE, or an INSERT that the unique index may refuse.
UpsertLibraryItem(p) ==
  /\ parse[p].st = "upsert"
  /\ \/ /\ row.id \in {NoItem, parse[p].item}
        /\ row' = [id |-> parse[p].item, state |-> "SUCCEEDED"]
        /\ parse' = [parse EXCEPT ![p] = Finish(@, "done")]
        /\ UNCHANGED excused
     \/ row.id \notin {NoItem, parse[p].item} /\ FailParse(p)
  /\ UNCHANGED <<saver, editor, fetch, cache, blobs, domain, lost, cast>>

-----------------------------------------------------------------------------
(* Keys that expire: 24 h, 1 h after the last EXPIRE, and a finished job.  *)

CacheExpires ==
  /\ cache
  /\ cache' = FALSE
  /\ UNCHANGED <<row, saver, editor, queues, blobs, domain, excused, lost, cast>>

FailuresExpire ==
  /\ ttl
  /\ fails' = 0
  /\ ttl' = FALSE
  /\ UNCHANGED <<row, saver, editor, queues, cache, blobs, excused, lost, cast>>

PageJobExpires(p) ==
  /\ parse[p].st \in {"done", "failed"}
  /\ parse' = [parse EXCEPT ![p] = NoParse]
  /\ UNCHANGED <<row, saver, editor, fetch, cache, blobs, domain, excused, lost, cast>>

Save(s) ==
  \/ UpdateRow(s)
  \/ CreateRow(s)
  \/ UploadPage(s)
  \/ EnqueueFetch(s)
  \/ EnqueueParse(s)

FetchContent(j) ==
  \/ DropBlocked(j)
  \/ GetCachedResult(j)
  \/ FetchSucceeds(j)
  \/ FetchFails(j)
  \/ ExpireFailures(j)
  \/ \E now \in Time : Deliver(j, now)

SavePage(p) ==
  \/ SkipPdf(p)
  \/ \E now \in Time : ReadContent(p, now)
  \/ UpsertLibraryItem(p)

Next ==
  \/ \E s \in Savers : FindByURL(s) \/ Save(s) \/ SaveFails(s)
  \/ \E j \in FeedJobs, date \in Time : FeedFinds(j, date)
  \/ \E e \in Editors : GetByID(e) \/ SetState(e) \/ UpdatePage(e)
  \/ \E j \in FetchJobs : FetchContent(j)
  \/ \E p \in ParseJobs : SavePage(p)
  \/ CacheExpires \/ FailuresExpire
  \/ \E p \in PageJobs : PageJobExpires(p)

Spec == Init /\ [][Next]_vars

\* Requests that have begun and jobs go on, and Redis expires the failure
\* counter.  Nobody need save or edit, and the cache may live on.
Fairness ==
  /\ \A s \in Savers : WF_vars(Save(s))
  /\ \A j \in FetchJobs : WF_vars(FetchContent(j))
  /\ \A p \in ParseJobs : WF_vars(SavePage(p))
  /\ WF_vars(FailuresExpire)

FairSpec == Spec /\ Fairness

-----------------------------------------------------------------------------
\* A job that saveUrl or savePage added is about the row of the URL: its
\* upsert never inserts a second item, however two saves and a feed race for
\* the unique index (SaveURL, SavePage, upsertLibraryItem).
RowBeforeJob ==
  /\ \A r \in Requests : fetch[r].st # "none" => fetch[r].item = row.id
  /\ \A p \in Requests \cup Again(Requests) \cup PageJobs :
       parse[p].st # "none" => parse[p].item = row.id

\* A row that is PROCESSING has a save under way or a job to come, unless
\* what happened last is one of: the enqueue failed or was skipped as a
\* duplicate of a finished job, the job ran out of attempts, the domain was
\* blocked, the content was a PDF, or an edit saved back a stale PROCESSING.
ProcessingIsPending ==
  row.state = "PROCESSING" /\ ~excused =>
    \/ \E s \in Savers : saver[s].item = row.id /\ saver[s].pc \in {"written", "ready"}
    \/ Pending(row.id)

\* A save ends with a state other than PROCESSING, or for one of those reasons.
SaveSettles == row.state = "PROCESSING" ~> row.state # "PROCESSING" \/ excused

\* The jobs of entries with a date.
Dated == FeedJobs \ Undated

\* If the content of a feed entry with a date was stored at all, and no save of
\* the URL may have stored it again, it is where the save-page job looks for it:
\* the job's date, printed and parsed again, is the date in the name
\* (ProcessFetchContentJob, contentBlobPath).  Without a date, as for undated
\* entries and for every saveUrl, the name has the milliseconds of the upload
\* and the job its second: UploadedPageParsed is about those.
FeedPathsAgree ==
  \A p \in Dated \cup Again(Dated), now \in Time :
    /\ parse[p].st = "waiting"
    /\ \E b \in blobs : b[1] = parse[p].item
    /\ \A s \in Savers : saver[s].item # parse[p].item
    => BlobPath(p, now) \in blobs

\* The jobs between the INCR and the EXPIRE.
Counting == {j \in FetchJobs : fetch[j].st = "counting"}

\* A failure counter without an EXPIRE counts only failures whose EXPIRE
\* failed or is still to come, however the INCRs and EXPIREs of concurrent
\* fetches and the expiry of the key interleave (incrementDomainFailure).
UntimedFailures == ~ttl => fails <= lost + Cardinality(Counting)

\* A domain that its failures block is unblocked again although no job is
\* fetched meanwhile, and although EXPIREs may fail: unless more of them failed
\* than the failures it takes to block it, when the block lasts.  A listed domain
\* is never unblocked (isDomainBlocked, incrementDomainFailure).
BlockIsLifted ==
  CountedOut /\ lost <= MaxFailures ~> ~CountedOut \/ lost > MaxFailures

\* "It uploads content for each user at content/{userId}/{libraryItemId}.
\* {timestampMs}.original" (UploadOriginalContent) and "Path: content/{userId}/
\* {libraryItemId}.{savedAtMs}.original" (contentBlobPath): a page that
\* savePage or ProcessFetchContentJob stored is not given up by the save-page
\* job about it.
UploadedPageParsed ==
  \A p \in ParseJobs : parse[p].st = "failed" => \A b \in blobs : b[1] # parse[p].item

Phase(st) ==
  CASE st = "none" -> "new"
    [] st \in {"done", "failed"} -> st
    [] OTHER -> "open"

FetchQueue == INSTANCE JobOutcome WITH
  Job <- FetchJobs, Attempts <- [j \in FetchJobs |-> FetchAttempts(j)],
  phase <- [j \in FetchJobs |-> Phase(fetch[j].st)],
  failures <- [j \in FetchJobs |-> fetch[j].tries]

ParseQueue == INSTANCE JobOutcome WITH
  Job <- ParseJobs, Attempts <- [p \in ParseJobs |-> ParseAttempts(p)],
  phase <- [p \in ParseJobs |-> Phase(parse[p].st)],
  failures <- [p \in ParseJobs |-> parse[p].tries]

\* Both queues are what JobQueue is to those who add jobs: no handler ends a
\* job, or adds one over another, in a way that CompleteJob, FailJob and
\* AddBulk do not (ProcessFetchContentJob, handleSavePageImpl).
ImplementsQueues == FetchQueue!Spec /\ ParseQueue!Spec

=============================================================================
