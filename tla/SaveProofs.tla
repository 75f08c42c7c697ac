------------------------------ MODULE SaveProofs ------------------------------
(***************************************************************************)
(* What holds of module SaveFlow for any calls, requests, feed jobs, times *)
(* and bounds: its type, the safety invariants that its run checks, the    *)
(* safety half of BlockIsLifted, and that its queues implement JobOutcome. *)
(***************************************************************************)
EXTENDS SaveFlow, FiniteSetTheorems, TLAPS

ActiveFetch == {"waiting", "fetching", "counting", "deliver"}
ActiveParse == {"waiting", "upsert"}

\* The save-page jobs that a fetch-content job may have added.
Added(j) == {j, <<"again", j>>}

\* A call that knows an item knows the one of the row.
SaverInv ==
  \A s \in Savers :
    /\ saver[s].item # NoItem => saver[s].item = row.id
    /\ saver[s].pc = "begin" => saver[s].item = NoItem
    /\ saver[s].pc \in {"written", "ready"} => saver[s].item # NoItem

\* Who has read a row saves back a row.
EditorInv == \A e \in Editors : editor[e].pc = "read" => row.id # NoItem /\ editor[e].seen \in State

\* Where the item of a job comes from.
JobInv ==
  /\ \A j \in FetchJobs : fetch[j].st # "none" => fetch[j].item \in Items
  /\ \A p \in ParseJobs : parse[p].st # "none" => parse[p].item \in Items
  /\ \A j \in FeedJobs : fetch[j].st # "none" => fetch[j].item = j
  /\ \A r \in Requests :
       fetch[r].st # "none" => \E s \in Savers : saver[s].item = fetch[r].item
  /\ \A p \in PageJobs :
       parse[p].st # "none" => \E s \in Savers : saver[s].item = parse[p].item
  /\ \A j \in FetchJobs : \A p \in Added(j) :
       parse[p].st # "none" => fetch[j].st # "none" /\ parse[p].item = fetch[j].item

\* The date of a dated entry's job is its own when it is printed and parsed again, and
\* that of the save-page jobs it adds.
DateInv ==
  \A j \in Dated :
    /\ fetch[j].st \in ActiveFetch =>
         fetch[j].savedAt # NoTime /\ Rfc3339(fetch[j].savedAt) = fetch[j].savedAt
    /\ \A p \in Added(j) :
         parse[p].st \in ActiveParse =>
           /\ parse[p].savedAt # NoTime
           /\ fetch[j].st \in ActiveFetch => parse[p].savedAt = fetch[j].savedAt

Unsaved(j) == \A s \in Savers : saver[s].item # j

\* What was stored for a dated entry's item that no call has saved has that date.
BlobInv ==
  \A j \in Dated, b \in blobs :
    b[1] = j /\ Unsaved(j) =>
      /\ fetch[j].st # "none"
      /\ fetch[j].st \in ActiveFetch => b[2] = fetch[j].savedAt
      /\ \A p \in Added(j) : parse[p].st \in ActiveParse => b[2] = parse[p].savedAt

IndInv ==
  TypeOK /\ SaverInv /\ EditorInv /\ JobInv /\ DateInv /\ BlobInv /\ ProcessingIsPending

LEMMA Printed ==
  ASSUME NEW t \in Nat
  PROVE  /\ Unix(t) \in Nat
         /\ Rfc3339(t) \in Nat
         /\ Rfc3339(Rfc3339(t)) = Rfc3339(t)
<1>1. ASSUME NEW k \in Nat, NEW m \in Nat \ {0} PROVE k \div m \in Nat /\ (k * m) \div m = k
  BY SMT
<1>2. MsPerSec \in Nat \ {0}
  BY SaveFlowAssumption
<1>3. Unix(t) \in Nat
  BY <1>1, <1>2 DEF Unix
<1>4. Rfc3339(t) \in Nat
  BY <1>2, <1>3 DEF Rfc3339
<1>5. Unix(Rfc3339(t)) = Unix(t)
  BY <1>1, <1>2, <1>3 DEF Unix, Rfc3339
<1> QED
  BY <1>3, <1>4, <1>5 DEF Rfc3339

LEMMA Times == Time \subseteq Nat \ {0}
  BY SaveFlowAssumption DEF Time

\* A date that a feed gives is some date when it has been printed.
LEMMA DatePrinted == ASSUME NEW t \in Time PROVE Rfc3339(t) # NoTime
<1>1. Unix(t) < Rfc3339(t)
  BY SaveFlowAssumption
<1>2. Unix(t) \in Nat /\ Rfc3339(t) \in Nat
  BY Times, Printed
<1> QED
  BY <1>1, <1>2 DEF NoTime

-----------------------------------------------------------------------------
(* Types.                                                                  *)

SaverRecord == [pc: {"begin", "found", "written", "ready", "ended"}, item: MaybeItem]

FetchRecord ==
  [st: {"none", "waiting", "fetching", "counting", "deliver", "done", "failed"},
   tries: 0..2, item: MaybeItem, savedAt: Nat, pdf: BOOLEAN]

ParseRecord ==
  [st: {"none", "waiting", "upsert", "done", "failed"},
   tries: 0..2, item: MaybeItem, savedAt: Nat, pdf: BOOLEAN, keyed: BOOLEAN]

\* A job that ends or fails keeps its item; one that is run again, its date.
LEMMA FetchEnds ==
  ASSUME NEW job \in FetchRecord, NEW n \in {1, 2, 3}, NEW st \in {"done", "failed"}
  PROVE  /\ Finish(job, st) \in FetchRecord
         /\ Finish(job, st).st = st /\ Finish(job, st).item = job.item
         /\ Failed(job, n) \in FetchRecord
         /\ Failed(job, n).st \in {"waiting", "failed"} /\ Failed(job, n).item = job.item
         /\ Failed(job, n).st = "waiting" => Failed(job, n).savedAt = job.savedAt
<1>1. ASSUME NEW end \in {"done", "failed"}
      PROVE  /\ Finish(job, end) \in FetchRecord
             /\ Finish(job, end).st = end /\ Finish(job, end).item = job.item
  <2> DEFINE first == [job EXCEPT !.st = end, !.tries = 0]
  <2>0. 0 \in 0..2 /\ end \in {"none", "waiting", "fetching", "counting", "deliver", "done", "failed"}
    OBVIOUS
  <2>1. first \in FetchRecord
    BY <2>0 DEF FetchRecord
  <2>3. first.st = end /\ first.item = job.item
    BY DEF FetchRecord
  <2>2. Finish(job, end) = [first EXCEPT !.savedAt = 0, !.pdf = FALSE]
    BY DEF Finish, NoTime
  <2> HIDE DEF first
  <2>4. [first EXCEPT !.savedAt = 0, !.pdf = FALSE] \in FetchRecord
    <3>1. 0 \in Nat /\ FALSE \in BOOLEAN
      OBVIOUS
    <3> QED
      BY <2>1, <3>1 DEF FetchRecord
  <2>5. Finish(job, end).st = end /\ Finish(job, end).item = job.item
    BY <2>1, <2>2, <2>3 DEF FetchRecord
  <2> QED
    BY <2>2, <2>4, <2>5
<1>2. CASE job.tries + 1 < n
  <2>1. Failed(job, n) = [job EXCEPT !.tries = @ + 1, !.st = "waiting"]
    BY <1>2 DEF Failed
  <2>2. job.tries + 1 \in 0..2
    BY <1>2 DEF FetchRecord
  <2> QED
    BY <1>1, <2>1, <2>2 DEF FetchRecord
<1>3. CASE ~(job.tries + 1 < n)
  <2>1. Failed(job, n) = Finish(job, "failed")
    BY <1>3 DEF Failed
  <2> QED
    BY <1>1, <2>1
<1> QED
  BY <1>2, <1>3

LEMMA ParseEnds ==
  ASSUME NEW job \in ParseRecord, NEW n \in {1, 2, 3}, NEW st \in {"done", "failed"}
  PROVE  /\ Finish(job, st) \in ParseRecord
         /\ Finish(job, st).st = st /\ Finish(job, st).item = job.item
         /\ Failed(job, n) \in ParseRecord
         /\ Failed(job, n).st \in {"waiting", "failed"} /\ Failed(job, n).item = job.item
         /\ Failed(job, n).st = "waiting" => Failed(job, n).savedAt = job.savedAt
<1>1. ASSUME NEW end \in {"done", "failed"}
      PROVE  /\ Finish(job, end) \in ParseRecord
             /\ Finish(job, end).st = end /\ Finish(job, end).item = job.item
  <2> DEFINE first == [job EXCEPT !.st = end, !.tries = 0]
  <2>0. 0 \in 0..2 /\ end \in {"none", "waiting", "upsert", "done", "failed"}
    OBVIOUS
  <2>1. first \in ParseRecord
    BY <2>0 DEF ParseRecord
  <2>3. first.st = end /\ first.item = job.item
    BY DEF ParseRecord
  <2>2. Finish(job, end) = [first EXCEPT !.savedAt = 0, !.pdf = FALSE]
    BY DEF Finish, NoTime
  <2> HIDE DEF first
  <2>4. [first EXCEPT !.savedAt = 0, !.pdf = FALSE] \in ParseRecord
    <3>1. 0 \in Nat /\ FALSE \in BOOLEAN
      OBVIOUS
    <3> QED
      BY <2>1, <3>1 DEF ParseRecord
  <2>5. Finish(job, end).st = end /\ Finish(job, end).item = job.item
    BY <2>1, <2>2, <2>3 DEF ParseRecord
  <2> QED
    BY <2>2, <2>4, <2>5
<1>2. CASE job.tries + 1 < n
  <2>1. Failed(job, n) = [job EXCEPT !.tries = @ + 1, !.st = "waiting"]
    BY <1>2 DEF Failed
  <2>2. job.tries + 1 \in 0..2
    BY <1>2 DEF ParseRecord
  <2> QED
    BY <1>1, <2>1, <2>2 DEF ParseRecord
<1>3. CASE ~(job.tries + 1 < n)
  <2>1. Failed(job, n) = Finish(job, "failed")
    BY <1>3 DEF Failed
  <2> QED
    BY <1>1, <2>1
<1> QED
  BY <1>2, <1>3

-----------------------------------------------------------------------------
(* Moves of a job that leave the row and the calls alone.                  *)

\* What has a type and nothing else.
Loose ==
  /\ cache' \in BOOLEAN /\ ttl' \in BOOLEAN /\ excused' \in BOOLEAN
  /\ fails' \in Nat /\ lost' \in 0..MaxLost /\ cast' = cast

LEMMA JobTypes ==
  ASSUME IndInv
  PROVE  /\ fetch \in [FetchJobs -> FetchRecord] /\ parse \in [ParseJobs -> ParseRecord]
         /\ \A j \in FetchJobs : Added(j) \subseteq ParseJobs
         /\ \A j \in FetchJobs, k \in FetchJobs : j # k => Added(j) \cap Added(k) = {}
         /\ \A j \in FetchJobs : Added(j) \cap PageJobs = {}
         /\ FeedJobs \subseteq FetchJobs /\ Requests \subseteq FetchJobs /\ PageJobs \subseteq ParseJobs
         /\ FeedJobs \cap Requests = {} /\ Dated \subseteq FeedJobs
<1>1. fetch \in [FetchJobs -> FetchRecord] /\ parse \in [ParseJobs -> ParseRecord]
  BY DEF IndInv, TypeOK, FetchRecord, ParseRecord
<1>2. \A j \in FetchJobs : <<"again", j>> \in Again(FetchJobs) /\ <<"again", j>> \notin PageJobs
  BY DEF Again, PageJobs
<1>3. \A j \in FetchJobs : j \notin PageJobs /\ j \notin Again(FetchJobs)
  BY SaveFlowAssumption
<1>4. \A j, k \in FetchJobs : j # k => Added(j) \cap Added(k) = {}
  BY <1>2, <1>3 DEF Added
<1>5. \A j \in FetchJobs : Added(j) \subseteq ParseJobs /\ Added(j) \cap PageJobs = {}
  BY <1>2, <1>3 DEF Added, ParseJobs
<1> QED
  BY <1>1, <1>4, <1>5, SaveFlowAssumption DEF FetchJobs, ParseJobs, Dated

LEMMA RowTypes ==
  ASSUME IndInv
  PROVE  /\ NoItem \notin Items
         /\ row.id \in MaybeItem
         /\ row.id = NoItem <=> row = NoRow
         /\ row.id # NoItem => row \in [id: Items, state: State]
         /\ saver \in [Savers -> SaverRecord]
<1>1. NoItem \notin Items
  BY SaveFlowAssumption
<1>2. row \in [id: Items, state: State] \cup {NoRow}
  BY DEF IndInv, TypeOK
<1>3. NoRow.id = NoItem
  BY DEF NoRow
<1> QED
  BY <1>1, <1>2, <1>3 DEF IndInv, TypeOK, SaverRecord, MaybeItem

\* A fetch-content job may store what it has fetched.
Stores(j) ==
  \/ blobs' = blobs
  \/ \E date \in Nat : /\ fetch[j].st \in ActiveFetch
                       /\ j \in Dated => date = fetch[j].savedAt
                       /\ blobs' = blobs \cup {<<fetch[j].item, date>>}

LEMMA Stored ==
  ASSUME IndInv, NEW j \in FetchJobs, Stores(j)
  PROVE  /\ blobs' \subseteq Items \X Nat
         /\ \A k \in Dated, b \in blobs' \ blobs :
              b[1] = k /\ Unsaved(k) => k = j /\ fetch[j].st \in ActiveFetch /\ b[2] = fetch[j].savedAt
<1>0. blobs \subseteq Items \X Nat
  BY DEF IndInv, TypeOK
<1>1. CASE blobs' = blobs
  BY <1>0, <1>1
<1>2. ASSUME NEW date \in Nat, fetch[j].st \in ActiveFetch, j \in Dated => date = fetch[j].savedAt,
             blobs' = blobs \cup {<<fetch[j].item, date>>}
      PROVE  /\ blobs' \subseteq Items \X Nat
             /\ \A k \in Dated, b \in blobs' \ blobs :
                  b[1] = k /\ Unsaved(k) => k = j /\ b[2] = fetch[j].savedAt
  <2>1. fetch[j].item \in Items
    BY <1>2 DEF IndInv, JobInv, ActiveFetch
  <2>2. ASSUME NEW k \in Dated, Unsaved(k), fetch[j].item = k PROVE k = j
    BY <1>2, <2>2 DEF IndInv, JobInv, ActiveFetch, Unsaved, FetchJobs, Dated
  <2> QED
    BY <1>0, <1>2, <2>1, <2>2
<1> QED
  BY <1>1, <1>2 DEF Stores

\* A fetch-content job goes on, is run again or ends; the end of the last job
\* about the row is excused.
LEMMA FetchMoves ==
  ASSUME IndInv, Loose, NEW j \in FetchJobs, NEW new \in FetchRecord,
         fetch[j].st # "none", new.st # "none", new.item = fetch[j].item,
         new.st \in ActiveFetch => fetch[j].st \in ActiveFetch /\ new.savedAt = fetch[j].savedAt,
         fetch' = [fetch EXCEPT ![j] = new],
         excused \/ (new.st \notin ActiveFetch /\ fetch[j].item = row.id) => excused',
         Stores(j), UNCHANGED <<row, saver, editor, parse>>
  PROVE  IndInv'
<1>1. /\ fetch' \in [FetchJobs -> FetchRecord]
      /\ \A k \in FetchJobs : fetch'[k] = IF k = j THEN new ELSE fetch[k]
  BY JobTypes
<1>2. TypeOK'
  BY <1>1, Stored DEF IndInv, TypeOK, FetchRecord, Loose
<1>3. SaverInv'
  BY DEF IndInv, SaverInv
<1>4. JobInv'
  BY <1>1, JobTypes DEF IndInv, JobInv
<1>5. DateInv'
  BY <1>1, JobTypes DEF IndInv, DateInv
<1>6. BlobInv'
  <2> SUFFICES ASSUME NEW k \in Dated, NEW b \in blobs', b[1] = k, Unsaved(k)'
               PROVE  /\ fetch'[k].st # "none"
                      /\ fetch'[k].st \in ActiveFetch => b[2] = fetch'[k].savedAt
                      /\ \A q \in Added(k) : parse[q].st \in ActiveParse => b[2] = parse[q].savedAt
    BY DEF BlobInv
  <2>1. Unsaved(k) /\ k \in FetchJobs
    BY JobTypes DEF Unsaved
  <2>2. CASE b \in blobs
    BY <1>1, <2>1, <2>2 DEF IndInv, BlobInv
  <2>3. CASE b \notin blobs
    BY <1>1, <2>1, <2>3, Stored DEF IndInv, DateInv
  <2> QED
    BY <2>2, <2>3
<1>7. ProcessingIsPending'
  BY <1>1 DEF IndInv, ProcessingIsPending, Pending, ActiveFetch
<1>8. EditorInv'
  BY RowTypes DEF IndInv, EditorInv
<1> QED
  BY <1>2, <1>3, <1>4, <1>5, <1>6, <1>7, <1>8 DEF IndInv

\* So does a save-page job.
LEMMA ParseMoves ==
  ASSUME IndInv, Loose, NEW p \in ParseJobs, NEW new \in ParseRecord,
         parse[p].st # "none", new.st # "none", new.item = parse[p].item,
         new.st \in ActiveParse => parse[p].st \in ActiveParse /\ new.savedAt = parse[p].savedAt,
         parse' = [parse EXCEPT ![p] = new],
         excused \/ (new.st \notin ActiveParse /\ parse[p].item = row.id) => excused',
         UNCHANGED <<row, saver, editor, fetch, blobs>>
  PROVE  IndInv'
<1>1. /\ parse' \in [ParseJobs -> ParseRecord]
      /\ \A q \in ParseJobs : parse'[q] = IF q = p THEN new ELSE parse[q]
  BY JobTypes
<1>2. TypeOK'
  BY <1>1 DEF IndInv, TypeOK, ParseRecord, Loose
<1>3. SaverInv'
  BY DEF IndInv, SaverInv
<1>4. JobInv'
  BY <1>1, JobTypes DEF IndInv, JobInv
<1>5. DateInv'
  BY <1>1, JobTypes DEF IndInv, DateInv
<1>6. BlobInv'
  BY <1>1, JobTypes DEF IndInv, BlobInv, Unsaved
<1>7. ProcessingIsPending'
  BY <1>1 DEF IndInv, ProcessingIsPending, Pending, ActiveParse
<1>8. EditorInv'
  BY RowTypes DEF IndInv, EditorInv
<1> QED
  BY <1>2, <1>3, <1>4, <1>5, <1>6, <1>7, <1>8 DEF IndInv

-----------------------------------------------------------------------------
(* Moves of a call of SaveURL or SavePage.                                 *)

\* Whatever a call does to the row and the storage, it keeps the item that it
\* knows; it leaves the row PROCESSING only with itself or a job to come.
LEMMA SaverMoves ==
  ASSUME IndInv, Loose, NEW s \in Savers, NEW new \in SaverRecord,
         saver' = [saver EXCEPT ![s] = new],
         saver[s].item # NoItem => new.item = saver[s].item,
         new.item # NoItem => new.item = row'.id,
         new.pc # "begin",
         new.pc \in {"written", "ready"} => new.item # NoItem,
         row' \in [id: Items, state: State] \cup {NoRow},
         row.id # NoItem => row'.id = row.id,
         blobs \subseteq blobs', blobs' \subseteq Items \X Nat,
         \A b \in blobs' \ blobs : b[1] = new.item,
         row'.state = "PROCESSING" /\ ~excused' =>
           \/ new.item = row'.id /\ new.pc \in {"written", "ready"}
           \/ Pending(row'.id)
           \/ row' = row /\ ~excused /\ saver[s].pc \notin {"written", "ready"},
         UNCHANGED <<editor, fetch, parse>>
  PROVE  IndInv'
<1>1. /\ saver' \in [Savers -> SaverRecord]
      /\ \A t \in Savers : saver'[t] = IF t = s THEN new ELSE saver[t]
  BY RowTypes
<1>2. TypeOK'
  BY <1>1 DEF IndInv, TypeOK, SaverRecord, Loose
<1>3. SaverInv'
  BY <1>1, RowTypes DEF IndInv, SaverInv
<1>4. JobInv'
  <2>1. \A t \in Savers : saver[t].item # NoItem => saver'[t].item = saver[t].item
    BY <1>1
  <2>2. \A i \in Items : (\E t \in Savers : saver[t].item = i) => \E t \in Savers : saver'[t].item = i
    BY <2>1, RowTypes
  <2> QED
    BY <2>2, JobTypes DEF IndInv, JobInv
<1>5. DateInv'
  BY DEF IndInv, DateInv
<1>6. BlobInv'
  <2>1. ASSUME NEW j \in Dated, NEW b \in blobs', b[1] = j, Unsaved(j)' PROVE b \in blobs /\ Unsaved(j)
    BY <1>1, <2>1, RowTypes, JobTypes DEF Unsaved, Items
  <2> QED
    BY <2>1 DEF IndInv, BlobInv
<1>7. ProcessingIsPending'
  <2>1. CASE new.item = row'.id /\ new.pc \in {"written", "ready"}
    BY <1>1, <2>1 DEF ProcessingIsPending
  <2>2. CASE Pending(row'.id)
    BY <2>2 DEF ProcessingIsPending, Pending
  <2>3. CASE row' = row /\ ~excused /\ saver[s].pc \notin {"written", "ready"}
    BY <1>1, <2>3 DEF IndInv, ProcessingIsPending, Pending
  <2> QED
    BY <2>1, <2>2, <2>3 DEF ProcessingIsPending
<1>8. EditorInv'
  BY RowTypes DEF IndInv, EditorInv
<1> QED
  BY <1>2, <1>3, <1>4, <1>5, <1>6, <1>7, <1>8 DEF IndInv

\* A call ends.
LEMMA SaverEnds ==
  ASSUME IndInv, NEW s \in Savers, End(s)
  PROVE  /\ saver' \in [Savers -> SaverRecord]
         /\ \A t \in Savers : saver'[t].item = saver[t].item
         /\ \A t \in Savers : t # s => saver'[t] = saver[t]
         /\ saver'[s].pc = "ended"
BY RowTypes DEF End, SaverRecord

LEMMA FindNext == ASSUME IndInv, NEW s \in Savers, FindByURL(s) PROVE IndInv'
<1>1. [pc |-> "found", item |-> row.id] \in SaverRecord
  BY RowTypes DEF SaverRecord
<1>2. saver[s].item = NoItem
  BY DEF FindByURL, IndInv, SaverInv
<1>3. Loose
  BY DEF FindByURL, Loose, IndInv, TypeOK, domain
<1>4. row \in [id: Items, state: State] \cup {NoRow} /\ blobs \subseteq Items \X Nat
  BY DEF IndInv, TypeOK
<1> QED
  BY <1>1, <1>2, <1>3, <1>4, SaverMoves DEF FindByURL, Write, queues

LEMMA UpdateNext == ASSUME IndInv, NEW s \in Savers, UpdateRow(s) PROVE IndInv'
<1> DEFINE new == [pc |-> Written(s), item |-> saver[s].item]
<1>1. saver[s].item = row.id /\ row.id # NoItem
  BY DEF UpdateRow, IndInv, SaverInv
<1>2. new \in SaverRecord /\ new.pc \in {"written", "ready"} /\ new.item = row.id
  BY <1>1, RowTypes DEF SaverRecord, Written
<1>3. Loose
  BY DEF UpdateRow, Loose, IndInv, TypeOK, domain
<1>4. row' \in [id: Items, state: State] /\ row'.id = row.id
  BY <1>1, RowTypes DEF UpdateRow, State
<1>5. blobs' = blobs /\ blobs \subseteq Items \X Nat /\ saver' = [saver EXCEPT ![s] = new]
  BY DEF UpdateRow, IndInv, TypeOK, Write
<1>6. UNCHANGED <<editor, fetch, parse>>
  BY DEF UpdateRow, queues
<1> HIDE DEF new
<1> QED
  BY <1>1, <1>2, <1>3, <1>4, <1>5, <1>6, SaverMoves

LEMMA CreateNext == ASSUME IndInv, NEW s \in Savers, CreateRow(s) PROVE IndInv'
<1>1. Loose /\ UNCHANGED <<editor, fetch, parse>> /\ blobs' = blobs /\ blobs \subseteq Items \X Nat
  BY DEF CreateRow, Loose, IndInv, TypeOK, domain, queues
<1>2. CASE row = NoRow /\ row' = [id |-> s, state |-> "PROCESSING"] /\ Write(s, Written(s), s)
  <2> DEFINE new == [pc |-> Written(s), item |-> s]
  <2>1. s \in Items
    BY DEF Items
  <2>2. new \in SaverRecord /\ new.pc \in {"written", "ready"} /\ new.item = s
    BY <2>1 DEF SaverRecord, Written, MaybeItem
  <2>3. row' \in [id: Items, state: State] /\ row'.id = s /\ row.id = NoItem
    BY <1>2, <2>1, RowTypes DEF State
  <2>4. saver' = [saver EXCEPT ![s] = new] /\ saver[s].item = NoItem
    BY <1>2 DEF Write, CreateRow
  <2> HIDE DEF new
  <2> QED
    BY <1>1, <2>1, <2>2, <2>3, <2>4, RowTypes, SaverMoves
<1>3. CASE row # NoRow /\ End(s) /\ UNCHANGED row
  <2> DEFINE new == [saver[s] EXCEPT !.pc = "ended"]
  <2>1. new \in SaverRecord /\ new.pc = "ended" /\ new.item = saver[s].item
    BY RowTypes DEF SaverRecord
  <2>2. saver' = [saver EXCEPT ![s] = new] /\ saver[s].item = NoItem /\ saver[s].pc = "found"
    BY <1>3 DEF End, CreateRow
  <2>3. excused' = excused /\ row' = row /\ row \in [id: Items, state: State] \cup {NoRow}
    BY <1>3 DEF CreateRow, IndInv, TypeOK
  <2> HIDE DEF new
  <2> QED
    BY <1>1, <2>1, <2>2, <2>3, SaverMoves
<1> QED
  BY <1>2, <1>3 DEF CreateRow

LEMMA UploadNext == ASSUME IndInv, NEW s \in Savers, UploadPage(s) PROVE IndInv'
<1> DEFINE new == [pc |-> "ready", item |-> saver[s].item]
<1>1. saver[s].item = row.id /\ row.id # NoItem
  BY DEF UploadPage, IndInv, SaverInv
<1>2. row.id \in Items
  BY <1>1, RowTypes DEF MaybeItem
<1>3. new \in SaverRecord /\ new.pc = "ready" /\ new.item = row.id
  BY <1>1, <1>2 DEF SaverRecord, MaybeItem
<1>4. /\ Loose /\ UNCHANGED <<row, editor, fetch, parse>> /\ saver' = [saver EXCEPT ![s] = new]
      /\ row \in [id: Items, state: State] \cup {NoRow}
  BY DEF UploadPage, Loose, IndInv, TypeOK, domain, queues, Write
<1>5. blobs \subseteq blobs' /\ blobs' \subseteq Items \X Nat /\ \A b \in blobs' \ blobs : b[1] = row.id
  <2>1. blobs \subseteq Items \X Nat
    BY DEF IndInv, TypeOK
  <2>2. CASE blobs' = blobs
    BY <2>1, <2>2
  <2>3. CASE \E now \in Time : blobs' = blobs \cup {<<saver[s].item, Unix(now)>>}
    <3>1. PICK now \in Time : blobs' = blobs \cup {<<saver[s].item, Unix(now)>>}
      BY <2>3
    <3>2. Unix(now) \in Nat
      BY Times, Printed
    <3> QED
      BY <1>1, <1>2, <2>1, <3>1, <3>2
  <2> QED
    BY <2>2, <2>3 DEF UploadPage
<1> HIDE DEF new
<1> QED
  BY <1>1, <1>3, <1>4, <1>5, SaverMoves

LEMMA FailsNext == ASSUME IndInv, NEW s \in Savers, SaveFails(s) PROVE IndInv'
<1> DEFINE new == [saver[s] EXCEPT !.pc = "ended"]
<1>1. new \in SaverRecord /\ new.pc = "ended" /\ new.item = saver[s].item
  BY RowTypes DEF SaverRecord
<1>2. saver' = [saver EXCEPT ![s] = new] /\ excused'
  BY DEF SaveFails, End
<1>3. /\ Loose /\ UNCHANGED <<row, editor, fetch, parse, blobs>>
      /\ row \in [id: Items, state: State] \cup {NoRow} /\ blobs \subseteq Items \X Nat
  BY DEF SaveFails, Loose, IndInv, TypeOK, domain, queues
<1>4. saver[s].item # NoItem => saver[s].item = row.id
  BY DEF IndInv, SaverInv
<1> HIDE DEF new
<1> QED
  BY <1>1, <1>2, <1>3, <1>4, SaverMoves

\* The job is skipped.
LEMMA SkipNext ==
  ASSUME IndInv, NEW s \in Savers, saver[s].pc = "ready", Skip(saver[s].item), End(s),
         UNCHANGED <<row, editor, cache, blobs, domain, lost, cast>>
  PROVE  IndInv'
<1> DEFINE new == [saver[s] EXCEPT !.pc = "ended"]
<1>1. new \in SaverRecord /\ new.pc = "ended" /\ new.item = saver[s].item
  BY RowTypes DEF SaverRecord
<1>2. saver[s].item = row.id
  BY DEF IndInv, SaverInv
<1>3. saver' = [saver EXCEPT ![s] = new] /\ excused' = (excused \/ ~Pending(row.id))
  BY <1>2 DEF Skip, End
<1>4. /\ Loose /\ UNCHANGED <<row, editor, fetch, parse, blobs>>
      /\ row \in [id: Items, state: State] \cup {NoRow} /\ blobs \subseteq Items \X Nat
  BY <1>3 DEF Skip, Loose, IndInv, TypeOK, domain, queues
<1> HIDE DEF new
<1>5. row'.state = "PROCESSING" /\ ~excused' => Pending(row'.id)
  BY <1>3, <1>4
<1> QED
  BY <1>1, <1>2, <1>3, <1>4, <1>5, SaverMoves

LEMMA EnqueueFetchNext == ASSUME IndInv, NEW s \in Savers, EnqueueFetch(s) PROVE IndInv'
<1> DEFINE r == Request[s]
           new == [fetch[r] EXCEPT !.st = "waiting", !.item = saver[s].item]
<1>1. CASE fetch[r].st # "none" /\ Skip(saver[s].item)
  BY <1>1, SkipNext DEF EnqueueFetch
<1>2. CASE fetch[r].st = "none" /\ fetch' = [fetch EXCEPT ![r] = new] /\ excused' = FALSE
           /\ UNCHANGED parse
  <2>1. r \in Requests /\ r \in FetchJobs /\ r \notin FeedJobs
    BY JobTypes, SaveFlowAssumption DEF EnqueueFetch
  <2>2. saver[s].item = row.id /\ row.id \in Items
    BY RowTypes DEF EnqueueFetch, IndInv, SaverInv, MaybeItem
  <2>0. fetch[r] \in FetchRecord /\ row.id \in MaybeItem
    BY <2>1, <2>2, JobTypes DEF MaybeItem
  <2>3. new \in FetchRecord /\ new.st = "waiting" /\ new.item = row.id
    <3> HIDE DEF r
    <3> QED
      BY <2>0, <2>2 DEF FetchRecord
  <2> HIDE DEF new
  <2>4. /\ fetch' \in [FetchJobs -> FetchRecord]
        /\ \A k \in FetchJobs : fetch'[k] = IF k = r THEN new ELSE fetch[k]
    BY <1>2, <2>1, <2>3, JobTypes
  <2>5. End(s) /\ UNCHANGED <<row, editor, cache, blobs, domain, lost, cast>>
    BY DEF EnqueueFetch
  <2>6. TypeOK'
    BY <1>2, <2>4, <2>5, SaverEnds DEF IndInv, TypeOK, FetchRecord, SaverRecord, domain
  <2>7. SaverInv' /\ EditorInv'
    BY <2>5, SaverEnds DEF IndInv, SaverInv, EditorInv
  <2>8. JobInv'
    BY <1>2, <2>1, <2>2, <2>3, <2>4, <2>5, SaverEnds, JobTypes DEF IndInv, JobInv
  <2>9. DateInv'
    BY <1>2, <2>1, <2>4, JobTypes DEF IndInv, DateInv
  <2>10. BlobInv'
    BY <1>2, <2>1, <2>4, <2>5, SaverEnds, JobTypes DEF IndInv, BlobInv, Unsaved
  <2>11. ProcessingIsPending'
    BY <2>1, <2>3, <2>4, <2>5 DEF ProcessingIsPending, Pending
  <2> QED
    BY <2>6, <2>7, <2>8, <2>9, <2>10, <2>11 DEF IndInv
<1> QED
  BY <1>1, <1>2 DEF EnqueueFetch

LEMMA EnqueueParseNext == ASSUME IndInv, NEW s \in Savers, EnqueueParse(s) PROVE IndInv'
<1> DEFINE p == <<"save-page", saver[s].item>>
           new == [parse[p] EXCEPT !.st = "waiting", !.item = saver[s].item]
<1>1. CASE parse[p].st # "none" /\ Skip(saver[s].item)
  BY <1>1, SkipNext DEF EnqueueParse
<1>2. CASE parse[p].st = "none" /\ parse' = [parse EXCEPT ![p] = new] /\ excused' = FALSE
           /\ UNCHANGED fetch
  <2>1. saver[s].item = row.id /\ row.id \in Items
    BY RowTypes DEF EnqueueParse, IndInv, SaverInv, MaybeItem
  <2>2. p \in PageJobs /\ p \in ParseJobs
    BY <2>1, JobTypes DEF PageJobs
  <2>3. new \in ParseRecord /\ new.st = "waiting" /\ new.item = row.id
    BY <2>1, <2>2, JobTypes DEF ParseRecord, MaybeItem
  <2> HIDE DEF new, p
  <2>4. /\ parse' \in [ParseJobs -> ParseRecord]
        /\ \A q \in ParseJobs : parse'[q] = IF q = p THEN new ELSE parse[q]
    BY <1>2, <2>2, <2>3, JobTypes
  <2>5. End(s) /\ UNCHANGED <<row, editor, cache, blobs, domain, lost, cast>>
    BY DEF EnqueueParse
  <2>6. TypeOK'
    BY <1>2, <2>4, <2>5, SaverEnds DEF IndInv, TypeOK, ParseRecord, SaverRecord, domain
  <2>7. SaverInv' /\ EditorInv'
    BY <2>5, SaverEnds DEF IndInv, SaverInv, EditorInv
  <2>8. \A j \in FetchJobs : \A q \in Added(j) : parse'[q] = parse[q]
    BY <2>2, <2>4, JobTypes
  <2>9. JobInv'
    BY <1>2, <2>1, <2>3, <2>4, <2>5, <2>8, SaverEnds, JobTypes DEF IndInv, JobInv
  <2>10. DateInv'
    BY <1>2, <2>8, JobTypes DEF IndInv, DateInv
  <2>11. BlobInv'
    BY <1>2, <2>5, <2>8, SaverEnds, JobTypes DEF IndInv, BlobInv, Unsaved
  <2>12. ProcessingIsPending'
    BY <2>2, <2>3, <2>4, <2>5 DEF ProcessingIsPending, Pending
  <2> QED
    BY <2>6, <2>7, <2>9, <2>10, <2>11, <2>12 DEF IndInv
<1> QED
  BY <1>1, <1>2 DEF EnqueueParse

-----------------------------------------------------------------------------
(* The feed, the edits, and the keys that expire.                          *)

LEMMA FeedNext == ASSUME IndInv, NEW j \in FeedJobs, NEW date \in Time, FeedFinds(j, date) PROVE IndInv'
<1> DEFINE new == [fetch[j] EXCEPT !.st = "waiting", !.item = j, !.savedAt = EntryDate(j, date)]
<1>1. j \in FetchJobs /\ j \in Items /\ j \notin Requests /\ fetch[j].st = "none"
  BY JobTypes DEF FeedFinds, Items
<1>2. /\ EntryDate(j, date) \in Nat
      /\ j \in Dated => /\ EntryDate(j, date) # NoTime
                         /\ Rfc3339(EntryDate(j, date)) = EntryDate(j, date)
  <2>1. Rfc3339(date) \in Nat /\ Rfc3339(date) # NoTime /\ Rfc3339(Rfc3339(date)) = Rfc3339(date)
    BY Times, Printed, DatePrinted
  <2> QED
    BY <2>1 DEF EntryDate, NoTime, Dated
<1>3. new \in FetchRecord /\ new.st = "waiting" /\ new.item = j /\ new.savedAt = EntryDate(j, date)
  BY <1>1, <1>2, JobTypes DEF FetchRecord, MaybeItem
<1>4. fetch' = [fetch EXCEPT ![j] = new]
  BY DEF FeedFinds
<1> HIDE DEF new
<1>5. /\ fetch' \in [FetchJobs -> FetchRecord]
      /\ \A k \in FetchJobs : fetch'[k] = IF k = j THEN new ELSE fetch[k]
  BY <1>1, <1>3, <1>4, JobTypes
<1>6. UNCHANGED <<row, saver, editor, parse, cache, blobs, fails, ttl, excused, lost, cast>>
  BY DEF FeedFinds, domain
<1>7. \A p \in Added(j) : parse[p].st = "none"
  BY <1>1 DEF IndInv, JobInv
<1>8. TypeOK'
  BY <1>5, <1>6 DEF IndInv, TypeOK, FetchRecord
<1>9. SaverInv' /\ EditorInv'
  BY <1>6 DEF IndInv, SaverInv, EditorInv
<1>10. JobInv'
  BY <1>1, <1>3, <1>5, <1>6, <1>7, JobTypes DEF IndInv, JobInv
<1>11. DateInv'
  BY <1>2, <1>3, <1>5, <1>6, <1>7, JobTypes DEF IndInv, DateInv, ActiveParse
<1>12. BlobInv'
  BY <1>1, <1>5, <1>6, JobTypes DEF IndInv, BlobInv, Unsaved
<1>13. ProcessingIsPending'
  BY <1>1, <1>5, <1>6 DEF IndInv, ProcessingIsPending, Pending
<1> QED
  BY <1>8, <1>9, <1>10, <1>11, <1>12, <1>13 DEF IndInv

LEMMA EditNext ==
  ASSUME IndInv, NEW e \in Editors, GetByID(e) \/ SetState(e) \/ UpdatePage(e)
  PROVE  IndInv'
<1>1. CASE GetByID(e)
  <2>1. UNCHANGED <<row, saver, fetch, parse, cache, blobs, fails, ttl, excused, lost, cast>>
    BY <1>1 DEF GetByID, queues, domain
  <2>2. row.id # NoItem /\ row.state \in State
    BY <1>1, RowTypes DEF GetByID
  <2>3. \A d \in Editors : editor'[d] = IF d = e THEN [pc |-> "read", seen |-> row.state] ELSE editor[d]
    BY <1>1 DEF GetByID, IndInv, TypeOK
  <2>4. TypeOK'
    BY <1>1, <2>1, <2>2 DEF GetByID, IndInv, TypeOK
  <2>5. EditorInv'
    BY <2>1, <2>2, <2>3 DEF IndInv, EditorInv
  <2> QED
    BY <2>1, <2>4, <2>5
       DEF IndInv, SaverInv, JobInv, DateInv, BlobInv, Unsaved, ProcessingIsPending, Pending
<1>2. ASSUME NEW new \in State, SaveBack(e, new) PROVE IndInv'
  <2>1. UNCHANGED <<saver, fetch, parse, cache, blobs, fails, ttl, lost, cast>>
    BY <1>2 DEF SaveBack, queues, domain
  <2>2. row' \in [id: Items, state: State] /\ row'.id = row.id /\ row'.state = new
    BY <1>2, RowTypes DEF SaveBack, IndInv, EditorInv
  <2>3. /\ \A d \in Editors : d # e => editor'[d] = editor[d]
        /\ editor'[e].pc = "ended"
    BY <1>2 DEF SaveBack, IndInv, TypeOK
  <2>4. TypeOK'
    BY <1>2, <2>1, <2>2 DEF SaveBack, IndInv, TypeOK
  <2>5. SaverInv' /\ EditorInv'
    BY <2>1, <2>2, <2>3 DEF IndInv, SaverInv, EditorInv
  <2>6. JobInv' /\ DateInv' /\ BlobInv'
    BY <2>1 DEF IndInv, JobInv, DateInv, BlobInv, Unsaved
  <2>7. ProcessingIsPending'
    BY <1>2, <2>2 DEF SaveBack, ProcessingIsPending
  <2> QED
    BY <2>4, <2>5, <2>6, <2>7 DEF IndInv
<1>3. editor[e].pc = "read" => editor[e].seen \in State
  BY DEF IndInv, EditorInv
<1> QED
  BY <1>1, <1>2, <1>3 DEF SetState, UpdatePage, SaveBack, State

LEMMA ExpiryNext ==
  ASSUME IndInv, CacheExpires \/ FailuresExpire \/ \E p \in PageJobs : PageJobExpires(p)
  PROVE  IndInv'
<1>1. CASE CacheExpires \/ FailuresExpire
  <2>1. /\ UNCHANGED <<row, saver, editor, fetch, parse, blobs, excused, lost, cast>>
        /\ cache' \in BOOLEAN /\ ttl' \in BOOLEAN /\ fails' \in Nat
    <3>1. cache \in BOOLEAN /\ ttl \in BOOLEAN /\ fails \in Nat
      BY DEF IndInv, TypeOK
    <3>2. CASE CacheExpires
      BY <3>1, <3>2 DEF CacheExpires, queues, domain
    <3>3. CASE FailuresExpire
      BY <3>1, <3>3 DEF FailuresExpire, queues
    <3> QED
      BY <1>1, <3>2, <3>3
  <2>2. TypeOK'
    BY <2>1 DEF IndInv, TypeOK
  <2> QED
    BY <2>1, <2>2
       DEF IndInv, SaverInv, EditorInv, JobInv, DateInv, BlobInv, Unsaved, ProcessingIsPending, Pending
<1>2. ASSUME NEW p \in PageJobs, PageJobExpires(p) PROVE IndInv'
  <2>1. UNCHANGED <<row, saver, editor, fetch, blobs, cache, fails, ttl, excused, lost, cast>>
    BY <1>2 DEF PageJobExpires, domain
  <2>2. NoParse \in ParseRecord /\ NoParse.st = "none"
    BY DEF NoParse, ParseRecord, MaybeItem, NoTime
  <2>3. /\ parse' \in [ParseJobs -> ParseRecord]
        /\ \A q \in ParseJobs : parse'[q] = IF q = p THEN NoParse ELSE parse[q]
        /\ parse[p].st \notin {"waiting", "upsert"}
    BY <1>2, <2>2, JobTypes DEF PageJobExpires
  <2>4. \A j \in FetchJobs : \A q \in Added(j) : parse'[q] = parse[q]
    BY <2>3, JobTypes
  <2>5. TypeOK'
    BY <2>1, <2>3 DEF IndInv, TypeOK, ParseRecord
  <2>6. SaverInv' /\ EditorInv'
    BY <2>1 DEF IndInv, SaverInv, EditorInv
  <2>7. JobInv'
    BY <2>1, <2>2, <2>3, <2>4, JobTypes DEF IndInv, JobInv
  <2>8. DateInv' /\ BlobInv'
    BY <2>1, <2>4, JobTypes DEF IndInv, DateInv, BlobInv, Unsaved
  <2>9. ProcessingIsPending'
    BY <2>1, <2>3 DEF IndInv, ProcessingIsPending, Pending
  <2> QED
    BY <2>5, <2>6, <2>7, <2>8, <2>9 DEF IndInv
<1> QED
  BY <1>1, <1>2

-----------------------------------------------------------------------------
(* Fetch-content jobs.                                                     *)

\* What FailFetch makes of a job, if no job is added.
LEMMA FailFetchNext ==
  ASSUME IndInv, Loose, NEW j \in FetchJobs, fetch[j].st \in ActiveFetch, FailFetch(j),
         Stores(j), UNCHANGED <<row, saver, editor, parse>>
  PROVE  IndInv'
<1> DEFINE new == Failed(fetch[j], FetchAttempts(j))
<1>1. fetch[j] \in FetchRecord /\ fetch[j].st # "none" /\ FetchAttempts(j) \in {1, 2, 3}
  BY JobTypes DEF ActiveFetch, FetchAttempts
<1>2. /\ new \in FetchRecord /\ new.st \in {"waiting", "failed"} /\ new.item = fetch[j].item
      /\ new.st = "waiting" => new.savedAt = fetch[j].savedAt
  BY <1>1, FetchEnds
<1>3. fetch' = [fetch EXCEPT ![j] = new] /\ fetch'[j] = new
  BY JobTypes DEF FailFetch
<1> HIDE DEF new
<1>4. new.st \in ActiveFetch => new.st = "waiting"
  BY <1>2 DEF ActiveFetch
<1>5. excused \/ (new.st \notin ActiveFetch /\ fetch[j].item = row.id) => excused'
  BY <1>2, <1>3 DEF FailFetch, Excuse, ActiveFetch, Loose, IndInv, TypeOK
<1>6. new.st # "none"
  BY <1>2
<1> QED
  BY <1>1, <1>2, <1>3, <1>4, <1>5, <1>6, FetchMoves

LEMMA RunFetchNext ==
  ASSUME IndInv, NEW j \in FetchJobs,
         DropBlocked(j) \/ GetCachedResult(j) \/ FetchSucceeds(j) \/ FetchFails(j) \/ ExpireFailures(j)
  PROVE  IndInv'
<1> USE DEF queues, domain
<1>1. fetch[j] \in FetchRecord
  BY JobTypes
<1>2. /\ cache \in BOOLEAN /\ ttl \in BOOLEAN /\ excused \in BOOLEAN
      /\ fails \in Nat /\ lost \in 0..MaxLost
  BY DEF IndInv, TypeOK
<1>3. CASE DropBlocked(j)
  <2> DEFINE new == Finish(fetch[j], "done")
  <2>1. new \in FetchRecord /\ new.st = "done" /\ new.item = fetch[j].item
    BY <1>1, FetchEnds
  <2>2. fetch' = [fetch EXCEPT ![j] = new] /\ fetch[j].st # "none"
    BY <1>3 DEF DropBlocked
  <2> HIDE DEF new
  <2>3. Loose /\ UNCHANGED <<row, saver, editor, parse, blobs>>
    BY <1>2, <1>3 DEF DropBlocked, Loose, Excuse
  <2>4. excused \/ fetch[j].item = row.id => excused'
    BY <1>3 DEF DropBlocked, Excuse
  <2> QED
    BY <2>1, <2>2, <2>3, <2>4, FetchMoves DEF ActiveFetch, Stores
<1>4. CASE GetCachedResult(j)
  <2>0. PICK st \in {"fetching", "deliver"} :
          fetch' = [fetch EXCEPT ![j].st = st, ![j].pdf = FALSE]
    BY <1>4 DEF GetCachedResult
  <2> DEFINE new == [fetch[j] EXCEPT !.st = st, !.pdf = FALSE]
  <2>1. new \in FetchRecord
    BY <1>1 DEF FetchRecord
  <2>2. new.st \in ActiveFetch /\ new.item = fetch[j].item /\ new.savedAt = fetch[j].savedAt
    BY <1>1 DEF FetchRecord, ActiveFetch
  <2>3. fetch' = [fetch EXCEPT ![j] = new] /\ fetch[j].st = "waiting"
    BY <1>4, <2>0, JobTypes DEF GetCachedResult
  <2> HIDE DEF new
  <2>4. Loose /\ UNCHANGED <<row, saver, editor, parse, blobs, excused>>
    BY <1>2, <1>4 DEF GetCachedResult, Loose
  <2> QED
    BY <2>1, <2>2, <2>3, <2>4, FetchMoves DEF ActiveFetch, Stores
<1>5. CASE FetchSucceeds(j)
  <2>1. PICK isPdf \in BOOLEAN :
          /\ fetch' = [fetch EXCEPT ![j].st = "deliver", ![j].pdf = isPdf]
          /\ IF isPdf THEN UNCHANGED cache ELSE CacheResult
    BY <1>5 DEF FetchSucceeds
  <2> DEFINE new == [fetch[j] EXCEPT !.st = "deliver", !.pdf = isPdf]
  <2>2. new \in FetchRecord
    BY <1>1 DEF FetchRecord
  <2>3. new.st \in ActiveFetch /\ new.item = fetch[j].item /\ new.savedAt = fetch[j].savedAt
    BY <1>1 DEF FetchRecord, ActiveFetch
  <2>4. fetch' = [fetch EXCEPT ![j] = new] /\ fetch[j].st = "fetching"
    BY <1>5, <2>1, JobTypes DEF FetchSucceeds
  <2> HIDE DEF new
  <2>5. Loose /\ UNCHANGED <<row, saver, editor, parse, blobs, excused>>
    BY <1>2, <1>5, <2>1 DEF FetchSucceeds, Loose, CacheResult
  <2> QED
    BY <2>2, <2>3, <2>4, <2>5, FetchMoves DEF ActiveFetch, Stores
<1>6. CASE FetchFails(j)
  <2>0. fetch[j].st = "fetching" /\ UNCHANGED <<row, saver, editor, parse, blobs, cache, ttl, lost, cast>>
    BY <1>6 DEF FetchFails
  <2>1. CASE fails' = fails + 1 /\ fetch' = [fetch EXCEPT ![j].st = "counting"] /\ UNCHANGED excused
    <3> DEFINE new == [fetch[j] EXCEPT !.st = "counting"]
    <3>1. new \in FetchRecord
      BY <1>1 DEF FetchRecord
    <3>2. new.st \in ActiveFetch /\ new.item = fetch[j].item /\ new.savedAt = fetch[j].savedAt
      BY <1>1 DEF FetchRecord, ActiveFetch
    <3>3. fetch' = [fetch EXCEPT ![j] = new]
      BY <2>1
    <3> HIDE DEF new
    <3>4. Loose
      BY <1>2, <2>0, <2>1 DEF Loose
    <3> QED
      BY <2>0, <2>1, <3>1, <3>2, <3>3, <3>4, FetchMoves DEF ActiveFetch, Stores
  <2>2. CASE FailFetch(j) /\ UNCHANGED fails
    <3>1. excused' \in BOOLEAN
      BY <1>2, <2>2 DEF FailFetch, Excuse
    <3>2. Loose
      BY <1>2, <2>0, <2>2, <3>1 DEF Loose
    <3> QED
      BY <2>0, <2>2, <3>2, FailFetchNext DEF ActiveFetch, Stores
  <2> QED
    BY <1>6, <2>1, <2>2 DEF FetchFails
<1>7. CASE ExpireFailures(j)
  <2>1. FailFetch(j) /\ fetch[j].st = "counting"
    BY <1>7 DEF ExpireFailures
  <2>2. UNCHANGED <<row, saver, editor, parse, blobs, cache, fails, cast>>
    BY <1>7 DEF ExpireFailures
  <2>3. ttl' \in BOOLEAN /\ lost' \in 0..MaxLost
    <3>1. CASE ttl' = (fails > 0) /\ UNCHANGED lost
      BY <1>2, <3>1
    <3>2. CASE lost < MaxLost /\ lost' = lost + 1 /\ UNCHANGED ttl
      BY <1>2, <3>2, SaveFlowAssumption
    <3> QED
      BY <1>7, <3>1, <3>2 DEF ExpireFailures
  <2>4. excused' \in BOOLEAN
    BY <1>2, <2>1 DEF FailFetch, Excuse
  <2>5. Loose
    BY <1>2, <2>2, <2>3, <2>4 DEF Loose
  <2> QED
    BY <2>1, <2>2, <2>5, FailFetchNext DEF ActiveFetch, Stores
<1> QED
  BY <1>3, <1>4, <1>5, <1>6, <1>7

\* What Deliver does to its job, to the storage and to a save-page job.
LEMMA DeliverMoves ==
  ASSUME IndInv, Loose, NEW j \in FetchJobs, NEW date \in Nat, NEW new \in FetchRecord,
         fetch[j].st = "deliver", new.st # "none", new.item = fetch[j].item,
         new.st \in ActiveFetch => new.savedAt = fetch[j].savedAt,
         fetch' = [fetch EXCEPT ![j] = new],
         j \in Dated => date = fetch[j].savedAt, Stores(j),
         NEW p \in Added(j), NEW newP \in ParseRecord,
         newP.st = "waiting", newP.item = fetch[j].item, newP.savedAt = Rfc3339(date),
         parse' = [parse EXCEPT ![p] = newP],
         excused => excused',
         UNCHANGED <<row, saver, editor>>
  PROVE  IndInv'
<1>1. /\ fetch' \in [FetchJobs -> FetchRecord]
      /\ \A k \in FetchJobs : fetch'[k] = IF k = j THEN new ELSE fetch[k]
  BY JobTypes
<1>2. /\ p \in ParseJobs
      /\ parse' \in [ParseJobs -> ParseRecord]
      /\ \A q \in ParseJobs : parse'[q] = IF q = p THEN newP ELSE parse[q]
  BY JobTypes
<1>3. \A k \in FetchJobs : k # j => \A q \in Added(k) : parse'[q] = parse[q] /\ q # p
  BY <1>2, JobTypes
<1>4. fetch[j].item \in Items
  BY DEF IndInv, JobInv
<1>5. TypeOK'
  BY <1>1, <1>2, Stored DEF IndInv, TypeOK, FetchRecord, ParseRecord, Loose
<1>6. SaverInv' /\ EditorInv'
  BY DEF IndInv, SaverInv, EditorInv
<1>7. JobInv'
  <2>1. \A q \in PageJobs : parse'[q] = parse[q]
    BY <1>2, JobTypes
  <2>2. \A k \in FetchJobs : fetch'[k].item = fetch[k].item /\ (fetch'[k].st = "none" <=> fetch[k].st = "none")
    BY <1>1
  <2>3. \A q \in ParseJobs : parse'[q].st # "none" => parse'[q].item \in Items
    BY <1>2, <1>4 DEF IndInv, JobInv
  <2>4. ASSUME NEW k \in FetchJobs, NEW q \in Added(k), parse'[q].st # "none"
        PROVE  fetch'[k].st # "none" /\ parse'[q].item = fetch'[k].item
    <3>1. q \in ParseJobs
      BY JobTypes
    <3>2. CASE k = j
      BY <1>1, <1>2, <2>4, <3>1, <3>2 DEF IndInv, JobInv
    <3>3. CASE k # j
      BY <1>3, <2>2, <2>4, <3>3 DEF IndInv, JobInv
    <3> QED
      BY <3>2, <3>3
  <2> QED
    BY <2>1, <2>2, <2>3, <2>4, JobTypes DEF IndInv, JobInv
<1>8. j \in Dated => /\ fetch[j].item = j
                    /\ newP.savedAt = fetch[j].savedAt /\ newP.savedAt # NoTime
  BY JobTypes DEF IndInv, JobInv, DateInv, ActiveFetch
<1>9. DateInv'
  <2>1. ASSUME NEW k \in Dated, fetch'[k].st \in ActiveFetch
        PROVE  fetch'[k].savedAt # NoTime /\ Rfc3339(fetch'[k].savedAt) = fetch'[k].savedAt
    BY <1>1, <2>1, JobTypes DEF IndInv, DateInv, ActiveFetch
  <2>2. ASSUME NEW k \in Dated, NEW q \in Added(k), parse'[q].st \in ActiveParse
        PROVE  /\ parse'[q].savedAt # NoTime
               /\ fetch'[k].st \in ActiveFetch => parse'[q].savedAt = fetch'[k].savedAt
    <3>1. q \in ParseJobs /\ k \in FetchJobs
      BY JobTypes
    <3>2. CASE k = j
      BY <1>1, <1>2, <1>8, <2>2, <3>1, <3>2 DEF IndInv, DateInv, ActiveFetch
    <3>3. CASE k # j
      BY <1>1, <1>3, <2>2, <3>1, <3>3 DEF IndInv, DateInv
    <3> QED
      BY <3>2, <3>3
  <2> QED
    BY <2>1, <2>2 DEF DateInv
<1>10. BlobInv'
  <2> SUFFICES ASSUME NEW k \in Dated, NEW b \in blobs', b[1] = k, Unsaved(k)'
               PROVE  /\ fetch'[k].st # "none"
                      /\ fetch'[k].st \in ActiveFetch => b[2] = fetch'[k].savedAt
                      /\ \A q \in Added(k) : parse'[q].st \in ActiveParse => b[2] = parse'[q].savedAt
    BY DEF BlobInv
  <2>1. Unsaved(k) /\ k \in FetchJobs /\ Added(k) \subseteq ParseJobs
    BY JobTypes DEF Unsaved
  <2>2. CASE b \in blobs
    <3>1. CASE k = j
      BY <1>1, <1>2, <1>8, <2>1, <2>2, <3>1 DEF IndInv, BlobInv, ActiveFetch
    <3>2. CASE k # j
      BY <1>1, <1>3, <2>1, <2>2, <3>2 DEF IndInv, BlobInv
    <3> QED
      BY <3>1, <3>2
  <2>3. CASE b \notin blobs
    <3>1. k = j /\ b[2] = fetch[j].savedAt
      BY <2>1, <2>3, Stored
    <3> QED
      BY <1>1, <1>2, <1>8, <2>1, <3>1 DEF IndInv, DateInv, ActiveFetch
  <2> QED
    BY <2>2, <2>3
<1>11. ProcessingIsPending'
  <2> SUFFICES ASSUME row.state = "PROCESSING", ~excused,
                      \A s \in Savers : ~(saver[s].item = row.id /\ saver[s].pc \in {"written", "ready"})
               PROVE  Pending(row.id)'
    BY DEF ProcessingIsPending
  <2>1. Pending(row.id)
    BY DEF IndInv, ProcessingIsPending
  <2>2. CASE \E k \in FetchJobs : fetch[k].item = row.id /\ fetch[k].st \in ActiveFetch
    BY <1>1, <1>2, <2>2 DEF Pending, ActiveFetch
  <2>3. CASE \E q \in ParseJobs : parse[q].item = row.id /\ parse[q].st \in ActiveParse
    <3>1. PICK q \in ParseJobs : parse[q].item = row.id /\ parse[q].st \in ActiveParse
      BY <2>3
    <3>2. parse'[q].item = row.id /\ parse'[q].st \in ActiveParse
      BY <1>2, <3>1 DEF IndInv, JobInv, ActiveParse
    <3> QED
      BY <3>2 DEF Pending, ActiveParse
  <2> QED
    BY <2>1, <2>2, <2>3 DEF Pending, ActiveFetch, ActiveParse
<1> QED
  BY <1>5, <1>6, <1>7, <1>9, <1>10, <1>11 DEF IndInv

\* AddBulk of a save-page job.
LEMMA Adds ==
  ASSUME IndInv, NEW j \in FetchJobs, fetch[j].st = "deliver", NEW date \in Nat, AddParse(j, date)
  PROVE  \E p \in Added(j), new \in ParseRecord :
           /\ new.st = "waiting" /\ new.item = fetch[j].item /\ new.savedAt = Rfc3339(date)
           /\ parse' = [parse EXCEPT ![p] = new]
<1> DEFINE p == IF parse[j].st = "none" THEN j ELSE <<"again", j>>
           new == [NoParse EXCEPT !.st = "waiting", !.item = fetch[j].item, !.keyed = TRUE,
                                  !.savedAt = Rfc3339(date), !.pdf = fetch[j].pdf]
<1>1. parse' = [parse EXCEPT ![p] = new] /\ p \in Added(j)
  BY DEF AddParse, Added
<1>2. fetch[j].item \in MaybeItem /\ fetch[j].pdf \in BOOLEAN /\ Rfc3339(date) \in Nat
  BY JobTypes, Printed DEF FetchRecord
<1> DEFINE first == [NoParse EXCEPT !.st = "waiting", !.item = fetch[j].item]
           second == [first EXCEPT !.keyed = TRUE, !.savedAt = Rfc3339(date)]
<1>3. NoParse \in ParseRecord
  BY DEF NoParse, ParseRecord, MaybeItem, NoTime
<1>4. first \in ParseRecord /\ first.st = "waiting" /\ first.item = fetch[j].item
  BY <1>2, <1>3 DEF ParseRecord
<1>5. new = [second EXCEPT !.pdf = fetch[j].pdf]
  BY DEF NoParse
<1> HIDE DEF new, p, first
<1>6. /\ second \in ParseRecord
      /\ second.st = "waiting" /\ second.item = fetch[j].item /\ second.savedAt = Rfc3339(date)
  BY <1>2, <1>4 DEF ParseRecord
<1> HIDE DEF second
<1>7. /\ new \in ParseRecord
      /\ new.st = "waiting" /\ new.item = fetch[j].item /\ new.savedAt = Rfc3339(date)
  BY <1>2, <1>5, <1>6 DEF ParseRecord
<1> QED
  BY <1>1, <1>7

LEMMA DeliverNext == ASSUME IndInv, NEW j \in FetchJobs, NEW now \in Time, Deliver(j, now) PROVE IndInv'
<1> DEFINE date == SavedDate(j, now)
<1>1. fetch[j] \in FetchRecord /\ fetch[j].st = "deliver"
  BY JobTypes DEF Deliver
<1>2. date \in Nat /\ (j \in Dated => date = fetch[j].savedAt)
  <2>1. fetch[j].savedAt \in Nat /\ now \in Nat
    BY <1>1, Times DEF FetchRecord
  <2>2. j \in Dated => fetch[j].savedAt # NoTime
    BY <1>1 DEF IndInv, DateInv, ActiveFetch
  <2> QED
    BY <2>1, <2>2 DEF SavedDate
<1>3. UNCHANGED <<row, saver, editor, cache, fails, ttl, lost, cast>>
  BY DEF Deliver, domain
<1>4. /\ cache \in BOOLEAN /\ ttl \in BOOLEAN /\ excused \in BOOLEAN
      /\ fails \in Nat /\ lost \in 0..MaxLost
  BY DEF IndInv, TypeOK
<1>5. Stores(j)
  BY <1>1, <1>2 DEF Deliver, Stores, ActiveFetch
<1>6. CASE FailFetch(j) /\ UNCHANGED parse
  <2>1. Loose
    BY <1>3, <1>4, <1>6 DEF Loose, FailFetch, Excuse
  <2> QED
    BY <1>1, <1>3, <1>5, <1>6, <2>1, FailFetchNext DEF ActiveFetch
<1>7. ASSUME NEW new \in FetchRecord, new.st # "none", new.item = fetch[j].item,
             new.st \in ActiveFetch => new.savedAt = fetch[j].savedAt,
             fetch' = [fetch EXCEPT ![j] = new],
             AddParse(j, date), excused' \in BOOLEAN, excused => excused'
      PROVE  IndInv'
  <2>1. PICK p \in Added(j), newP \in ParseRecord :
          /\ newP.st = "waiting" /\ newP.item = fetch[j].item /\ newP.savedAt = Rfc3339(date)
          /\ parse' = [parse EXCEPT ![p] = newP]
    BY <1>1, <1>2, <1>7, Adds
  <2>2. Loose
    BY <1>3, <1>4, <1>7 DEF Loose
  <2> HIDE DEF date
  <2> QED
    BY <1>1, <1>2, <1>3, <1>5, <1>7, <2>1, <2>2, DeliverMoves
<1>8. CASE AddParse(j, date) /\ fetch' = [fetch EXCEPT ![j] = Finish(@, "done")] /\ UNCHANGED excused
  BY <1>1, <1>4, <1>7, <1>8, FetchEnds DEF ActiveFetch
<1>9. CASE AddParse(j, date) /\ FailFetch(j)
  <2> DEFINE new == Failed(fetch[j], FetchAttempts(j))
  <2>1. FetchAttempts(j) \in {1, 2, 3}
    BY DEF FetchAttempts
  <2>2. /\ new \in FetchRecord /\ new.st \in {"waiting", "failed"} /\ new.item = fetch[j].item
        /\ new.st = "waiting" => new.savedAt = fetch[j].savedAt
    BY <1>1, <2>1, FetchEnds
  <2>3. fetch' = [fetch EXCEPT ![j] = new]
    BY <1>9 DEF FailFetch
  <2> HIDE DEF new
  <2>4. excused' \in BOOLEAN /\ (excused => excused')
    <3>1. CASE Excuse(fetch[j].item)
      BY <1>4, <3>1 DEF Excuse
    <3>2. CASE UNCHANGED excused
      BY <1>4, <3>2
    <3> QED
      BY <1>9, <3>1, <3>2 DEF FailFetch
  <2> QED
    BY <1>7, <1>9, <2>2, <2>3, <2>4 DEF ActiveFetch
<1> QED
  BY <1>6, <1>8, <1>9 DEF Deliver

-----------------------------------------------------------------------------
(* Save-page jobs.                                                         *)

LEMMA FailParseNext ==
  ASSUME IndInv, NEW p \in ParseJobs, parse[p].st \in ActiveParse, FailParse(p),
         UNCHANGED <<saver, editor, fetch, cache, blobs, fails, ttl, lost, cast>>
  PROVE  IndInv'
<1> DEFINE new == Failed(parse[p], ParseAttempts(p))
<1>1. parse[p] \in ParseRecord /\ parse[p].st # "none" /\ ParseAttempts(p) \in {1, 2, 3}
  BY JobTypes DEF ActiveParse, ParseAttempts
<1>2. /\ new \in ParseRecord /\ new.st \in {"waiting", "failed"} /\ new.item = parse[p].item
      /\ new.st = "waiting" => new.savedAt = parse[p].savedAt
  BY <1>1, ParseEnds
<1>3. parse' = [parse EXCEPT ![p] = new] /\ parse'[p] = new /\ row' = row
  BY JobTypes DEF FailParse
<1>4. Loose
  BY DEF Loose, FailParse, Excuse, IndInv, TypeOK
<1> HIDE DEF new
<1>5. excused \/ (new.st \notin ActiveParse /\ parse[p].item = row.id) => excused'
  BY <1>2, <1>3 DEF FailParse, Excuse, ActiveParse
<1>6. new.st # "none" /\ (new.st \in ActiveParse => new.st = "waiting")
  BY <1>2 DEF ActiveParse
<1> QED
  BY <1>1, <1>2, <1>3, <1>4, <1>5, <1>6, ParseMoves

LEMMA SavePageNext == ASSUME IndInv, NEW p \in ParseJobs, SavePage(p) PROVE IndInv'
<1> USE DEF domain
<1>1. parse[p] \in ParseRecord
  BY JobTypes
<1>2. CASE SkipPdf(p)
  <2> DEFINE new == Finish(parse[p], "done")
  <2>1. new \in ParseRecord /\ new.st = "done" /\ new.item = parse[p].item
    BY <1>1, ParseEnds
  <2>2. parse' = [parse EXCEPT ![p] = new] /\ parse[p].st = "waiting"
    BY <1>2 DEF SkipPdf
  <2> HIDE DEF new
  <2>3. Loose /\ UNCHANGED <<row, saver, editor, fetch, blobs>>
    BY <1>2 DEF SkipPdf, Loose, Excuse, IndInv, TypeOK
  <2>4. excused \/ parse[p].item = row.id => excused'
    BY <1>2 DEF SkipPdf, Excuse
  <2> QED
    BY <2>1, <2>2, <2>3, <2>4, ParseMoves DEF ActiveParse
<1>3. ASSUME NEW now \in Time, ReadContent(p, now) PROVE IndInv'
  <2>1. /\ parse[p].st = "waiting"
        /\ UNCHANGED <<saver, editor, fetch, cache, blobs, fails, ttl, lost, cast>>
    BY <1>3 DEF ReadContent
  <2>2. CASE parse' = [parse EXCEPT ![p].st = "upsert"] /\ UNCHANGED <<row, excused>>
    <3> DEFINE new == [parse[p] EXCEPT !.st = "upsert"]
    <3>1. new \in ParseRecord
      BY <1>1 DEF ParseRecord
    <3>2. new.st = "upsert" /\ new.item = parse[p].item /\ new.savedAt = parse[p].savedAt
      BY <1>1 DEF ParseRecord
    <3>3. parse' = [parse EXCEPT ![p] = new]
      BY <2>2
    <3> HIDE DEF new
    <3>4. Loose
      BY <2>1, <2>2 DEF Loose, IndInv, TypeOK
    <3> QED
      BY <2>1, <2>2, <3>1, <3>2, <3>3, <3>4, ParseMoves DEF ActiveParse
  <2>3. CASE FailParse(p)
    BY <2>1, <2>3, FailParseNext DEF ActiveParse
  <2> QED
    BY <1>3, <2>2, <2>3 DEF ReadContent
<1>4. CASE UpsertLibraryItem(p)
  <2>1. /\ parse[p].st = "upsert"
        /\ UNCHANGED <<saver, editor, fetch, cache, blobs, fails, ttl, lost, cast>>
    BY <1>4 DEF UpsertLibraryItem
  <2>2. CASE FailParse(p)
    BY <2>1, <2>2, FailParseNext DEF ActiveParse
  <2>3. CASE /\ row.id \in {NoItem, parse[p].item}
             /\ row' = [id |-> parse[p].item, state |-> "SUCCEEDED"]
             /\ parse' = [parse EXCEPT ![p] = Finish(@, "done")]
             /\ UNCHANGED excused
    <3> DEFINE new == Finish(parse[p], "done")
    <3>1. new \in ParseRecord /\ new.st = "done" /\ new.item = parse[p].item
      BY <1>1, ParseEnds
    <3>2. parse' = [parse EXCEPT ![p] = new]
      BY <2>3
    <3> HIDE DEF new
    <3>3. /\ parse' \in [ParseJobs -> ParseRecord]
          /\ \A q \in ParseJobs : parse'[q] = IF q = p THEN new ELSE parse[q]
      BY <3>1, <3>2, JobTypes
    <3>4. parse[p].item \in Items /\ row'.id = parse[p].item /\ row'.state = "SUCCEEDED"
      BY <2>1, <2>3 DEF IndInv, JobInv
    <3>5. row.id # NoItem => row'.id = row.id
      BY <2>3, <3>4
    <3>6. TypeOK'
      <4>1. row' \in [id: Items, state: State]
        BY <2>3, <3>4 DEF State
      <4> QED
        BY <2>1, <2>3, <3>3, <4>1 DEF IndInv, TypeOK, ParseRecord
    <3>7. SaverInv' /\ EditorInv'
      BY <2>1, <3>4, <3>5, RowTypes DEF IndInv, SaverInv, EditorInv
    <3>8. JobInv'
      BY <2>1, <3>1, <3>3, JobTypes DEF IndInv, JobInv
    <3>9. DateInv' /\ BlobInv'
      BY <2>1, <3>1, <3>3, JobTypes DEF IndInv, DateInv, BlobInv, Unsaved, ActiveParse
    <3>10. ProcessingIsPending'
      BY <3>4 DEF ProcessingIsPending
    <3> QED
      BY <3>6, <3>7, <3>8, <3>9, <3>10 DEF IndInv
  <2> QED
    BY <1>4, <2>2, <2>3 DEF UpsertLibraryItem
<1> QED
  BY <1>2, <1>3, <1>4 DEF SavePage

-----------------------------------------------------------------------------
(* The theorems.                                                           *)

LEMMA InitInv == Init => IndInv
<1> SUFFICES ASSUME Init PROVE IndInv
  OBVIOUS
<1>1. /\ \A s \in Savers : saver[s].pc = "begin" /\ saver[s].item = NoItem
      /\ \A e \in Editors : editor[e].pc = "begin"
      /\ \A j \in FetchJobs : fetch[j].st = "none"
      /\ \A p \in ParseJobs : parse[p].st = "none"
      /\ row.state = "none" /\ blobs = {}
  BY DEF Init, NoFetch, NoParse, NoRow
<1>2. \A j \in FetchJobs : Added(j) \subseteq ParseJobs
  BY DEF Added, ParseJobs, Again
<1>3. TypeOK
  <2>1. NoFetch \in FetchRecord /\ NoParse \in ParseRecord
    BY DEF NoFetch, NoParse, FetchRecord, ParseRecord, NoTime, MaybeItem
  <2>2. NoItem \in MaybeItem /\ 0 \in 0..MaxLost
    BY SaveFlowAssumption DEF MaybeItem
  <2>3. fetch \in [FetchJobs -> FetchRecord] /\ parse \in [ParseJobs -> ParseRecord]
    BY <2>1 DEF Init
  <2>4. saver \in [Savers -> SaverRecord]
    BY <2>2 DEF Init, SaverRecord
  <2>5. editor \in [Editors -> [pc: {"begin", "read", "ended"}, seen: State \cup {"none"}]]
    BY DEF Init
  <2> QED
    BY <2>2, <2>3, <2>4, <2>5 DEF Init, TypeOK, FetchRecord, ParseRecord, SaverRecord
<1>4. SaverInv /\ EditorInv
  BY <1>1 DEF SaverInv, EditorInv
<1>5. Dated \subseteq FeedJobs /\ FeedJobs \subseteq FetchJobs /\ Requests \subseteq FetchJobs /\ PageJobs \subseteq ParseJobs
  BY DEF FetchJobs, ParseJobs, Dated
<1>6. JobInv /\ DateInv /\ BlobInv
  BY <1>1, <1>2, <1>5 DEF JobInv, DateInv, BlobInv, ActiveFetch, ActiveParse
<1>7. ProcessingIsPending
  BY <1>1 DEF ProcessingIsPending
<1> QED
  BY <1>3, <1>4, <1>6, <1>7 DEF IndInv

LEMMA Inductive == IndInv /\ [Next]_vars => IndInv'
<1> SUFFICES ASSUME IndInv, [Next]_vars PROVE IndInv'
  OBVIOUS
<1>1. ASSUME NEW s \in Savers, FindByURL(s) \/ Save(s) \/ SaveFails(s) PROVE IndInv'
  BY <1>1, FindNext, UpdateNext, CreateNext, UploadNext, EnqueueFetchNext, EnqueueParseNext,
     FailsNext DEF Save
<1>2. ASSUME NEW j \in FetchJobs, FetchContent(j) PROVE IndInv'
  BY <1>2, RunFetchNext, DeliverNext DEF FetchContent
<1>3. CASE UNCHANGED vars
  BY <1>3 DEF vars, queues, domain, IndInv, TypeOK, SaverInv, EditorInv, JobInv, DateInv, BlobInv,
              Unsaved, ProcessingIsPending, Pending
<1> QED
  BY <1>1, <1>2, <1>3, FeedNext, EditNext, SavePageNext, ExpiryNext DEF Next

\* Every state that SaveFlow reaches satisfies the inductive invariant.
THEOREM Invariant == Spec => []IndInv
  BY InitInv, Inductive, PTL DEF Spec

\* TypeOK, for any numbers of calls, jobs, times and failures.
THEOREM TypeCorrect == Spec => []TypeOK
<1>1. IndInv => TypeOK
  BY DEF IndInv
<1> QED
  BY <1>1, Invariant, PTL

\* Jobs of saveUrl and savePage are about the row of the URL: SaverInv says it
\* of calls, and JobInv that a job has its item from one.
THEOREM RowBeforeJobCorrect == Spec => []RowBeforeJob
<1>1. IndInv => RowBeforeJob
  <2> SUFFICES ASSUME IndInv PROVE RowBeforeJob
    OBVIOUS
  <2>1. ASSUME NEW r \in Requests, fetch[r].st # "none" PROVE fetch[r].item = row.id
    <3>1. PICK s \in Savers : saver[s].item = fetch[r].item
      BY <2>1 DEF IndInv, JobInv
    <3>2. fetch[r].item \in Items
      BY <2>1, JobTypes DEF IndInv, JobInv
    <3> QED
      BY <3>1, <3>2, RowTypes DEF IndInv, SaverInv
  <2>2. ASSUME NEW p \in PageJobs, parse[p].st # "none" PROVE parse[p].item = row.id
    <3>1. PICK s \in Savers : saver[s].item = parse[p].item
      BY <2>2 DEF IndInv, JobInv
    <3>2. parse[p].item \in Items
      BY <2>2, JobTypes DEF IndInv, JobInv
    <3> QED
      BY <3>1, <3>2, RowTypes DEF IndInv, SaverInv
  <2>3. ASSUME NEW p \in Requests \cup Again(Requests), parse[p].st # "none"
        PROVE  parse[p].item = row.id
    <3>1. PICK r \in Requests : p \in Added(r)
      BY DEF Added, Again
    <3>2. fetch[r].st # "none" /\ parse[p].item = fetch[r].item
      BY <2>3, <3>1, JobTypes DEF IndInv, JobInv
    <3> QED
      BY <2>1, <3>2
  <2> QED
    BY <2>1, <2>2, <2>3 DEF RowBeforeJob
<1> QED
  BY <1>1, Invariant, PTL

\* A row that is PROCESSING has a call or a job to come, or a named reason.
THEOREM ProcessingIsPendingCorrect == Spec => []ProcessingIsPending
<1>1. IndInv => ProcessingIsPending
  BY DEF IndInv
<1> QED
  BY <1>1, Invariant, PTL

\* The content of a feed's entry with a date is where its save-page job looks: all
\* that was stored for it has the one date that its jobs have.
THEOREM FeedPathsAgreeCorrect == Spec => []FeedPathsAgree
<1>1. IndInv => FeedPathsAgree
  <2> SUFFICES ASSUME IndInv, NEW p \in Dated \cup Again(Dated), NEW now \in Time,
                      parse[p].st = "waiting", NEW b \in blobs, b[1] = parse[p].item,
                      \A s \in Savers : saver[s].item # parse[p].item
               PROVE  BlobPath(p, now) \in blobs
    BY DEF FeedPathsAgree
  <2>1. PICK j \in Dated : p \in Added(j)
    BY DEF Added, Again
  <2>2. parse[p].item = j
    BY <2>1, JobTypes DEF IndInv, JobInv
  <2>3. b[2] = parse[p].savedAt /\ parse[p].savedAt # NoTime
    BY <2>1, <2>2 DEF IndInv, BlobInv, DateInv, Unsaved, ActiveParse
  <2>4. b = <<b[1], b[2]>>
    BY DEF IndInv, TypeOK
  <2> QED
    BY <2>2, <2>3, <2>4 DEF BlobPath
<1> QED
  BY <1>1, Invariant, PTL

-----------------------------------------------------------------------------
(* The failure counter of the domain.                                      *)

CounterInv == IsFiniteSet(Counting) /\ UntimedFailures

\* A step that neither counts a failure nor begins or ends a count.
LEMMA CounterStays ==
  ASSUME CounterInv, Counting' = Counting, UNCHANGED <<fails, ttl, lost>>
  PROVE  CounterInv'
  BY DEF CounterInv, UntimedFailures

\* A job between two steps of which none is the INCR or the EXPIRE.
LEMMA NotCounting ==
  ASSUME IndInv, CounterInv, NEW j \in FetchJobs, NEW new, fetch' = [fetch EXCEPT ![j] = new],
         fetch[j].st # "counting", new.st # "counting", UNCHANGED <<fails, ttl, lost>>
  PROVE  CounterInv'
<1>1. Counting' = Counting
  BY DEF Counting, IndInv, TypeOK
<1> QED
  BY <1>1, CounterStays

\* INCR: one failure and one job that is counting more.
LEMMA FailsCounts ==
  ASSUME IndInv, CounterInv, NEW j \in FetchJobs, FetchFails(j), fails' = fails + 1,
         fetch' = [fetch EXCEPT ![j].st = "counting"]
  PROVE  CounterInv'
<1>1. j \notin Counting /\ Counting' = Counting \cup {j}
  BY JobTypes DEF FetchFails, Counting, IndInv, TypeOK
<1>2. /\ IsFiniteSet(Counting')
      /\ Cardinality(Counting') = Cardinality(Counting) + 1
  BY <1>1, FS_AddElement DEF CounterInv
<1>3. fails' = fails + 1 /\ ttl' = ttl /\ lost' = lost
  BY DEF FetchFails
<1>4. Cardinality(Counting) \in Nat /\ fails \in Nat /\ lost \in Nat
  BY FS_CardinalityType, SaveFlowAssumption DEF CounterInv, IndInv, TypeOK
<1> QED
  BY <1>2, <1>3, <1>4 DEF CounterInv, UntimedFailures

\* EXPIRE: it runs if the key is there, or it fails and is lost.
LEMMA ExpireCounts ==
  ASSUME IndInv, CounterInv, NEW j \in FetchJobs, ExpireFailures(j)
  PROVE  CounterInv'
<1>1. fetch[j] \in FetchRecord /\ FetchAttempts(j) \in {1, 2, 3} /\ fetch[j].st = "counting"
  BY JobTypes DEF FetchAttempts, ExpireFailures
<1>2. Failed(fetch[j], FetchAttempts(j)).st # "counting"
  BY <1>1, FetchEnds
<1>3. fetch' = [fetch EXCEPT ![j] = Failed(fetch[j], FetchAttempts(j))]
  BY DEF ExpireFailures, FailFetch
<1>4. j \in Counting /\ Counting' = Counting \ {j}
  BY <1>1, <1>2, <1>3 DEF Counting, IndInv, TypeOK
<1>5. /\ IsFiniteSet(Counting')
      /\ Cardinality(Counting') = Cardinality(Counting) - 1
  BY <1>4, FS_RemoveElement DEF CounterInv
<1>6. Cardinality(Counting') \in Nat
  BY <1>5, FS_CardinalityType
<1>7. Cardinality(Counting) \in Nat /\ fails \in Nat /\ lost \in Nat /\ fails' = fails
  BY FS_CardinalityType, SaveFlowAssumption DEF CounterInv, IndInv, TypeOK, ExpireFailures
<1>8. CASE ttl' = (fails > 0) /\ UNCHANGED lost
  <2>1. CASE fails > 0
    <3>1. ttl'
      BY <1>8, <2>1
    <3> QED
      BY <1>5, <3>1 DEF CounterInv, UntimedFailures
  <2>2. CASE fails = 0
    <3>1. fails' <= lost' + Cardinality(Counting')
      BY <1>6, <1>7, <1>8, <2>2
    <3> QED
      BY <1>5, <3>1 DEF CounterInv, UntimedFailures
  <2> QED
    BY <1>7, <2>1, <2>2
<1>9. CASE lost < MaxLost /\ lost' = lost + 1 /\ UNCHANGED ttl
  <2>1. ~ttl => fails' <= lost' + Cardinality(Counting')
    BY <1>5, <1>7, <1>9 DEF CounterInv, UntimedFailures
  <2> QED
    BY <1>5, <1>9, <2>1 DEF CounterInv, UntimedFailures
<1> QED
  BY <1>8, <1>9 DEF ExpireFailures

\* The other steps of a fetch-content job.
LEMMA FetchCounts ==
  ASSUME IndInv, CounterInv, NEW j \in FetchJobs, FetchContent(j)
  PROVE  CounterInv'
<1>0. fetch[j] \in FetchRecord /\ FetchAttempts(j) \in {1, 2, 3}
  BY JobTypes DEF FetchAttempts
<1>1. CASE DropBlocked(j)
  <2>1. Finish(fetch[j], "done").st # "counting"
    BY <1>0, FetchEnds
  <2> QED
    BY <1>1, <2>1, NotCounting DEF DropBlocked, domain
<1>2. CASE GetCachedResult(j)
  <2>0. PICK st \in {"fetching", "deliver"} :
          fetch' = [fetch EXCEPT ![j].st = st, ![j].pdf = FALSE]
    BY <1>2 DEF GetCachedResult
  <2> DEFINE new == [fetch[j] EXCEPT !.st = st, !.pdf = FALSE]
  <2>1. new.st # "counting"
    BY <1>0 DEF FetchRecord
  <2>2. fetch' = [fetch EXCEPT ![j] = new]
    BY <2>0, JobTypes
  <2> HIDE DEF new
  <2> QED
    BY <1>2, <2>1, <2>2, NotCounting DEF GetCachedResult, domain
<1>3. CASE FetchSucceeds(j)
  <2>1. PICK isPdf \in BOOLEAN :
          fetch' = [fetch EXCEPT ![j].st = "deliver", ![j].pdf = isPdf]
    BY <1>3 DEF FetchSucceeds
  <2> DEFINE new == [fetch[j] EXCEPT !.st = "deliver", !.pdf = isPdf]
  <2>2. new.st # "counting"
    BY <1>0 DEF FetchRecord
  <2>3. fetch' = [fetch EXCEPT ![j] = new]
    BY <2>1, JobTypes
  <2> HIDE DEF new
  <2> QED
    BY <1>3, <2>2, <2>3, NotCounting DEF FetchSucceeds, domain
<1>4. ASSUME NEW now \in Time, Deliver(j, now) PROVE CounterInv'
  <2>1. /\ Finish(fetch[j], "done").st # "counting"
        /\ Failed(fetch[j], FetchAttempts(j)).st # "counting"
    BY <1>0, FetchEnds
  <2>2. \/ fetch' = [fetch EXCEPT ![j] = Finish(fetch[j], "done")]
        \/ fetch' = [fetch EXCEPT ![j] = Failed(fetch[j], FetchAttempts(j))]
    BY <1>4 DEF Deliver, FailFetch
  <2>3. fetch[j].st # "counting" /\ UNCHANGED <<fails, ttl, lost>>
    BY <1>4 DEF Deliver, domain
  <2> QED
    BY <2>1, <2>2, <2>3, NotCounting
<1>5. CASE FetchFails(j)
  <2>1. CASE FailFetch(j) /\ UNCHANGED fails
    <3>1. fetch' = [fetch EXCEPT ![j] = Failed(fetch[j], FetchAttempts(j))]
      BY <2>1 DEF FailFetch
    <3>2. Failed(fetch[j], FetchAttempts(j)).st # "counting"
      BY <1>0, FetchEnds
    <3>3. fetch[j].st # "counting" /\ UNCHANGED <<fails, ttl, lost>>
      BY <1>5, <2>1 DEF FetchFails
    <3> QED
      BY <3>1, <3>2, <3>3, NotCounting
  <2> QED
    BY <1>5, <2>1, FailsCounts DEF FetchFails
<1> QED
  BY <1>1, <1>2, <1>3, <1>4, <1>5, ExpireCounts DEF FetchContent

\* A job that is added is waiting.
LEMMA AddsUncounted ==
  ASSUME IndInv, CounterInv,
         \/ \E s \in Savers : FindByURL(s) \/ Save(s) \/ SaveFails(s)
         \/ \E j \in FeedJobs, date \in Time : FeedFinds(j, date)
  PROVE  CounterInv'
<1>0. UNCHANGED <<fails, ttl, lost>>
  BY DEF FindByURL, Save, UpdateRow, CreateRow, UploadPage, EnqueueFetch, EnqueueParse,
         SaveFails, FeedFinds, domain
<1>1. ASSUME NEW s \in Savers, EnqueueFetch(s), fetch[Request[s]].st = "none",
             fetch' = [fetch EXCEPT ![Request[s]] = [@ EXCEPT !.st = "waiting", !.item = saver[s].item]]
      PROVE  CounterInv'
  <2> DEFINE new == [fetch[Request[s]] EXCEPT !.st = "waiting", !.item = saver[s].item]
  <2>1. Request[s] \in FetchJobs
    BY <1>1, SaveFlowAssumption DEF EnqueueFetch, FetchJobs
  <2>2. new.st # "counting"
    BY <2>1, JobTypes DEF FetchRecord
  <2>3. fetch' = [fetch EXCEPT ![Request[s]] = new] /\ fetch[Request[s]].st # "counting"
    BY <1>1
  <2> HIDE DEF new
  <2> QED
    BY <1>0, <2>1, <2>2, <2>3, NotCounting
<1>2. ASSUME NEW j \in FeedJobs, NEW date \in Time, FeedFinds(j, date) PROVE CounterInv'
  <2> DEFINE new == [fetch[j] EXCEPT !.st = "waiting", !.item = j, !.savedAt = EntryDate(j, date)]
  <2>1. j \in FetchJobs
    BY DEF FetchJobs
  <2>2. new.st # "counting"
    BY <2>1, JobTypes DEF FetchRecord
  <2>3. fetch' = [fetch EXCEPT ![j] = new] /\ fetch[j].st # "counting"
    BY <1>2 DEF FeedFinds
  <2> HIDE DEF new
  <2> QED
    BY <1>0, <2>1, <2>2, <2>3, NotCounting
<1>3. CASE UNCHANGED fetch
  BY <1>0, <1>3, CounterStays DEF Counting
<1> QED
  BY <1>1, <1>2, <1>3
  DEF FindByURL, Save, UpdateRow, CreateRow, UploadPage, EnqueueFetch, EnqueueParse, Skip,
      SaveFails, queues

\* Neither do edits, save-page jobs and the keys that expire: when the counter
\* does, it is 0 whatever EXPIREs are still to come.
LEMMA RestUncounted ==
  ASSUME IndInv, CounterInv,
         \/ \E e \in Editors : GetByID(e) \/ SetState(e) \/ UpdatePage(e)
         \/ \E p \in ParseJobs : SavePage(p)
         \/ CacheExpires \/ FailuresExpire
         \/ \E p \in PageJobs : PageJobExpires(p)
         \/ UNCHANGED vars
  PROVE  CounterInv'
<1>1. UNCHANGED fetch
  BY DEF GetByID, SetState, UpdatePage, SaveBack, SavePage, SkipPdf, ReadContent,
         UpsertLibraryItem, CacheExpires, FailuresExpire, PageJobExpires, vars, queues
<1>2. Counting' = Counting
  BY <1>1 DEF Counting
<1>3. CASE FailuresExpire
  <2>1. Cardinality(Counting') \in Nat /\ lost \in Nat /\ fails' = 0 /\ lost' = lost
    BY <1>2, <1>3, FS_CardinalityType, SaveFlowAssumption DEF FailuresExpire, CounterInv, IndInv, TypeOK
  <2>2. fails' <= lost' + Cardinality(Counting')
    BY <2>1
  <2> QED
    BY <1>2, <2>2 DEF CounterInv, UntimedFailures
<1>4. CASE ~FailuresExpire
  <2>1. UNCHANGED <<fails, ttl, lost>>
    BY <1>4 DEF GetByID, SetState, UpdatePage, SaveBack, SavePage, SkipPdf, ReadContent,
         UpsertLibraryItem, CacheExpires, PageJobExpires, vars, domain
  <2> QED
    BY <1>2, <2>1, CounterStays
<1> QED
  BY <1>3, <1>4

LEMMA CounterInit == Init => CounterInv
<1> SUFFICES ASSUME Init PROVE CounterInv
  OBVIOUS
<1>1. Counting = {}
  BY DEF Init, Counting, NoFetch
<1>2. fails <= lost + Cardinality(Counting)
  BY <1>1, FS_EmptySet DEF Init
<1> QED
  BY <1>1, <1>2, FS_EmptySet DEF CounterInv, UntimedFailures

LEMMA CounterHolds == Spec => []CounterInv
<1>1. IndInv /\ CounterInv /\ [Next]_vars => CounterInv'
  BY FetchCounts, AddsUncounted, RestUncounted DEF Next
<1> QED
  BY CounterInit, Invariant, <1>1, PTL DEF Spec

\* Failures that no EXPIRE will clear are those whose EXPIRE failed, for any
\* number of fetches between their INCR and their EXPIRE and of EXPIREs that
\* fail.
THEOREM UntimedFailuresCorrect == Spec => []UntimedFailures
<1>1. CounterInv => UntimedFailures
  BY DEF CounterInv
<1> QED
  BY <1>1, CounterHolds, PTL

\* A domain that its failures block has an EXPIRE running or a fetch about to set
\* one, until more EXPIREs have failed than failures that it takes to block it
\* (isDomainBlocked, incrementDomainFailure): only then does the block last.
\* That it is lifted otherwise is BlockIsLifted, which TLC checks.
THEOREM BlockHasTimer ==
  Spec => [](CountedOut /\ lost <= MaxFailures => ttl \/ Counting # {})
<1>1. IndInv /\ CounterInv => (CountedOut /\ lost <= MaxFailures => ttl \/ Counting # {})
  <2> SUFFICES ASSUME IndInv, CounterInv, CountedOut, lost <= MaxFailures, ~ttl, Counting = {}
               PROVE  FALSE
    OBVIOUS
  <2>1. fails <= lost + 0
    BY FS_EmptySet DEF CounterInv, UntimedFailures
  <2> QED
    BY <2>1, SaveFlowAssumption DEF CountedOut, IndInv, TypeOK
<1> QED
  BY <1>1, Invariant, CounterHolds, PTL

-----------------------------------------------------------------------------
(* The refinement: each queue takes the steps of JobOutcome.               *)

FetchStep == [FetchQueue!Next]_(FetchQueue!vars)
ParseStep == [ParseQueue!Next]_(ParseQueue!vars)

\* A save-page job of a retried fetch-content job is the last thing that the
\* latter adds, and a job that is not open has counted no failures.
QueueInv ==
  /\ \A j \in FetchJobs :
       parse[<<"again", j>>].st # "none" => fetch[j].st \in {"done", "failed"}
  /\ \A p \in ParseJobs : parse[p].st \in {"none", "done", "failed"} => parse[p].tries = 0

\* What is counted of an attempt that fails, and of a job that ends.
LEMMA FailCounts ==
  ASSUME NEW job \in FetchRecord \cup ParseRecord, NEW n \in {1, 2, 3}, NEW st \in {"done", "failed"}
  PROVE  /\ Finish(job, st).tries = 0 /\ Finish(job, st).st = st
         /\ job.tries + 1 < n => Failed(job, n).tries = job.tries + 1 /\ Failed(job, n).st = "waiting"
         /\ job.tries + 1 >= n => Failed(job, n).tries = 0 /\ Failed(job, n).st = "failed"
<1>1. ASSUME NEW end \in {"done", "failed"}
      PROVE  Finish(job, end).tries = 0 /\ Finish(job, end).st = end
  <2>1. CASE job \in FetchRecord
    BY <2>1 DEF Finish, FetchRecord
  <2>2. CASE job \in ParseRecord
    BY <2>2 DEF Finish, ParseRecord
  <2> QED
    BY <2>1, <2>2
<1>2. job.tries \in 0..2
  BY DEF FetchRecord, ParseRecord
<1>3. CASE job.tries + 1 < n
  <2>1. Failed(job, n) = [job EXCEPT !.tries = @ + 1, !.st = "waiting"]
    BY <1>3 DEF Failed
  <2>2. Failed(job, n).tries = job.tries + 1 /\ Failed(job, n).st = "waiting"
    <3>1. CASE job \in FetchRecord
      BY <2>1, <3>1 DEF FetchRecord
    <3>2. CASE job \in ParseRecord
      BY <2>1, <3>2 DEF ParseRecord
    <3> QED
      BY <3>1, <3>2
  <2> QED
    BY <1>1, <1>2, <1>3, <2>2
<1>4. CASE ~(job.tries + 1 < n)
  <2>1. Failed(job, n) = Finish(job, "failed")
    BY <1>4 DEF Failed
  <2> QED
    BY <1>1, <1>2, <1>4, <2>1
<1> QED
  BY <1>3, <1>4

\* What a move of one job is to those who see only its outcome.
Outcomes(job, new, n) ==
  \/ job.st = "none" /\ Phase(new.st) = "open" /\ new.tries = job.tries
  \/ Phase(job.st) = "open" /\ Phase(new.st) = "open" /\ new.tries = job.tries
  \/ Phase(job.st) = "open" /\ new.st = "done" /\ new.tries = 0
  \/ Phase(job.st) = "open" /\ new = Failed(job, n)
  \/ job.st \in {"done", "failed"} /\ new.st = "none" /\ new.tries = job.tries

LEMMA FetchSeen ==
  ASSUME fetch \in [FetchJobs -> FetchRecord], NEW j \in FetchJobs, NEW new \in FetchRecord,
         fetch' = [fetch EXCEPT ![j] = new], Outcomes(fetch[j], new, FetchAttempts(j))
  PROVE  FetchStep
<1> DEFINE phase == [k \in FetchJobs |-> Phase(fetch[k].st)]
           failures == [k \in FetchJobs |-> fetch[k].tries]
<1>1. /\ [k \in FetchJobs |-> Phase(fetch'[k].st)] = [phase EXCEPT ![j] = Phase(new.st)]
      /\ [k \in FetchJobs |-> fetch'[k].tries] = [failures EXCEPT ![j] = new.tries]
  BY Zenon
<1>2. fetch[j] \in FetchRecord /\ FetchAttempts(j) \in {1, 2, 3}
  BY DEF FetchAttempts
<1>3. phase[j] = Phase(fetch[j].st) /\ failures[j] = fetch[j].tries /\ fetch[j].tries \in 0..2
  BY <1>2 DEF FetchRecord
<1>4. [k \in FetchJobs |-> FetchAttempts(k)][j] = FetchAttempts(j)
  OBVIOUS
<1>5. CASE fetch[j].st = "none" /\ Phase(new.st) = "open" /\ new.tries = fetch[j].tries
  <2>1. FetchQueue!Add(j)
    BY <1>1, <1>3, <1>5 DEF FetchQueue!Add, FetchQueue!Move, Phase
  <2> QED
    BY <2>1 DEF FetchStep, FetchQueue!Next
<1>6. CASE Phase(fetch[j].st) = "open" /\ Phase(new.st) = "open" /\ new.tries = fetch[j].tries
  BY <1>1, <1>3, <1>6 DEF FetchStep, FetchQueue!vars
<1>7. CASE Phase(fetch[j].st) = "open" /\ new.st = "done" /\ new.tries = 0
  <2>1. FetchQueue!Succeed(j)
    BY <1>1, <1>3, <1>7 DEF FetchQueue!Succeed, FetchQueue!Move, FetchQueue!Reset, Phase
  <2> QED
    BY <2>1 DEF FetchStep, FetchQueue!Next
<1>8. CASE Phase(fetch[j].st) = "open" /\ new = Failed(fetch[j], FetchAttempts(j))
  <2>1. CASE fetch[j].tries + 1 < FetchAttempts(j)
    <3>1. new.tries = fetch[j].tries + 1 /\ Phase(new.st) = "open"
      BY <1>2, <1>8, <2>1, FailCounts DEF Phase
    <3>2. FetchQueue!Fail(j)
      BY <1>1, <1>3, <1>4, <1>8, <2>1, <3>1 DEF FetchQueue!Fail
    <3> QED
      BY <3>2 DEF FetchStep, FetchQueue!Next
  <2>2. CASE fetch[j].tries + 1 >= FetchAttempts(j)
    <3>1. new.tries = 0 /\ Phase(new.st) = "failed"
      BY <1>2, <1>8, <2>2, FailCounts DEF Phase
    <3>2. FetchQueue!GiveUp(j)
      BY <1>1, <1>3, <1>4, <1>8, <2>2, <3>1 DEF FetchQueue!GiveUp, FetchQueue!Move, FetchQueue!Reset
    <3> QED
      BY <3>2 DEF FetchStep, FetchQueue!Next
  <2> QED
    BY <1>2, <1>3, <2>1, <2>2
<1>9. CASE fetch[j].st \in {"done", "failed"} /\ new.st = "none" /\ new.tries = fetch[j].tries
  <2>1. FetchQueue!Forget(j)
    BY <1>1, <1>3, <1>9 DEF FetchQueue!Forget, Phase
  <2> QED
    BY <2>1 DEF FetchStep, FetchQueue!Next
<1> QED
  BY <1>5, <1>6, <1>7, <1>8, <1>9 DEF Outcomes

LEMMA ParseSeen ==
  ASSUME parse \in [ParseJobs -> ParseRecord], NEW j \in ParseJobs, NEW new \in ParseRecord,
         parse' = [parse EXCEPT ![j] = new], Outcomes(parse[j], new, ParseAttempts(j))
  PROVE  ParseStep
<1> DEFINE phase == [k \in ParseJobs |-> Phase(parse[k].st)]
           failures == [k \in ParseJobs |-> parse[k].tries]
<1>1. /\ [k \in ParseJobs |-> Phase(parse'[k].st)] = [phase EXCEPT ![j] = Phase(new.st)]
      /\ [k \in ParseJobs |-> parse'[k].tries] = [failures EXCEPT ![j] = new.tries]
  BY Zenon
<1>2. parse[j] \in ParseRecord /\ ParseAttempts(j) \in {1, 2, 3}
  BY DEF ParseAttempts
<1>3. phase[j] = Phase(parse[j].st) /\ failures[j] = parse[j].tries /\ parse[j].tries \in 0..2
  BY <1>2 DEF ParseRecord
<1>4. [k \in ParseJobs |-> ParseAttempts(k)][j] = ParseAttempts(j)
  OBVIOUS
<1>5. CASE parse[j].st = "none" /\ Phase(new.st) = "open" /\ new.tries = parse[j].tries
  <2>1. ParseQueue!Add(j)
    BY <1>1, <1>3, <1>5 DEF ParseQueue!Add, ParseQueue!Move, Phase
  <2> QED
    BY <2>1 DEF ParseStep, ParseQueue!Next
<1>6. CASE Phase(parse[j].st) = "open" /\ Phase(new.st) = "open" /\ new.tries = parse[j].tries
  BY <1>1, <1>3, <1>6 DEF ParseStep, ParseQueue!vars
<1>7. CASE Phase(parse[j].st) = "open" /\ new.st = "done" /\ new.tries = 0
  <2>1. ParseQueue!Succeed(j)
    BY <1>1, <1>3, <1>7 DEF ParseQueue!Succeed, ParseQueue!Move, ParseQueue!Reset, Phase
  <2> QED
    BY <2>1 DEF ParseStep, ParseQueue!Next
<1>8. CASE Phase(parse[j].st) = "open" /\ new = Failed(parse[j], ParseAttempts(j))
  <2>1. CASE parse[j].tries + 1 < ParseAttempts(j)
    <3>1. new.tries = parse[j].tries + 1 /\ Phase(new.st) = "open"
      BY <1>2, <1>8, <2>1, FailCounts DEF Phase
    <3>2. ParseQueue!Fail(j)
      BY <1>1, <1>3, <1>4, <1>8, <2>1, <3>1 DEF ParseQueue!Fail
    <3> QED
      BY <3>2 DEF ParseStep, ParseQueue!Next
  <2>2. CASE parse[j].tries + 1 >= ParseAttempts(j)
    <3>1. new.tries = 0 /\ Phase(new.st) = "failed"
      BY <1>2, <1>8, <2>2, FailCounts DEF Phase
    <3>2. ParseQueue!GiveUp(j)
      BY <1>1, <1>3, <1>4, <1>8, <2>2, <3>1 DEF ParseQueue!GiveUp, ParseQueue!Move, ParseQueue!Reset
    <3> QED
      BY <3>2 DEF ParseStep, ParseQueue!Next
  <2> QED
    BY <1>2, <1>3, <2>1, <2>2
<1>9. CASE parse[j].st \in {"done", "failed"} /\ new.st = "none" /\ new.tries = parse[j].tries
  <2>1. ParseQueue!Forget(j)
    BY <1>1, <1>3, <1>9 DEF ParseQueue!Forget, Phase
  <2> QED
    BY <2>1 DEF ParseStep, ParseQueue!Next
<1> QED
  BY <1>5, <1>6, <1>7, <1>8, <1>9 DEF Outcomes

LEMMA QueueInit == Init => QueueInv /\ FetchQueue!Init /\ ParseQueue!Init
<1> SUFFICES ASSUME Init PROVE QueueInv /\ FetchQueue!Init /\ ParseQueue!Init
  OBVIOUS
<1>1. /\ \A j \in FetchJobs : fetch[j].st = "none" /\ fetch[j].tries = 0
      /\ \A p \in ParseJobs : parse[p].st = "none" /\ parse[p].tries = 0
  BY DEF Init, NoFetch, NoParse
<1>2. Phase("none") = "new"
  BY DEF Phase
<1>3. FetchQueue!Init /\ ParseQueue!Init
  BY <1>1, <1>2 DEF FetchQueue!Init, ParseQueue!Init
<1>4. \A j \in FetchJobs : <<"again", j>> \in ParseJobs
  BY DEF ParseJobs, Again
<1> QED
  BY <1>1, <1>3, <1>4 DEF QueueInv

LEMMA FetchStill == ASSUME UNCHANGED fetch PROVE FetchStep
  BY DEF FetchStep, FetchQueue!vars

LEMMA ParseStill == ASSUME UNCHANGED parse PROVE ParseStep
  BY DEF ParseStep, ParseQueue!vars

\* A fetch-content job moves and adds nothing.
LEMMA FetchMoved ==
  ASSUME IndInv, QueueInv, NEW j \in FetchJobs, NEW new \in FetchRecord,
         fetch' = [fetch EXCEPT ![j] = new], fetch[j].st \in {"none"} \cup ActiveFetch,
         Outcomes(fetch[j], new, FetchAttempts(j)), UNCHANGED parse
  PROVE  QueueInv' /\ FetchStep /\ ParseStep
<1>1. \A k \in FetchJobs : fetch'[k] = IF k = j THEN new ELSE fetch[k]
  BY JobTypes
<1>2. parse[<<"again", j>>].st = "none"
  BY DEF QueueInv, ActiveFetch
<1>3. QueueInv'
  BY <1>1, <1>2 DEF QueueInv
<1> QED
  BY <1>3, JobTypes, FetchSeen, ParseStill

\* A save-page job moves, or one of savePage's is added.
LEMMA ParseMoved ==
  ASSUME IndInv, QueueInv, NEW p \in ParseJobs, NEW new \in ParseRecord,
         parse' = [parse EXCEPT ![p] = new], parse[p].st # "none" \/ p \in PageJobs,
         Outcomes(parse[p], new, ParseAttempts(p)), UNCHANGED fetch
  PROVE  QueueInv' /\ FetchStep /\ ParseStep
<1>1. \A q \in ParseJobs : parse'[q] = IF q = p THEN new ELSE parse[q]
  BY JobTypes
<1>2. new.st \in {"none", "done", "failed"} => new.tries = 0
  <2>1. CASE Phase(parse[p].st) = "open" /\ new = Failed(parse[p], ParseAttempts(p))
    <3>1. parse[p] \in ParseRecord /\ ParseAttempts(p) \in {1, 2, 3} /\ parse[p].tries \in 0..2
      BY JobTypes DEF ParseAttempts, ParseRecord
    <3> QED
      BY <2>1, <3>1, FailCounts
  <2>2. CASE parse[p].st \in {"done", "failed"} /\ new.tries = parse[p].tries
    BY <2>2 DEF QueueInv
  <2> QED
    BY <2>1, <2>2 DEF Outcomes, Phase
<1>3. \A j \in FetchJobs : parse'[<<"again", j>>].st # "none" => parse[<<"again", j>>].st # "none"
  BY <1>1, JobTypes DEF Added
<1>4. QueueInv'
  BY <1>1, <1>2, <1>3 DEF QueueInv
<1> QED
  BY <1>4, JobTypes, ParseSeen, FetchStill

\* What becomes of the job that AddBulk's caller is.
LEMMA DeliverSeen ==
  ASSUME IndInv, NEW j \in FetchJobs, NEW now \in Time, Deliver(j, now)
  PROVE  \E new \in FetchRecord :
           /\ fetch' = [fetch EXCEPT ![j] = new]
           /\ Outcomes(fetch[j], new, FetchAttempts(j))
           /\ \/ UNCHANGED parse
              \/ AddParse(j, SavedDate(j, now)) /\ (new.st = "done" \/ parse[j].st = "none")
<1>1. fetch[j] \in FetchRecord /\ FetchAttempts(j) \in {1, 2, 3} /\ fetch[j].st = "deliver"
  BY JobTypes DEF FetchAttempts, Deliver
<1>2. Phase(fetch[j].st) = "open"
  BY <1>1 DEF Phase
<1>3. CASE fetch' = [fetch EXCEPT ![j] = Finish(@, "done")] /\ AddParse(j, SavedDate(j, now))
  <2> DEFINE new == Finish(fetch[j], "done")
  <2>1. new \in FetchRecord /\ new.st = "done" /\ new.tries = 0
    BY <1>1, FetchEnds, FailCounts
  <2> QED
    BY <1>2, <1>3, <2>1 DEF Outcomes
<1>4. CASE FailFetch(j) /\ (UNCHANGED parse \/ (AddParse(j, SavedDate(j, now)) /\ parse[j].st = "none"))
  <2> DEFINE new == Failed(fetch[j], FetchAttempts(j))
  <2>1. new \in FetchRecord /\ fetch' = [fetch EXCEPT ![j] = new]
    BY <1>1, <1>4, FetchEnds DEF FailFetch
  <2> QED
    BY <1>2, <1>4, <2>1 DEF Outcomes
<1> QED
  BY <1>3, <1>4 DEF Deliver

LEMMA DeliverQueues ==
  ASSUME IndInv, QueueInv, NEW j \in FetchJobs, NEW now \in Time, Deliver(j, now)
  PROVE  QueueInv' /\ FetchStep /\ ParseStep
<1>1. PICK new \in FetchRecord :
        /\ fetch' = [fetch EXCEPT ![j] = new]
        /\ Outcomes(fetch[j], new, FetchAttempts(j))
        /\ \/ UNCHANGED parse
           \/ AddParse(j, SavedDate(j, now)) /\ (new.st = "done" \/ parse[j].st = "none")
  BY DeliverSeen
<1>2. fetch[j].st = "deliver"
  BY DEF Deliver
<1>3. CASE UNCHANGED parse
  BY <1>1, <1>2, <1>3, FetchMoved DEF ActiveFetch
<1>4. CASE AddParse(j, SavedDate(j, now)) /\ (new.st = "done" \/ parse[j].st = "none")
  <2> DEFINE date == SavedDate(j, now)
             p == IF parse[j].st = "none" THEN j ELSE <<"again", j>>
             added == [NoParse EXCEPT !.st = "waiting", !.item = fetch[j].item, !.keyed = TRUE,
                                      !.savedAt = Rfc3339(date), !.pdf = fetch[j].pdf]
  <2>1. parse' = [parse EXCEPT ![p] = added]
    BY <1>4 DEF AddParse
  <2>2. p \in Added(j) /\ p \in ParseJobs
    BY JobTypes DEF Added
  <2>3. parse[p].st = "none" /\ parse[p].tries = 0
    BY <1>2, <2>2 DEF QueueInv
  <2>4. added.st = "waiting" /\ added.tries = 0
    BY DEF NoParse
  <2>5. added \in ParseRecord
    <3>1. date \in Nat
      <4>1. fetch[j].savedAt \in Nat /\ now \in Nat
        BY JobTypes, Times DEF FetchRecord
      <4> QED
        BY <4>1 DEF SavedDate
    <3>2. parse' \in [ParseJobs -> ParseRecord]
      <4> HIDE DEF date
      <4>1. PICK q \in Added(j), r \in ParseRecord : parse' = [parse EXCEPT ![q] = r]
        BY <1>2, <1>4, <3>1, Adds DEF date
      <4> QED
        BY <4>1, JobTypes
    <3>3. parse'[p] = added
      BY <2>1, <2>2, JobTypes
    <3> QED
      BY <2>2, <3>2, <3>3
  <2> HIDE DEF added
  <2>6. Outcomes(parse[p], added, ParseAttempts(p))
    BY <2>3, <2>4 DEF Outcomes, Phase
  <2>7. ParseStep
    BY <2>1, <2>2, <2>5, <2>6, JobTypes, ParseSeen
  <2>8. \A q \in ParseJobs : parse'[q] = IF q = p THEN added ELSE parse[q]
    BY <2>1, JobTypes
  <2>9. ASSUME NEW k \in FetchJobs, parse'[<<"again", k>>].st # "none"
        PROVE  fetch'[k].st \in {"done", "failed"}
    <3>1. <<"again", k>> \in Added(k) /\ <<"again", k>> \in ParseJobs
      BY JobTypes DEF Added
    <3>2. CASE k # j
      <4>1. <<"again", k>> # p
        BY <2>2, <3>1, <3>2, JobTypes
      <4> QED
        BY <1>1, <2>8, <2>9, <3>1, <3>2, <4>1, JobTypes DEF QueueInv
    <3>3. CASE k = j /\ p = j
      <4>1. <<"again", k>> # p
        BY <3>3, SaveFlowAssumption DEF Again
      <4> QED
        BY <1>2, <2>8, <2>9, <3>1, <3>3, <4>1 DEF QueueInv
    <3>4. CASE k = j /\ parse[j].st # "none"
      BY <1>1, <1>4, <3>4, JobTypes
    <3> QED
      BY <3>2, <3>3, <3>4
  <2>10. QueueInv'
    BY <2>4, <2>8, <2>9 DEF QueueInv
  <2> QED
    BY <1>1, <2>7, <2>10, JobTypes, FetchSeen
<1> QED
  BY <1>1, <1>3, <1>4

LEMMA FetchQueues ==
  ASSUME IndInv, QueueInv, NEW j \in FetchJobs, FetchContent(j)
  PROVE  QueueInv' /\ FetchStep /\ ParseStep
<1>0. fetch[j] \in FetchRecord /\ FetchAttempts(j) \in {1, 2, 3}
  BY JobTypes DEF FetchAttempts
<1>1. CASE DropBlocked(j)
  <2> DEFINE new == Finish(fetch[j], "done")
  <2>1. new \in FetchRecord /\ new.st = "done" /\ new.tries = 0
    BY <1>0, FetchEnds, FailCounts
  <2>2. fetch[j].st = "waiting" /\ fetch' = [fetch EXCEPT ![j] = new] /\ UNCHANGED parse
    BY <1>1 DEF DropBlocked
  <2> HIDE DEF new
  <2>3. Outcomes(fetch[j], new, FetchAttempts(j))
    BY <2>1, <2>2 DEF Outcomes, Phase
  <2> QED
    BY <2>1, <2>2, <2>3, FetchMoved DEF ActiveFetch
<1>2. ASSUME NEW st \in {"fetching", "counting", "deliver"}, NEW pdf \in BOOLEAN,
             fetch' = [fetch EXCEPT ![j].st = st, ![j].pdf = pdf],
             fetch[j].st \in ActiveFetch, UNCHANGED parse
      PROVE  QueueInv' /\ FetchStep /\ ParseStep
  <2> DEFINE new == [fetch[j] EXCEPT !.st = st, !.pdf = pdf]
  <2>1. new \in FetchRecord /\ new.st = st /\ new.tries = fetch[j].tries
    BY <1>0 DEF FetchRecord
  <2>2. fetch' = [fetch EXCEPT ![j] = new]
    BY <1>2, JobTypes
  <2> HIDE DEF new
  <2>3. Outcomes(fetch[j], new, FetchAttempts(j))
    BY <1>2, <2>1 DEF Outcomes, Phase, ActiveFetch
  <2> QED
    BY <1>2, <2>1, <2>2, <2>3, FetchMoved
<1>3. CASE GetCachedResult(j)
  <2>1. PICK st \in {"fetching", "deliver"} :
          fetch' = [fetch EXCEPT ![j].st = st, ![j].pdf = FALSE]
    BY <1>3 DEF GetCachedResult
  <2>2. fetch[j].st \in ActiveFetch /\ UNCHANGED parse
    BY <1>3 DEF GetCachedResult, ActiveFetch
  <2> QED
    BY <1>2, <2>1, <2>2
<1>4. CASE FetchSucceeds(j)
  BY <1>2, <1>4 DEF FetchSucceeds, ActiveFetch
<1>5. ASSUME FailFetch(j), fetch[j].st \in {"fetching", "counting"}, UNCHANGED parse
      PROVE  QueueInv' /\ FetchStep /\ ParseStep
  <2> DEFINE new == Failed(fetch[j], FetchAttempts(j))
  <2>1. new \in FetchRecord
    BY <1>0, FetchEnds
  <2>2. fetch' = [fetch EXCEPT ![j] = new]
    BY <1>5 DEF FailFetch
  <2>3. Outcomes(fetch[j], new, FetchAttempts(j))
    BY <1>5 DEF Outcomes, Phase
  <2> HIDE DEF new
  <2> QED
    BY <1>5, <2>1, <2>2, <2>3, FetchMoved DEF ActiveFetch
<1>6. CASE FetchFails(j)
  <2>1. fetch[j].st = "fetching" /\ UNCHANGED parse
    BY <1>6 DEF FetchFails
  <2>2. CASE fetch' = [fetch EXCEPT ![j].st = "counting"]
    <3> DEFINE new == [fetch[j] EXCEPT !.st = "counting"]
    <3>1. new \in FetchRecord /\ new.st = "counting" /\ new.tries = fetch[j].tries
      BY <1>0 DEF FetchRecord
    <3>2. fetch' = [fetch EXCEPT ![j] = new]
      BY <2>2
    <3> HIDE DEF new
    <3>3. Outcomes(fetch[j], new, FetchAttempts(j))
      BY <2>1, <3>1 DEF Outcomes, Phase
    <3> QED
      BY <2>1, <3>1, <3>2, <3>3, FetchMoved DEF ActiveFetch
  <2> QED
    BY <1>5, <1>6, <2>1, <2>2 DEF FetchFails
<1>7. CASE ExpireFailures(j)
  BY <1>5, <1>7 DEF ExpireFailures
<1> QED
  BY <1>1, <1>3, <1>4, <1>6, <1>7, DeliverQueues DEF FetchContent

LEMMA PageQueues ==
  ASSUME IndInv, QueueInv, NEW p \in ParseJobs, SavePage(p)
  PROVE  QueueInv' /\ FetchStep /\ ParseStep
<1>0. parse[p] \in ParseRecord /\ ParseAttempts(p) \in {1, 2, 3}
  BY JobTypes DEF ParseAttempts
<1>1. ASSUME Phase(parse[p].st) = "open", parse' = [parse EXCEPT ![p] = Finish(@, "done")],
             UNCHANGED fetch
      PROVE  QueueInv' /\ FetchStep /\ ParseStep
  <2> DEFINE new == Finish(parse[p], "done")
  <2>1. new \in ParseRecord /\ new.st = "done" /\ new.tries = 0
    BY <1>0, ParseEnds, FailCounts
  <2>2. parse' = [parse EXCEPT ![p] = new] /\ parse[p].st # "none"
    BY <1>1 DEF Phase
  <2> HIDE DEF new
  <2>3. Outcomes(parse[p], new, ParseAttempts(p))
    BY <1>1, <2>1 DEF Outcomes
  <2> QED
    BY <1>1, <2>1, <2>2, <2>3, ParseMoved
<1>2. ASSUME Phase(parse[p].st) = "open", FailParse(p), UNCHANGED fetch
      PROVE  QueueInv' /\ FetchStep /\ ParseStep
  <2> DEFINE new == Failed(parse[p], ParseAttempts(p))
  <2>1. new \in ParseRecord
    BY <1>0, ParseEnds
  <2>2. parse' = [parse EXCEPT ![p] = new] /\ parse[p].st # "none"
    BY <1>2 DEF FailParse, Phase
  <2>3. Outcomes(parse[p], new, ParseAttempts(p))
    BY <1>2 DEF Outcomes
  <2> HIDE DEF new
  <2> QED
    BY <1>2, <2>1, <2>2, <2>3, ParseMoved
<1>3. CASE SkipPdf(p)
  BY <1>1, <1>3 DEF SkipPdf, Phase
<1>4. ASSUME NEW now \in Time, ReadContent(p, now) PROVE QueueInv' /\ FetchStep /\ ParseStep
  <2>1. parse[p].st = "waiting" /\ UNCHANGED fetch
    BY <1>4 DEF ReadContent
  <2>2. CASE parse' = [parse EXCEPT ![p].st = "upsert"]
    <3> DEFINE new == [parse[p] EXCEPT !.st = "upsert"]
    <3>1. new \in ParseRecord /\ new.st = "upsert" /\ new.tries = parse[p].tries
      BY <1>0 DEF ParseRecord
    <3>2. parse' = [parse EXCEPT ![p] = new]
      BY <2>2
    <3> HIDE DEF new
    <3>3. Outcomes(parse[p], new, ParseAttempts(p))
      BY <2>1, <3>1 DEF Outcomes, Phase
    <3> QED
      BY <2>1, <3>1, <3>2, <3>3, ParseMoved
  <2> QED
    BY <1>2, <1>4, <2>1, <2>2 DEF ReadContent, Phase
<1>5. CASE UpsertLibraryItem(p)
  BY <1>1, <1>2, <1>5 DEF UpsertLibraryItem, Phase
<1> QED
  BY <1>3, <1>4, <1>5 DEF SavePage

\* An id that is added again is one whose job is gone.
LEMMA AddsQueues ==
  ASSUME IndInv, QueueInv,
         \/ \E s \in Savers : FindByURL(s) \/ Save(s) \/ SaveFails(s)
         \/ \E j \in FeedJobs, date \in Time : FeedFinds(j, date)
         \/ \E p \in PageJobs : PageJobExpires(p)
  PROVE  QueueInv' /\ FetchStep /\ ParseStep
<1>1. ASSUME NEW j \in FetchJobs, NEW item \in Items, NEW savedAt \in Nat, fetch[j].st = "none",
             fetch' = [fetch EXCEPT ![j] = [@ EXCEPT !.st = "waiting", !.item = item,
                                                     !.savedAt = savedAt]],
             UNCHANGED parse
      PROVE  QueueInv' /\ FetchStep /\ ParseStep
  <2> DEFINE new == [fetch[j] EXCEPT !.st = "waiting", !.item = item, !.savedAt = savedAt]
  <2>1. new \in FetchRecord /\ new.st = "waiting" /\ new.tries = fetch[j].tries
    BY JobTypes DEF FetchRecord, MaybeItem
  <2>2. fetch' = [fetch EXCEPT ![j] = new]
    BY <1>1
  <2> HIDE DEF new
  <2>3. Outcomes(fetch[j], new, FetchAttempts(j))
    BY <1>1, <2>1 DEF Outcomes, Phase
  <2> QED
    BY <1>1, <2>1, <2>2, <2>3, FetchMoved
<1>2. ASSUME NEW s \in Savers, EnqueueFetch(s), fetch[Request[s]].st = "none",
             fetch' = [fetch EXCEPT ![Request[s]] = [@ EXCEPT !.st = "waiting", !.item = saver[s].item]],
             UNCHANGED parse
      PROVE  QueueInv' /\ FetchStep /\ ParseStep
  <2>1. Request[s] \in FetchJobs
    BY <1>2, SaveFlowAssumption DEF EnqueueFetch, FetchJobs
  <2>2. saver[s].item \in Items
    BY <1>2, RowTypes DEF EnqueueFetch, IndInv, SaverInv, MaybeItem
  <2>3. fetch[Request[s]] \in FetchRecord
    BY <2>1, JobTypes
  <2>4. fetch' = [fetch EXCEPT ![Request[s]] =
                   [@ EXCEPT !.st = "waiting", !.item = saver[s].item,
                             !.savedAt = fetch[Request[s]].savedAt]]
    BY <1>2, <2>3 DEF FetchRecord
  <2>5. fetch[Request[s]].savedAt \in Nat
    BY <2>3 DEF FetchRecord
  <2> QED
    BY <1>1, <1>2, <2>1, <2>2, <2>4, <2>5
<1>3. ASSUME NEW j \in FeedJobs, NEW date \in Time, FeedFinds(j, date)
      PROVE  QueueInv' /\ FetchStep /\ ParseStep
  <2>1. j \in FetchJobs /\ j \in Items /\ EntryDate(j, date) \in Nat
    BY Times, Printed DEF FetchJobs, Items, EntryDate, NoTime
  <2> QED
    BY <1>1, <1>3, <2>1 DEF FeedFinds
<1>4. ASSUME NEW s \in Savers, EnqueueParse(s), UNCHANGED fetch,
             parse[<<"save-page", saver[s].item>>].st = "none",
             parse' = [parse EXCEPT ![<<"save-page", saver[s].item>>] =
                        [@ EXCEPT !.st = "waiting", !.item = saver[s].item]]
      PROVE  QueueInv' /\ FetchStep /\ ParseStep
  <2> DEFINE p == <<"save-page", saver[s].item>>
             new == [parse[p] EXCEPT !.st = "waiting", !.item = saver[s].item]
  <2>1. saver[s].item \in Items
    BY <1>4, RowTypes DEF EnqueueParse, IndInv, SaverInv, MaybeItem
  <2>2. p \in PageJobs /\ p \in ParseJobs
    BY <2>1, JobTypes DEF PageJobs
  <2>3. new \in ParseRecord /\ new.st = "waiting" /\ new.tries = parse[p].tries
    BY <2>1, <2>2, JobTypes DEF ParseRecord, MaybeItem
  <2>4. parse' = [parse EXCEPT ![p] = new] /\ parse[p].st = "none"
    BY <1>4
  <2> HIDE DEF new, p
  <2>5. Outcomes(parse[p], new, ParseAttempts(p))
    BY <2>3, <2>4 DEF Outcomes, Phase
  <2> QED
    BY <1>4, <2>2, <2>3, <2>4, <2>5, ParseMoved
<1>5. ASSUME NEW p \in PageJobs, PageJobExpires(p) PROVE QueueInv' /\ FetchStep /\ ParseStep
  <2>1. p \in ParseJobs /\ NoParse \in ParseRecord /\ NoParse.st = "none" /\ NoParse.tries = 0
    BY JobTypes DEF NoParse, ParseRecord, MaybeItem, NoTime
  <2>2. Outcomes(parse[p], NoParse, ParseAttempts(p))
    BY <1>5, <2>1 DEF PageJobExpires, QueueInv, Outcomes
  <2> QED
    BY <1>5, <2>1, <2>2, ParseMoved DEF PageJobExpires
<1>6. CASE UNCHANGED <<fetch, parse>>
  BY <1>6, FetchStill, ParseStill DEF QueueInv
<1> QED
  BY <1>2, <1>3, <1>4, <1>5, <1>6
  DEF FindByURL, Save, UpdateRow, CreateRow, UploadPage, EnqueueFetch, EnqueueParse, Skip,
      SaveFails, queues

LEMMA RestQueues ==
  ASSUME QueueInv,
         \/ \E e \in Editors : GetByID(e) \/ SetState(e) \/ UpdatePage(e)
         \/ CacheExpires \/ FailuresExpire
         \/ UNCHANGED vars
  PROVE  QueueInv' /\ FetchStep /\ ParseStep
<1>1. UNCHANGED <<fetch, parse>>
  BY DEF GetByID, SetState, UpdatePage, SaveBack, CacheExpires, FailuresExpire, vars, queues
<1> QED
  BY <1>1, FetchStill, ParseStill DEF QueueInv

\* Both queues of SaveFlow are those that JobQueue is shown to be (its theorem
\* ImplementsOutcomeCorrect): whoever adds a job, retries, cached results, PDFs,
\* late failures of AddBulk and ids that expire included
\* (ProcessFetchContentJob, handleSavePageImpl, SavePage).
THEOREM ImplementsQueuesCorrect == Spec => ImplementsQueues
<1>1. IndInv /\ QueueInv /\ [Next]_vars => QueueInv' /\ FetchStep /\ ParseStep
  BY FetchQueues, PageQueues, AddsQueues, RestQueues DEF Next
<1> QED
  BY <1>1, QueueInit, Invariant, PTL
  DEF Spec, ImplementsQueues, FetchQueue!Spec, ParseQueue!Spec, FetchStep, ParseStep

=============================================================================
