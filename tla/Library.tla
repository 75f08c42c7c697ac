-------------------------------- MODULE Library --------------------------------
(***************************************************************************)
(* Everything that writes the library items of one user once they are      *)
(* saved: the REST handlers and resolvers that edit an item, bulk-action,  *)
(* trigger-rule and prune-trash jobs, the jobs of module ReadPositions,    *)
(* and the client of module Search that reads the list meanwhile.          *)
(*                                                                         *)
(* A step is one transaction.  An UPDATE with a subselect is one step:     *)
(* what it selects is what it writes.                                      *)
(***************************************************************************)
EXTENDS ReadPositions, Search

CONSTANTS
  Editors,      \* calls that read an item and save it back
  Tops,         \* values of readingProgressPercent that clients send
  Bulks,        \* bulk-action jobs
  Requests,     \* their payloads: [action, in, folder, count]
  BatchSize,
  NumDays,      \* of the prune-trash jobs
  Scenes        \* bound: [library, cast]: the rows and the actors of a behaviour

Action == {"ARCHIVE", "DELETE", "MARK_AS_READ", "MOVE_TO_FOLDER"}

ASSUME LibraryAssumption ==
  /\ Tops \subseteq Nat
  /\ Requests \subseteq [action: Action, in: {"inbox", "archive", "trash", "all"},
                         folder: Folders, count: Nat]
  /\ BatchSize \in Nat \ {0} /\ NumDays \in Nat
  /\ "inbox" \in Folders
  /\ \A scene \in Scenes :
       scene.library \in [Items -> {r \in Row : r.deletedAt <= NumDays + 1} \cup {NoRow}]

VARIABLES
  editor,     \* [pc, item, seen] of each call
  bulk,       \* [pc, request, processed, want, hit] of each job; the last two are history
  disturbed,  \* history: jobs during which others moved an item
  bin,        \* history: who put an item in the trash, and the days since
  cast        \* who takes part

vars == <<row, positionVars, walkVars, editor, bulk, disturbed, bin, cast>>

\* The count of a payload, or its default.
Total(request) == IF request.count > 0 THEN request.count ELSE BatchSize

NotBinned == [by |-> "none", days |-> 0]

TypeOK ==
  /\ row \in [Items -> Row \cup {NoRow}]
  /\ TypeOKPositions
  /\ TypeOKSearch
  /\ \A e \in Editors : /\ editor[e].pc \in {"begin", "read", "ended"}
                        /\ editor[e].seen \in Row \cup {NoRow}
  /\ \A b \in Bulks : /\ bulk[b].pc \in {"begin", "run", "done", "failed"}
                      /\ bulk[b].pc # "begin" =>
                           bulk[b].processed \in 0..Total(bulk[b].request)
                      /\ bulk[b].want \subseteq Items /\ bulk[b].hit \subseteq Items
  /\ disturbed \subseteq Bulks
  /\ bin \in [Items -> [by: {"none", "job", "api"}, days: 0..NumDays + 1]]
  /\ \A i \in Items : row[i].deletedAt \in {Null} \cup 0..NumDays + 1
  /\ \E scene \in Scenes : cast = scene.cast

NoRequest == [action |-> "none", in |-> "all", folder |-> "none", count |-> 0]

NoBulk == [pc |-> "begin", request |-> NoRequest, processed |-> 0, want |-> {}, hit |-> {}]

Init ==
  /\ \E scene \in Scenes : row = scene.library /\ cast = scene.cast
  /\ InitPositions
  /\ InitSearch
  /\ editor = [e \in Editors |-> [pc |-> "begin", item |-> "none", seen |-> NoRow]]
  /\ bulk = [b \in Bulks |-> NoBulk]
  /\ disturbed = {}
  /\ bin = [i \in Items |-> NotBinned]

-----------------------------------------------------------------------------
(* Handlers and resolvers that edit an item.                               *)

GetByID(e, i) ==
  /\ editor[e].pc = "begin" /\ e \in cast /\ Present(i)
  /\ editor' = [editor EXCEPT ![e] = [pc |-> "read", item |-> i, seen |-> row[i]]]
  /\ UNCHANGED <<row, positionVars, walk, bulk>>

\* LibraryItemRepository.Update.
SaveBack(e, state, top) ==
  LET i == editor[e].item
      saved == [editor[e].seen EXCEPT !.state = state, !.progress.top = top]
  IN
  /\ editor[e].pc = "read"
  /\ row' = [row EXCEPT ![i] = Saved(row[i], saved)]
  /\ restarted' = CASE i # Tracked -> restarted
                    [] i = Tracked /\ Present(i) -> restarted \cup {"top"}
                    [] OTHER -> {"top", "bottom"}
  /\ editor' = [editor EXCEPT ![e] = [pc |-> "ended", item |-> i, seen |-> NoRow]]
  /\ UNCHANGED <<key, aged, sync, posted, applied, faults, walk, bulk>>

SetLinkArchived(e) ==
  \E state \in {"ARCHIVED", "SUCCEEDED"} : SaveBack(e, state, editor[e].seen.progress.top)

\* SetBookmarkArticle without bookmark, DeleteArticle.
DeleteItem(e) == SaveBack(e, "DELETED", editor[e].seen.progress.top)

\* UpdatePage, UpdateArticle: the columns that were read unless the input has others.
UpdateItem(e) ==
  \E state \in State, top \in {editor[e].seen.progress.top} \cup Tops : SaveBack(e, state, top)

EditItem(e) ==
  \/ \E i \in Items : GetByID(e, i)
  \/ SetLinkArchived(e) \/ DeleteItem(e) \/ UpdateItem(e)

-----------------------------------------------------------------------------
(* UPDATEs by jobs.                                                        *)

Archived(r) == [r EXCEPT !.state = "ARCHIVED"]

Binned(r) == [r EXCEPT !.state = "DELETED", !.deletedAt = 0]

\* Percentages only, not the anchor.
MarkedAsRead(r) == [r EXCEPT !.progress = [r.progress EXCEPT !.top = 100, !.bottom = 100]]

Updated(r, request) ==
  CASE request.action = "ARCHIVE" -> Archived(r)
    [] request.action = "DELETE" -> Binned(r)
    [] request.action = "MARK_AS_READ" -> MarkedAsRead(r)
    [] request.action = "MOVE_TO_FOLDER" -> [r EXCEPT !.folder = request.folder]

\* parseBulkFilter, filterClause: inbox is a folder, archive and trash are
\* states, and everything but the trash is in the others.
Filter(in) ==
  {i \in Items : Present(i) /\
     CASE in = "archive" -> row[i].state = "ARCHIVED"
       [] in = "trash" -> row[i].state = "DELETED"
       [] in = "inbox" -> row[i].state # "DELETED" /\ row[i].folder = "inbox"
       [] OTHER -> row[i].state # "DELETED"}

\* A bug: what was archived before is selected again.
MatchesAgain(request) == Filter(request.in)

\* The subselect of an action without its LIMIT.
Matching(request) ==
  {i \in Filter(request.in) :
     /\ request.action = "ARCHIVE" => row[i].state \notin {"ARCHIVED", "DELETED"}
     /\ request.action = "DELETE" => row[i].state # "DELETED"}

HandleBulkAction(b, request) ==
  /\ bulk[b].pc = "begin" /\ b \in cast
  /\ bulk' = [bulk EXCEPT ![b] = [pc |-> "run", request |-> request, processed |-> 0,
                                  want |-> Matching(request), hit |-> {}]]
  /\ UNCHANGED <<row, positionVars, walk, editor>>

Least(m, n) == IF m < n THEN m ELSE n

\* A bug: the last batch is not cut.
LimitUncut(job) == BatchSize

Limit(job) == Least(BatchSize, Total(job.request) - job.processed)

\* A bug: an empty batch does not end the job.
EndsWhenCounted(job, n) == job.processed + n >= Total(job.request)

EndsWith(job, n) == n = 0 \/ job.processed + n >= Total(job.request)

\* One batch, of rows that PostgreSQL chooses.
UpdateBatch(b) ==
  LET job == bulk[b]
      matching == Matching(job.request)
  IN
  /\ job.pc = "run"
  /\ \E batch \in SUBSET matching :
       /\ Cardinality(batch) = Least(Limit(job), Cardinality(matching))
       /\ row' = [i \in Items |-> IF i \in batch THEN Updated(row[i], job.request) ELSE row[i]]
       /\ bulk' = [bulk EXCEPT ![b].processed = @ + Cardinality(batch),
                               ![b].hit = @ \cup batch,
                               ![b].pc = IF EndsWith(job, Cardinality(batch)) THEN "done"
                                                                              ELSE "run"]
  /\ UNCHANGED <<positionVars, walk, editor>>

\* A batch fails or the worker is killed: the job is run again from its
\* payload, or has no attempt left.
BulkFails(b) ==
  /\ bulk[b].pc = "run"
  /\ faults < MaxFaults
  /\ faults' = faults + 1
  /\ \E pc \in {"run", "failed"} :
       bulk' = [bulk EXCEPT ![b].pc = pc, ![b].processed = 0]
  /\ UNCHANGED <<row, key, aged, sync, posted, applied, restarted, walk, editor>>

\* trigger-rule: the actions of the rules for an event, in one transaction.
ApplyRules(i) ==
  /\ "rules" \in cast /\ Present(i)
  /\ \E action \in {"ARCHIVE", "DELETE", "MARK_AS_READ"} :
       row' = [row EXCEPT ![i] = Updated(row[i], [action |-> action])]
  /\ UNCHANGED <<positionVars, walk, editor, bulk>>

\* A bug: a day too early.
OverdueEarly(r) == r.state = "DELETED" /\ r.deletedAt >= NumDays

\* The WHERE of batch_delete_trash_items.
Overdue(r) == r.state = "DELETED" /\ r.deletedAt > NumDays

PruneTrash ==
  /\ "time" \in cast
  /\ \E i \in Items : Overdue(row[i])
  /\ row' = [i \in Items |-> IF Overdue(row[i]) THEN NoRow ELSE row[i]]
  /\ UNCHANGED <<positionVars, walk, editor, bulk>>

\* A save inserts a row (module SaveFlow).
SaveItem(i) ==
  /\ "saver" \in cast /\ ~Present(i)
  /\ row' = [row EXCEPT ![i] = [NoRow EXCEPT !.state = "SUCCEEDED", !.folder = "inbox"]]
  /\ restarted' = IF i = Tracked THEN {"top", "bottom"} ELSE restarted
  /\ UNCHANGED <<key, aged, sync, posted, applied, faults, walk, editor, bulk>>

-----------------------------------------------------------------------------
(* Histories, the days, and the next-state relation.                       *)

\* Who puts an item in the trash is a call of the API, or a job.
BinChanges ==
  LET who == IF editor' # editor THEN "api" ELSE "job" IN
  bin' = [i \in Items |-> CASE row'[i].state # "DELETED" -> NotBinned
                            [] row'[i].state = "DELETED" /\ row[i].state = "DELETED" -> bin[i]
                            [] OTHER -> [by |-> who, days |-> 0]]

Unmoved == \A i \in Items : /\ row'[i].state = row[i].state
                            /\ row'[i].folder = row[i].folder

Disturbs(b) == bulk[b].pc = "run" /\ bulk'[b] = bulk[b] /\ ~Unmoved

Older(days) == IF days \in 0..NumDays THEN days + 1 ELSE days

\* Days are counted up to the first on which an item is overdue.
DayPasses ==
  /\ "time" \in cast
  /\ row' = [i \in Items |-> [row[i] EXCEPT !.deletedAt = Older(@)]]
  /\ bin' = [i \in Items |-> IF bin[i].by = "none" THEN bin[i]
                                                   ELSE [bin[i] EXCEPT !.days = Older(@)]]
  /\ UNCHANGED <<positionVars, walk, editor, bulk>>

Step ==
  \/ "reader" \in cast /\ ReadingStep /\ UNCHANGED <<walk, editor, bulk>>
  \/ "walk" \in cast /\ NextPage /\ UNCHANGED <<positionVars, editor, bulk>>
  \/ \E e \in Editors : EditItem(e)
  \/ \E b \in Bulks, request \in Requests : HandleBulkAction(b, request)
  \/ \E b \in Bulks : UpdateBatch(b) \/ BulkFails(b)
  \/ \E i \in Items : ApplyRules(i) \/ SaveItem(i)
  \/ PruneTrash

Histories ==
  /\ ListingChanges
  /\ disturbed' = disturbed \cup {b \in Bulks : Disturbs(b)}
  /\ UNCHANGED cast

Next == ((Step /\ BinChanges) \/ DayPasses) /\ Histories

Spec == Init /\ [][Next]_vars

\* A worker that has a bulk-action job goes on with it.
FairSpec ==
  Spec /\ \A b \in Bulks : WF_vars(UpdateBatch(b) /\ BinChanges /\ Histories)

-----------------------------------------------------------------------------
\* Actions whose update makes their own filter false.
SelfExcluding(request) ==
  \/ request.action \in {"ARCHIVE", "DELETE"}
  \/ request.action = "MOVE_TO_FOLDER" /\ request.in = "inbox" /\ request.folder # "inbox"

\* A bulk action that ends has reached every item that its query matched when
\* it began, however it was cut into batches and repeated after failures, if
\* its count covers them and nobody else moves items meanwhile.  MARK_AS_READ
\* and the like give no such promise: a batch may take rows of the one before
\* (bulkArchive, bulkDelete, bulkMoveToFolder).
BulkReaches ==
  \A b \in Bulks :
    /\ bulk[b].pc = "done" /\ b \notin disturbed
    /\ SelfExcluding(bulk[b].request)
    /\ Total(bulk[b].request) >= Cardinality(bulk[b].want)
    => bulk[b].want \subseteq bulk[b].hit

\* A bulk action ends, whatever its query and count and whatever others do to
\* the items meanwhile (HandleBulkAction).
BulkEnds == \A b \in Bulks : bulk[b].pc = "run" ~> bulk[b].pc # "run"

Pruned(i) == Present(i) /\ row'[i] = NoRow

\* What a job or a rule put in the trash is pruned only from the trash and only
\* when it has been there for more than numDays, although restoring an item
\* leaves its deleted_at (HandlePruneTrash, bulkDelete).
TrashWaits ==
  [][\A i \in Items :
       Pruned(i) => row[i].state = "DELETED" /\ (bin[i].by = "job" => bin[i].days > NumDays)]_vars

\* "HandlePruneTrash calls the stored procedure to batch-delete trash items
\* older than numDays": no item is pruned sooner than that after it was put in
\* the trash.
OldTrashOnly == [][\A i \in Items : Pruned(i) => bin[i].days > NumDays]_vars

=============================================================================
