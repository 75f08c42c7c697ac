----------------------------- MODULE LibraryProofs -----------------------------
(***************************************************************************)
(* What holds of module Library for any items, calls, jobs, members and    *)
(* scenes: read positions, bulk actions and the trash.                     *)
(***************************************************************************)
EXTENDS Library, SearchProofs

AnyRow == Row \cup {NoRow}

RowInv ==
  /\ row \in [Items -> AnyRow]
  /\ \A i \in Items : row[i].deletedAt \in {Null} \cup 0..NumDays + 1

\* Who has read an item has a row to save back.
EditorRecord == [pc: {"begin", "read", "ended"}, item: Items \cup {"none"}, seen: AnyRow]

EditorInv ==
  /\ editor \in [Editors -> EditorRecord]
  /\ \A e \in Editors : editor[e].pc = "read" => editor[e].item \in Items /\ editor[e].seen \in Row

\* What a call read was posted, and was applied before it is removed.
SyncRecord == [pc: {"scan", "update", "remove"}, read: SUBSET Entries]

SyncInv ==
  /\ TypeOKPositions
  /\ key \subseteq posted
  /\ \A s \in Syncs : /\ sync[s].read \subseteq posted
                      /\ sync[s].pc = "remove" => sync[s].read \subseteq applied

BulkRecord == [pc: {"begin", "run", "done", "failed"}, request: Requests \cup {NoRequest},
               processed: Nat, want: SUBSET Items, hit: SUBSET Items]

BulkTypes ==
  /\ bulk \in [Bulks -> BulkRecord]
  /\ disturbed \subseteq Bulks
  /\ \A b \in Bulks : bulk[b].pc # "begin" => /\ bulk[b].request \in Requests
                                              /\ bulk[b].processed <= Total(bulk[b].request)

\* Until others move items, a bulk action whose update makes its filter false
\* has hit only what it wanted, the rest still matches, nothing is hit twice
\* in an attempt, and there is something left to count.
BulkInv ==
  \A b \in Bulks \ disturbed :
    SelfExcluding(bulk[b].request) /\ bulk[b].pc = "run" =>
      /\ bulk[b].hit \subseteq bulk[b].want
      /\ Matching(bulk[b].request) = bulk[b].want \ bulk[b].hit
      /\ bulk[b].processed <= Cardinality(bulk[b].hit)
      /\ bulk[b].processed < Total(bulk[b].request)

\* What a job put in the trash has been there for as long as deleted_at says.
BinInv ==
  /\ bin \in [Items -> [by: {"none", "job", "api"}, days: 0..NumDays + 1]]
  /\ \A i \in Items : row[i].state = "DELETED" /\ bin[i].by = "job" =>
                        row[i].deletedAt <= bin[i].days

CastInv == \E scene \in Scenes : cast = scene.cast

-----------------------------------------------------------------------------
(* Rows.                                                                   *)

\* The columns of rows, and of what stands for no row.
LEMMA RowTypes ==
  /\ \A r \in Row : /\ r.state \in State /\ r.deletedAt \in Nat \cup {Null} /\ r.folder \in Folders
                    /\ r.progress \in Position
  /\ \A r \in AnyRow : r.progress \in Position /\ r.deletedAt \in Nat \cup {Null}
  /\ \A p \in Position : p.top \in Nat /\ p.bottom \in Nat /\ p.anchor \in Nat
  /\ NoRow \notin Row /\ NoRow.state \notin State /\ NoRow.deletedAt = Null /\ Null \notin Nat
  /\ NoRow.folder = "none" /\ NoRow.progress.top = 0 /\ NoRow.progress.bottom = 0
<1>1. \A r \in Row : /\ r.state \in State /\ r.deletedAt \in Nat \cup {Null} /\ r.folder \in Folders
                     /\ r.progress \in Position
  BY DEF Row
<1>2. \A p \in Position : p.top \in Nat /\ p.bottom \in Nat /\ p.anchor \in Nat
  BY DEF Position
<1>3. /\ NoRow.state \notin State /\ NoRow.deletedAt = Null /\ Null \notin Nat
      /\ NoRow.folder = "none" /\ NoRow.progress.top = 0 /\ NoRow.progress.bottom = 0
      /\ NoRow.progress \in Position
  BY DEF NoRow, NoPosition, State, Null, Position
<1> QED
  BY <1>1, <1>2, <1>3 DEF AnyRow

\* What is known of one row.
LEMMA Rows ==
  ASSUME RowInv, NEW i \in Items
  PROVE  /\ row[i] \in AnyRow /\ (Present(i) <=> row[i] \in Row)
         /\ Present(i) <=> row[i].state \in State
         /\ row[i].progress \in Position /\ row[i].progress.top \in Nat
         /\ row[i].progress.bottom \in Nat
         /\ row[i].deletedAt \in {Null} \cup 0..NumDays + 1
  BY RowTypes DEF RowInv, Present, AnyRow

\* What SaveBack writes.
LEMMA SavedRow ==
  ASSUME NEW old \in AnyRow, NEW seen \in Row, NEW state \in State, NEW top \in Nat
  PROVE  LET new == Saved(old, [seen EXCEPT !.state = state, !.progress.top = top]) IN
         /\ new \in Row /\ new.state = state /\ new.deletedAt = old.deletedAt
         /\ new.progress.bottom = old.progress.bottom
<1> DEFINE progress == [seen.progress EXCEPT !.top = top]
           saved == [seen EXCEPT !.state = state, !.progress = progress]
           last == [progress EXCEPT !.bottom = old.progress.bottom]
           new == [saved EXCEPT !.deletedAt = old.deletedAt, !.progress = last]
<1>1. progress \in Position /\ old.progress.bottom \in Nat /\ old.deletedAt \in Nat \cup {Null}
  BY RowTypes DEF Position
<1>2. last \in Position /\ last.bottom = old.progress.bottom
  BY <1>1 DEF Position
<1>3. [seen EXCEPT !.state = state, !.progress.top = top] = saved
  BY DEF Row
<1> HIDE DEF progress
<1>4. saved \in Row /\ saved.state = state /\ saved.progress = progress
  BY <1>1 DEF Row
<1> HIDE DEF saved, last
<1>5. /\ new \in Row /\ new.state = state /\ new.deletedAt = old.deletedAt /\ new.progress = last
  BY <1>1, <1>2, <1>4 DEF Row
<1>6. new = Saved(old, saved)
  BY <1>4 DEF Saved, last
<1> HIDE DEF new
<1> QED
  BY <1>2, <1>3, <1>5, <1>6

\* What the actions of bulk-action and trigger-rule make of a row.
LEMMA UpdatedRow ==
  ASSUME NEW r \in Row, NEW request, request.action \in Action,
         request.action = "MOVE_TO_FOLDER" => request.folder \in Folders
  PROVE  LET new == Updated(r, request) IN
         /\ new \in Row
         /\ new.deletedAt = 0 \/ (new.deletedAt = r.deletedAt /\ request.action # "DELETE")
         /\ new.state = "DELETED" => r.state = "DELETED" \/ new.deletedAt = 0
         /\ request.action = "ARCHIVE" => new.state = "ARCHIVED"
         /\ request.action = "DELETE" => new.state = "DELETED"
         /\ request.action = "MOVE_TO_FOLDER" => new.folder = request.folder
         /\ \/ new.progress = r.progress
            \/ new.progress.top = 100 /\ new.progress.bottom = 100
<1> DEFINE new == Updated(r, request)
<1>1. CASE request.action = "ARCHIVE"
  <2>1. new = [r EXCEPT !.state = "ARCHIVED"]
    BY <1>1 DEF Updated, Archived
  <2> HIDE DEF new
  <2>2. /\ new \in Row /\ new.state = "ARCHIVED" /\ new.deletedAt = r.deletedAt
        /\ new.progress = r.progress
    BY <2>1 DEF Row, State
  <2> QED
    BY <1>1, <2>2 DEF new
<1>2. CASE request.action = "DELETE"
  <2>1. new = [r EXCEPT !.state = "DELETED", !.deletedAt = 0]
    BY <1>2 DEF Updated, Binned
  <2> HIDE DEF new
  <2>2. /\ new \in Row /\ new.state = "DELETED" /\ new.deletedAt = 0
        /\ new.progress = r.progress
    BY <2>1 DEF Row, State
  <2> QED
    BY <1>2, <2>2 DEF new
<1>3. CASE request.action = "MARK_AS_READ"
  <2> DEFINE progress == [r.progress EXCEPT !.top = 100, !.bottom = 100]
  <2>1. progress \in Position /\ progress.top = 100 /\ progress.bottom = 100
    BY RowTypes DEF Position
  <2>2. new = [r EXCEPT !.progress = progress]
    BY <1>3 DEF Updated, MarkedAsRead
  <2> HIDE DEF new, progress
  <2>3. /\ new \in Row /\ new.state = r.state /\ new.deletedAt = r.deletedAt
        /\ new.progress = progress
    BY <2>1, <2>2 DEF Row
  <2> QED
    BY <1>3, <2>1, <2>3 DEF new
<1>4. CASE request.action = "MOVE_TO_FOLDER"
  <2>1. new = [r EXCEPT !.folder = request.folder]
    BY <1>4 DEF Updated
  <2> HIDE DEF new
  <2>2. /\ new \in Row /\ new.state = r.state /\ new.deletedAt = r.deletedAt
        /\ new.progress = r.progress /\ new.folder = request.folder
    BY <1>4, <2>1 DEF Row
  <2> QED
    BY <1>4, <2>2 DEF new
<1> QED
  BY <1>1, <1>2, <1>3, <1>4 DEF Action

-----------------------------------------------------------------------------
(* Read positions.                                                         *)

\* A column of the update of sync-read-positions goes forward or is 0.
LEMMA ForwardFacts ==
  ASSUME NEW measure \in Nat, NEW old \in Nat, NEW new \in Nat
  PROVE  /\ Forward(measure, old, new) \in Nat
         /\ Forward(old, old, new) >= new
         /\ new # 0 => Forward(old, old, new) >= old
<1>1. CASE measure < new
  BY <1>1 DEF Forward
<1>2. CASE measure >= new /\ new = 0
  BY <1>2 DEF Forward
<1>3. CASE measure >= new /\ new # 0
  BY <1>3 DEF Forward
<1>4. CASE old < new
  BY <1>1, <1>2, <1>3, <1>4 DEF Forward
<1>5. CASE old >= new /\ new = 0
  BY <1>1, <1>2, <1>3, <1>5 DEF Forward
<1>6. CASE old >= new /\ new # 0
  BY <1>1, <1>2, <1>3, <1>6 DEF Forward
<1> QED
  BY <1>1, <1>2, <1>3, <1>4, <1>5, <1>6

\* So do the columns of a row.
LEMMA MergedFacts ==
  ASSUME NEW old \in Position, NEW new \in Position
  PROVE  /\ Merged(old, new) \in Position
         /\ Merged(old, new).top >= new.top /\ Merged(old, new).bottom >= new.bottom
         /\ new.top # 0 => Merged(old, new).top >= old.top
         /\ new.bottom # 0 => Merged(old, new).bottom >= old.bottom
<1>1. /\ old.top \in Nat /\ old.bottom \in Nat /\ old.anchor \in Nat
      /\ new.top \in Nat /\ new.bottom \in Nat /\ new.anchor \in Nat
  BY RowTypes
<1>2. /\ Forward(old.top, old.top, new.top) \in Nat
      /\ Forward(old.bottom, old.bottom, new.bottom) \in Nat
      /\ Forward(old.top, old.anchor, new.anchor) \in Nat
      /\ Forward(old.top, old.top, new.top) >= new.top
      /\ Forward(old.bottom, old.bottom, new.bottom) >= new.bottom
      /\ new.top # 0 => Forward(old.top, old.top, new.top) >= old.top
      /\ new.bottom # 0 => Forward(old.bottom, old.bottom, new.bottom) >= old.bottom
  BY <1>1, ForwardFacts
<1> QED
  BY <1>2 DEF Merged, Position

\* The furthest position is as far as every valid member that was read.
LEMMA FurthestFacts ==
  ASSUME NEW read \in SUBSET Entries, NEW new \in Furthest(read)
  PROVE  /\ new \in Position
         /\ \A e \in Valid(read) : At[e].top <= new.top /\ At[e].bottom <= new.bottom
<1>1. \A e \in Valid(read) : At[e] \in Position
  BY ReadPositionsAssumption DEF Valid
<1>2. \A e \in Valid(read) : At[e].top \in Nat /\ At[e].bottom \in Nat /\ At[e].anchor \in Nat
  BY <1>1, RowTypes
<1> DEFINE tops == {At[e].top : e \in Valid(read)}
           bottoms == {At[e].bottom : e \in Valid(read)}
           anchors == {At[e].anchor : e \in Valid(read)}
<1>3. /\ new \in [top: tops \cup {0}, bottom: bottoms \cup {0}, anchor: anchors \cup {0}]
      /\ IsFurthest(new.top, tops) /\ IsFurthest(new.bottom, bottoms)
  BY DEF Furthest
<1>4. new.top \in Nat /\ new.bottom \in Nat /\ new.anchor \in Nat
  <2>1. /\ new.top = 0 \/ \E e \in Valid(read) : new.top = At[e].top
        /\ new.bottom = 0 \/ \E e \in Valid(read) : new.bottom = At[e].bottom
        /\ new.anchor = 0 \/ \E e \in Valid(read) : new.anchor = At[e].anchor
    BY <1>3
  <2> QED
    BY <1>2, <2>1
<1>5. new \in Position
  <2>1. new = [top |-> new.top, bottom |-> new.bottom, anchor |-> new.anchor]
    BY <1>3
  <2> QED
    BY <1>4, <2>1 DEF Position
<1>6. \A e \in Valid(read) : At[e].top <= new.top /\ At[e].bottom <= new.bottom
  BY <1>3 DEF IsFurthest
<1> QED
  BY <1>5, <1>6

\* A step of a client or a sync-read-positions job.
LEMMA ReadingNext ==
  ASSUME SyncInv, NoneDropped, ReadingStep
  PROVE  SyncInv' /\ NoneDropped'
<1> USE DEF TypeOKPositions
<1>1. ASSUME NEW e \in Entries, Post(e) PROVE SyncInv' /\ NoneDropped'
  BY <1>1 DEF Post, SyncInv, SyncRecord, NoneDropped
<1>2. CASE MinutePasses
  BY <1>2 DEF MinutePasses, SyncInv, NoneDropped
<1>3. ASSUME NEW s \in Syncs, ReadMembers(s) PROVE SyncInv' /\ NoneDropped'
  <2> DEFINE new == [pc |-> "update", read |-> key]
  <2>1. new \in SyncRecord /\ new.pc = "update" /\ new.read = key
    BY DEF SyncInv, SyncRecord
  <2>2. sync' = [sync EXCEPT ![s] = new]
    BY <1>3 DEF ReadMembers
  <2> HIDE DEF new
  <2> QED
    BY <1>3, <2>1, <2>2 DEF ReadMembers, SyncInv, SyncRecord, NoneDropped
<1>4. ASSUME NEW s \in Syncs, UpdateProgress(s) PROVE SyncInv' /\ NoneDropped'
  <2> DEFINE new == [sync[s] EXCEPT !.pc = "remove"]
  <2>1. sync[s] \in SyncRecord
    BY DEF SyncInv, SyncRecord
  <2>2. new \in SyncRecord /\ new.read = sync[s].read
    BY <2>1 DEF SyncRecord
  <2>3. sync' = [sync EXCEPT ![s] = new] /\ applied' = applied \cup sync[s].read
    BY <1>4 DEF UpdateProgress
  <2>4. UNCHANGED <<key, aged, posted, faults>> /\ restarted' \subseteq {"top", "bottom"}
    BY <1>4 DEF UpdateProgress, SyncInv
  <2> HIDE DEF new
  <2>5. sync' \in [Syncs -> SyncRecord] /\ \A t \in Syncs : sync'[t].read = sync[t].read
    BY <2>2, <2>3 DEF SyncInv, SyncRecord
  <2>6. \A t \in Syncs : sync'[t].pc = "remove" => sync'[t].read \subseteq applied'
    BY <2>2, <2>3 DEF SyncInv
  <2> QED
    BY <2>3, <2>4, <2>5, <2>6 DEF SyncInv, SyncRecord, NoneDropped
<1>5. NoSync \in SyncRecord /\ NoSync.pc = "scan" /\ NoSync.read = {}
  BY DEF NoSync, SyncRecord
<1>6. ASSUME NEW s \in Syncs, RemoveMembers(s) PROVE SyncInv' /\ NoneDropped'
  <2>1. sync[s].read \subseteq applied
    BY <1>6 DEF RemoveMembers, SyncInv
  <2> QED
    BY <1>5, <1>6, <2>1 DEF RemoveMembers, SyncInv, SyncRecord, NoneDropped
<1>7. ASSUME NEW s \in Syncs, SyncFails(s) PROVE SyncInv' /\ NoneDropped'
  <2>1. faults' \in 0..MaxFaults
    BY <1>7, ReadPositionsAssumption DEF SyncFails, SyncInv
  <2> QED
    BY <1>5, <1>7, <2>1 DEF SyncFails, SyncInv, SyncRecord, NoneDropped
<1> QED
  BY <1>1, <1>2, <1>3, <1>4, <1>6, <1>7 DEF ReadingStep, SyncReadKey

\* The row of the tracked item in such a step.
LEMMA ReadingRow ==
  ASSUME RowInv, SyncInv, ReadingStep
  PROVE  \/ row' = row /\ restarted' = restarted /\ applied' = applied
         \/ \E s \in Syncs : UpdateProgress(s)
  BY DEF ReadingStep, SyncReadKey, Post, MinutePasses, ReadMembers, RemoveMembers, SyncFails

\* What UpdateProgress makes of the row, its columns and the histories.
LEMMA ProgressRow ==
  ASSUME RowInv, SyncInv, NEW s \in Syncs, UpdateProgress(s)
  PROVE  \E new \in Furthest(sync[s].read), old \in Position :
           /\ old = row[Tracked].progress
           /\ restarted \subseteq restarted'
           /\ new.top = 0 => "top" \in restarted'
           /\ new.bottom = 0 => "bottom" \in restarted'
           /\ \/ row' = row /\ (Present(Tracked) => new.top <= old.top /\ new.bottom <= old.bottom)
              \/ /\ Present(Tracked)
                 /\ row' = [row EXCEPT ![Tracked].progress = Merged(old, new)]
<1> DEFINE old == row[Tracked].progress
<1>1. PICK new \in Furthest(sync[s].read) :
        /\ row' = IF Present(Tracked) /\ Matches(row[Tracked].progress, new)
                    THEN [row EXCEPT ![Tracked].progress = Merged(@, new)]
                    ELSE row
        /\ restarted' = restarted \cup (IF new.top = 0 THEN {"top"} ELSE {})
                                  \cup (IF new.bottom = 0 THEN {"bottom"} ELSE {})
  BY DEF UpdateProgress
<1>2. old \in Position /\ old.top \in Nat /\ old.bottom \in Nat
  BY Rows, RowTypes, ReadPositionsAssumption
<1>3. sync[s].read \in SUBSET Entries
  BY DEF SyncInv, TypeOKPositions
<1>4. new \in Position /\ new.top \in Nat /\ new.bottom \in Nat
  BY <1>3, FurthestFacts, RowTypes
<1>5. CASE Present(Tracked) /\ Matches(old, new)
  BY <1>1, <1>2, <1>5
<1>6. CASE Present(Tracked) /\ ~Matches(old, new)
  BY <1>1, <1>2, <1>4, <1>6 DEF Matches
<1>7. CASE ~Present(Tracked)
  BY <1>1, <1>2, <1>7
<1> QED
  BY <1>5, <1>6, <1>7

-----------------------------------------------------------------------------
(* What a step makes of each row.                                          *)

ByReading(i) ==
  /\ row'[i] \in Row /\ row'[i].state = row[i].state /\ row'[i].folder = row[i].folder
  /\ row'[i].deletedAt = row[i].deletedAt
  /\ editor' = editor

ByEdit(i) == /\ row'[i] \in Row /\ editor' # editor
             /\ row'[i].deletedAt = row[i].deletedAt

ByJob(i) == /\ Present(i) /\ row'[i] \in Row /\ editor' = editor
            /\ row'[i].deletedAt \in {row[i].deletedAt, 0}
            /\ row'[i].state = "DELETED" => row[i].state = "DELETED" \/ row'[i].deletedAt = 0

ByPruning(i) == row'[i] = NoRow /\ Overdue(row[i]) /\ editor' = editor

BySave(i) == /\ ~Present(i) /\ row'[i] \in Row /\ editor' = editor
             /\ row'[i].state = "SUCCEEDED" /\ row'[i].deletedAt = Null

RowMoves ==
  /\ DOMAIN row' = Items
  /\ \A i \in Items :
       \/ row'[i] = row[i]
       \/ ByReading(i) \/ ByEdit(i) \/ ByJob(i) \/ ByPruning(i) \/ BySave(i)
  /\ row' = [i \in Items |-> row'[i]]

\* Reading moves the rows as RowMoves says.
LEMMA ReadingMoves ==
  ASSUME RowInv, SyncInv, ReadingStep, editor' = editor
  PROVE  RowMoves
<1>1. CASE row' = row
  BY <1>1 DEF RowInv, RowMoves
<1>2. ASSUME NEW s \in Syncs, UpdateProgress(s) PROVE RowMoves
  <2>1. sync[s].read \in SUBSET Entries /\ Tracked \in Items
    BY ReadPositionsAssumption DEF SyncInv, TypeOKPositions
  <2>2. PICK new \in Furthest(sync[s].read), old \in Position :
          \/ row' = row
          \/ /\ Present(Tracked)
             /\ row' = [row EXCEPT ![Tracked].progress = Merged(old, new)]
    BY <1>2, ProgressRow
  <2>3. Merged(old, new) \in Position
    BY <2>1, FurthestFacts, MergedFacts
  <2>4. CASE Present(Tracked) /\ row' = [row EXCEPT ![Tracked].progress = Merged(old, new)]
    <3> DEFINE r == [row[Tracked] EXCEPT !.progress = Merged(old, new)]
    <3>1. row[Tracked] \in Row
      BY <2>1, <2>4, Rows
    <3>2. /\ r \in Row /\ r.state = row[Tracked].state /\ r.folder = row[Tracked].folder
          /\ r.deletedAt = row[Tracked].deletedAt
      BY <2>3, <3>1 DEF Row
    <3>3. row' = [row EXCEPT ![Tracked] = r]
      BY <2>4
    <3> HIDE DEF r
    <3> QED
      BY <2>1, <3>2, <3>3 DEF RowInv, RowMoves, ByReading
  <2> QED
    BY <1>1, <2>2, <2>4
<1> QED
  BY <1>1, <1>2, ReadingRow

\* So does editing, and what a call has read has a row.
LEMMA EditMoves ==
  ASSUME RowInv, EditorInv, NEW e \in Editors, EditItem(e)
  PROVE  RowMoves /\ EditorInv'
<1>1. ASSUME NEW i \in Items, GetByID(e, i) PROVE RowMoves /\ EditorInv'
  <2> DEFINE new == [pc |-> "read", item |-> i, seen |-> row[i]]
  <2>1. row[i] \in Row
    BY <1>1, Rows DEF GetByID
  <2>2. new \in EditorRecord /\ new.item \in Items /\ new.seen \in Row
    BY <2>1 DEF EditorRecord, AnyRow
  <2>3. editor' = [editor EXCEPT ![e] = new] /\ row' = row
    BY <1>1 DEF GetByID
  <2> HIDE DEF new
  <2> QED
    BY <2>2, <2>3 DEF RowMoves, EditorInv, RowInv
<1>2. ASSUME NEW state \in State, NEW top \in Nat, SaveBack(e, state, top)
      PROVE  RowMoves /\ EditorInv'
  <2> DEFINE i == editor[e].item
             saved == [editor[e].seen EXCEPT !.state = state, !.progress.top = top]
             new == Saved(row[i], saved)
             ended == [pc |-> "ended", item |-> i, seen |-> NoRow]
  <2>1. i \in Items /\ editor[e].seen \in Row /\ editor[e].pc = "read"
    BY <1>2 DEF SaveBack, EditorInv
  <2>2. new \in Row /\ new.deletedAt = row[i].deletedAt
    <3> DEFINE old == row[i]
               seen == editor[e].seen
    <3>1. old \in AnyRow /\ seen \in Row
      BY <2>1, Rows
    <3> HIDE DEF old, seen
    <3>2. LET r == Saved(old, [seen EXCEPT !.state = state, !.progress.top = top])
          IN  r \in Row /\ r.deletedAt = old.deletedAt
      BY <3>1, SavedRow
    <3> QED
      BY <3>2 DEF old, seen
  <2>3. ended \in EditorRecord /\ ended.pc = "ended"
    BY <2>1 DEF EditorRecord, AnyRow
  <2>4. row' = [row EXCEPT ![i] = new] /\ editor' = [editor EXCEPT ![e] = ended]
    BY <1>2 DEF SaveBack
  <2> HIDE DEF new, ended, i
  <2>5. editor' # editor /\ EditorInv'
    BY <2>1, <2>3, <2>4 DEF EditorInv
  <2>6. RowMoves
    BY <2>1, <2>2, <2>4, <2>5 DEF RowMoves, ByEdit, RowInv
  <2> QED
    BY <2>5, <2>6
<1>3. ASSUME editor[e].pc = "read" PROVE editor[e].seen.progress.top \in Nat
  BY <1>3, RowTypes DEF EditorInv
<1>4. {"ARCHIVED", "SUCCEEDED", "DELETED"} \subseteq State /\ Tops \subseteq Nat
  BY LibraryAssumption DEF State
<1>5. CASE SetLinkArchived(e)
  <2>1. editor[e].pc = "read"
    BY <1>5 DEF SetLinkArchived, SaveBack
  <2> QED
    BY <1>2, <1>3, <1>4, <1>5, <2>1 DEF SetLinkArchived
<1>6. CASE DeleteItem(e)
  <2>1. editor[e].pc = "read"
    BY <1>6 DEF DeleteItem, SaveBack
  <2> QED
    BY <1>2, <1>3, <1>4, <1>6, <2>1 DEF DeleteItem
<1>7. CASE UpdateItem(e)
  <2>1. editor[e].pc = "read"
    BY <1>7 DEF UpdateItem, SaveBack
  <2> QED
    BY <1>2, <1>3, <1>4, <1>7, <2>1 DEF UpdateItem
<1> QED
  BY <1>1, <1>5, <1>6, <1>7 DEF EditItem

-----------------------------------------------------------------------------
(* Jobs.                                                                   *)

\* The count of a payload.
LEMMA Totals ==
  ASSUME NEW request \in Requests
  PROVE  /\ Total(request) \in Nat /\ Total(request) > 0
         /\ request.action \in Action /\ request.folder \in Folders
  BY LibraryAssumption DEF Total

\* What is known of one job.
LEMMA Bulk ==
  ASSUME BulkTypes, NEW b \in Bulks
  PROVE  /\ bulk[b] \in BulkRecord /\ bulk[b].processed \in Nat
         /\ bulk[b].want \subseteq Items /\ bulk[b].hit \subseteq Items
         /\ bulk[b].pc # "begin" => /\ bulk[b].request \in Requests
                                    /\ bulk[b].processed <= Total(bulk[b].request)
  BY DEF BulkTypes, BulkRecord

\* What one batch is.
Batch(b, batch) ==
  /\ batch \subseteq Matching(bulk[b].request)
  /\ Cardinality(batch) \in Nat
  /\ Cardinality(batch) <= Total(bulk[b].request) - bulk[b].processed
  /\ Cardinality(batch) = 0 =>
       Matching(bulk[b].request) = {} \/ bulk[b].processed = Total(bulk[b].request)
  /\ row' = [i \in Items |-> IF i \in batch THEN Updated(row[i], bulk[b].request) ELSE row[i]]
  /\ LET new == bulk'[b] IN
       /\ bulk' = [bulk EXCEPT ![b] = new] /\ new \in BulkRecord
       /\ new.request = bulk[b].request /\ new.want = bulk[b].want
       /\ new.processed = bulk[b].processed + Cardinality(batch)
       /\ new.hit = bulk[b].hit \cup batch
       /\ new.pc = IF EndsWith(bulk[b], Cardinality(batch)) THEN "done" ELSE "run"
       /\ new # bulk[b]

\* UpdateBatch takes such a batch.
LEMMA BatchFacts ==
  ASSUME BulkTypes, NEW b \in Bulks, UpdateBatch(b)
  PROVE  \E batch \in SUBSET Items : Batch(b, batch)
<1> DEFINE job == bulk[b]
           matching == Matching(job.request)
<1>1. /\ job \in BulkRecord /\ job.pc = "run" /\ job.processed \in Nat
      /\ job.request \in Requests /\ job.processed <= Total(job.request)
      /\ Total(job.request) \in Nat
  BY Bulk, Totals DEF UpdateBatch
<1>2. matching \in SUBSET Items
  BY DEF Matching, Filter
<1>3. PICK batch \in SUBSET matching :
        /\ Cardinality(batch) = Least(Limit(job), Cardinality(matching))
        /\ row' = [i \in Items |-> IF i \in batch THEN Updated(row[i], job.request) ELSE row[i]]
        /\ bulk' = [bulk EXCEPT ![b].processed = @ + Cardinality(batch),
                                ![b].hit = @ \cup batch,
                                ![b].pc = IF EndsWith(job, Cardinality(batch)) THEN "done"
                                                                               ELSE "run"]
  BY DEF UpdateBatch
<1> DEFINE n == Cardinality(batch)
           pc == IF EndsWith(job, n) THEN "done" ELSE "run"
           first == [job EXCEPT !.processed = job.processed + n]
           second == [first EXCEPT !.hit = job.hit \cup batch]
           new == [second EXCEPT !.pc = pc]
<1>4. /\ Limit(job) \in Nat /\ Limit(job) <= Total(job.request) - job.processed
      /\ Limit(job) = 0 => job.processed = Total(job.request)
  BY <1>1, LibraryAssumption DEF Limit, Least
<1>5. /\ n \in Nat /\ n <= Total(job.request) - job.processed
      /\ n = 0 => matching = {} \/ job.processed = Total(job.request)
  <2>1. Cardinality(matching) \in Nat /\ (Cardinality(matching) = 0 => matching = {})
    BY <1>2, Counts
  <2> HIDE DEF matching
  <2> QED
    BY <1>1, <1>3, <1>4, <2>1 DEF Least
<1>6. batch \in SUBSET Items /\ job.hit \cup batch \in SUBSET Items
  BY <1>1, <1>2 DEF BulkRecord
<1>7. bulk' = [bulk EXCEPT ![b] = new]
  <2>1. new = [job EXCEPT !.processed = @ + n, !.hit = @ \cup batch, !.pc = pc]
    BY <1>1 DEF BulkRecord
  <2> QED
    BY <1>3, <2>1 DEF BulkTypes
<1>8. pc \in {"done", "run"} /\ job.processed + n \in Nat
  BY <1>1, <1>5
<1> HIDE DEF new, second, first, pc, n
<1>9. /\ first \in BulkRecord /\ first.processed = job.processed + n /\ first.request = job.request
      /\ first.want = job.want /\ first.hit = job.hit
  BY <1>1, <1>8 DEF BulkRecord, first
<1>10. /\ second \in BulkRecord /\ second.processed = job.processed + n
       /\ second.request = job.request /\ second.want = job.want /\ second.hit = job.hit \cup batch
  BY <1>6, <1>9 DEF BulkRecord, second
<1>11. /\ new \in BulkRecord /\ new.processed = job.processed + n
       /\ new.request = job.request /\ new.want = job.want /\ new.hit = job.hit \cup batch
       /\ new.pc = pc
  BY <1>8, <1>10 DEF BulkRecord, new
<1>12. new # job
  <2>1. CASE n = 0
    BY <1>1, <1>11, <2>1 DEF pc, EndsWith
  <2>2. CASE n # 0
    BY <1>1, <1>5, <1>11, <2>2 DEF n
  <2> QED
    BY <2>1, <2>2
<1>13. bulk'[b] = new
  BY <1>7 DEF BulkTypes
<1> QED
  BY <1>3, <1>5, <1>6, <1>7, <1>11, <1>12, <1>13 DEF Batch, pc, n

\* So does a batch.
LEMMA BatchMoves ==
  ASSUME RowInv, BulkTypes, NEW b \in Bulks, UpdateBatch(b)
  PROVE  RowMoves
<1>1. PICK batch \in SUBSET Items : Batch(b, batch)
  BY BatchFacts
<1>2. bulk[b].pc = "run" /\ editor' = editor /\ bulk[b].request \in Requests
  BY Bulk DEF UpdateBatch
<1>3. ASSUME NEW i \in batch PROVE ByJob(i)
  <2> DEFINE request == bulk[b].request
  <2>1. row[i] \in Row /\ Present(i)
    BY <1>1, Rows DEF Batch, Matching, Filter
  <2>2. request.action \in Action /\ request.folder \in Folders
    BY <1>2, Totals
  <2> HIDE DEF request
  <2>3. LET new == Updated(row[i], request) IN
          /\ new \in Row
          /\ new.deletedAt = 0 \/ (new.deletedAt = row[i].deletedAt /\ request.action # "DELETE")
          /\ new.state = "DELETED" => row[i].state = "DELETED" \/ new.deletedAt = 0
    BY <2>1, <2>2, UpdatedRow
  <2>4. row'[i] = Updated(row[i], request)
    BY <1>1 DEF Batch, request
  <2> QED
    BY <1>2, <2>1, <2>3, <2>4 DEF ByJob
<1>4. row' = [i \in Items |-> IF i \in batch THEN Updated(row[i], bulk[b].request) ELSE row[i]]
  BY <1>1 DEF Batch
<1>5. \A i \in Items \ batch : row'[i] = row[i]
  BY <1>4
<1> QED
  BY <1>3, <1>4, <1>5 DEF RowMoves

\* So do rules, pruning and saving.
LEMMA OtherMoves ==
  ASSUME RowInv, (\E i \in Items : ApplyRules(i) \/ SaveItem(i)) \/ PruneTrash
  PROVE  RowMoves
<1>1. ASSUME NEW i \in Items, ApplyRules(i) PROVE RowMoves
  <2>1. PICK action \in {"ARCHIVE", "DELETE", "MARK_AS_READ"} :
          row' = [row EXCEPT ![i] = Updated(row[i], [action |-> action])]
    BY <1>1 DEF ApplyRules
  <2> DEFINE request == [action |-> action]
  <2>2. request.action \in Action /\ request.action # "MOVE_TO_FOLDER"
    BY DEF Action
  <2>3. row[i] \in Row /\ Present(i) /\ editor' = editor
    BY <1>1, Rows DEF ApplyRules
  <2>4. row' = [row EXCEPT ![i] = Updated(row[i], request)]
    BY <2>1
  <2> HIDE DEF request
  <2>5. LET new == Updated(row[i], request) IN
          /\ new \in Row
          /\ new.deletedAt = 0 \/ (new.deletedAt = row[i].deletedAt /\ request.action # "DELETE")
          /\ new.state = "DELETED" => row[i].state = "DELETED" \/ new.deletedAt = 0
    BY <2>2, <2>3, UpdatedRow
  <2>6. ByJob(i)
    BY <2>3, <2>4, <2>5 DEF ByJob, RowInv
  <2> QED
    BY <2>4, <2>6 DEF RowMoves, RowInv
<1>2. ASSUME NEW i \in Items, SaveItem(i) PROVE RowMoves
  <2> DEFINE new == [NoRow EXCEPT !.state = "SUCCEEDED", !.folder = "inbox"]
  <2>1. new \in Row /\ new.state = "SUCCEEDED" /\ new.deletedAt = Null
    BY LibraryAssumption DEF NoRow, NoPosition, Row, Position, State
  <2>2. row' = [row EXCEPT ![i] = new] /\ ~Present(i) /\ editor' = editor
    BY <1>2 DEF SaveItem
  <2> HIDE DEF new
  <2> QED
    BY <2>1, <2>2 DEF RowMoves, RowInv, BySave
<1>3. CASE PruneTrash
  BY <1>3 DEF PruneTrash, RowMoves, ByPruning
<1> QED
  BY <1>1, <1>2, <1>3

-----------------------------------------------------------------------------
(* Invariants of rows and the trash.                                       *)

\* So do all steps.
LEMMA StepMoves ==
  ASSUME RowInv, EditorInv, SyncInv, BulkTypes, Step
  PROVE  RowMoves /\ EditorInv'
<1>1. ASSUME NEW e \in Editors, EditItem(e) PROVE RowMoves /\ EditorInv'
  BY <1>1, EditMoves
<1>2. ASSUME editor' = editor PROVE EditorInv'
  BY <1>2 DEF EditorInv
<1>3. CASE ReadingStep /\ UNCHANGED <<walk, editor, bulk>>
  BY <1>2, <1>3, ReadingMoves
<1>4. CASE NextPage /\ UNCHANGED <<positionVars, editor, bulk>>
  BY <1>2, <1>4 DEF NextPage, RowMoves, RowInv
<1>5. ASSUME NEW b \in Bulks, UpdateBatch(b) PROVE RowMoves /\ EditorInv'
  BY <1>2, <1>5, BatchMoves DEF UpdateBatch
<1>6. ASSUME NEW b \in Bulks, NEW request \in Requests, HandleBulkAction(b, request) \/ BulkFails(b)
      PROVE  RowMoves /\ EditorInv'
  BY <1>2, <1>6 DEF HandleBulkAction, BulkFails, RowMoves, RowInv
<1>7. CASE (\E i \in Items : ApplyRules(i) \/ SaveItem(i)) \/ PruneTrash
  BY <1>2, <1>7, OtherMoves DEF ApplyRules, SaveItem, PruneTrash
<1>8. ASSUME NEW b \in Bulks, BulkFails(b) PROVE RowMoves /\ EditorInv'
  BY <1>2, <1>8 DEF BulkFails, RowMoves, RowInv
<1> QED
  BY <1>1, <1>3, <1>4, <1>5, <1>6, <1>7, <1>8 DEF Step

\* Rows that move so keep their types.
LEMMA RowNext == ASSUME RowInv, RowMoves PROVE RowInv'
<1>1. ASSUME NEW i \in Items
      PROVE  row'[i] \in AnyRow /\ row'[i].deletedAt \in {Null} \cup 0..NumDays + 1
  <2>1. 0 \in 0..NumDays + 1 /\ NoRow \in AnyRow /\ NoRow.deletedAt = Null /\ Row \subseteq AnyRow
    BY LibraryAssumption, RowTypes DEF AnyRow
  <2> QED
    BY <2>1, Rows DEF RowMoves, ByReading, ByEdit, ByJob, ByPruning, BySave
<1>2. row' = [i \in Items |-> row'[i]]
  BY DEF RowMoves
<1>3. row' \in [Items -> AnyRow]
  BY <1>1, <1>2
<1> QED
  BY <1>1, <1>3 DEF RowInv

\* What a job puts in the trash it puts there now.
LEMMA BinNext == ASSUME RowInv, BinInv, RowMoves, BinChanges PROVE BinInv'
<1>1. RowInv'
  BY RowNext
<1>2. \A i \in Items : bin[i] \in [by: {"none", "job", "api"}, days: 0..NumDays + 1]
  BY DEF BinInv
<1> DEFINE who == IF editor' # editor THEN "api" ELSE "job"
           fresh == [by |-> who, days |-> 0]
<1>3. /\ fresh \in [by: {"none", "job", "api"}, days: 0..NumDays + 1]
      /\ NotBinned \in [by: {"none", "job", "api"}, days: 0..NumDays + 1]
      /\ NotBinned.by = "none" /\ fresh.days = 0 /\ (fresh.by = "job" => editor' = editor)
  BY LibraryAssumption DEF NotBinned
<1>4. bin' = [i \in Items |-> CASE row'[i].state # "DELETED" -> NotBinned
                                [] row'[i].state = "DELETED" /\ row[i].state = "DELETED" -> bin[i]
                                [] OTHER -> fresh]
  BY DEF BinChanges
<1> HIDE DEF fresh
<1>5. ASSUME NEW i \in Items
      PROVE  /\ row'[i].state # "DELETED" => bin'[i] = NotBinned
             /\ row'[i].state = "DELETED" /\ row[i].state = "DELETED" => bin'[i] = bin[i]
             /\ row'[i].state = "DELETED" /\ row[i].state # "DELETED" => bin'[i] = fresh
  BY <1>4
<1>6. bin' \in [Items -> [by: {"none", "job", "api"}, days: 0..NumDays + 1]]
  <2>1. \A i \in Items : bin'[i] \in [by: {"none", "job", "api"}, days: 0..NumDays + 1]
    BY <1>2, <1>3, <1>5
  <2> QED
    BY <1>4, <2>1
<1>7. ASSUME NEW i \in Items, row'[i].state = "DELETED", bin'[i].by = "job"
      PROVE  row'[i].deletedAt <= bin'[i].days
  <2>1. CASE row[i].state = "DELETED"
    <3>1. bin'[i] = bin[i] /\ row[i].deletedAt <= bin[i].days
      BY <1>5, <1>7, <2>1 DEF BinInv
    <3>2. bin[i].days \in Nat
      BY <1>2
    <3>3. row'[i].deletedAt \in {row[i].deletedAt, 0}
      BY <1>7, <2>1, RowTypes DEF RowMoves, ByReading, ByEdit, ByJob, ByPruning, BySave, State
    <3> QED
      BY <3>1, <3>2, <3>3
  <2>2. CASE row[i].state # "DELETED"
    <3>1. bin'[i] = fresh /\ editor' = editor
      BY <1>3, <1>5, <1>7, <2>2
    <3>2. row'[i].deletedAt = 0
      BY <1>7, <2>2, <3>1, RowTypes DEF RowMoves, ByReading, ByEdit, ByJob, ByPruning, BySave, State
    <3> QED
      BY <1>3, <3>1, <3>2
  <2> QED
    BY <2>1, <2>2
<1> QED
  BY <1>6, <1>7 DEF BinInv

\* What is pruned is overdue.
LEMMA PrunedOld ==
  ASSUME RowInv, BinInv, RowMoves, NEW i \in Items, Pruned(i)
  PROVE  row[i].state = "DELETED" /\ (bin[i].by = "job" => bin[i].days > NumDays)
<1>1. Overdue(row[i])
  BY RowTypes DEF Pruned, Present, RowMoves, ByReading, ByEdit, ByJob, ByPruning, BySave
<1>2. row[i].state = "DELETED" /\ row[i].deletedAt > NumDays
  BY <1>1 DEF Overdue
<1>3. bin[i].days \in Nat /\ row[i].deletedAt \in Int /\ NumDays \in Nat
  BY LibraryAssumption, Rows DEF BinInv, Null
<1> QED
  BY <1>2, <1>3 DEF BinInv

\* A day passes for deleted_at and for what the history knows.
LEMMA DayMoves ==
  ASSUME RowInv, BinInv, DayPasses
  PROVE  /\ RowInv' /\ BinInv'
         /\ \A i \in Items : /\ row'[i].state = row[i].state /\ row'[i].folder = row[i].folder
                             /\ row'[i].progress = row[i].progress
                             /\ row'[i] = NoRow <=> row[i] = NoRow
<1>1. \A d \in {Null} \cup 0..NumDays + 1 : Older(d) \in {Null} \cup 0..NumDays + 1
  BY LibraryAssumption DEF Older, Null
<1>2. \A d, n \in {Null} \cup 0..NumDays + 1 : d <= n => Older(d) <= Older(n)
  BY LibraryAssumption DEF Older, Null
<1>3. \A d \in 0..NumDays + 1 : Older(d) \in 0..NumDays + 1
  BY LibraryAssumption DEF Older
<1>4. ASSUME NEW r \in AnyRow, r.deletedAt \in {Null} \cup 0..NumDays + 1
      PROVE  LET new == [r EXCEPT !.deletedAt = Older(r.deletedAt)] IN
             /\ new \in AnyRow /\ new.deletedAt = Older(r.deletedAt) /\ new.state = r.state
             /\ new.folder = r.folder /\ new.progress = r.progress
             /\ new = NoRow <=> r = NoRow
  <2> DEFINE new == [r EXCEPT !.deletedAt = Older(r.deletedAt)]
  <2>1. Older(r.deletedAt) \in {Null} \cup Nat
    BY <1>1, <1>4
  <2>2. CASE r \in Row
    <3>1. /\ new \in Row /\ new.deletedAt = Older(r.deletedAt) /\ new.state = r.state
          /\ new.folder = r.folder /\ new.progress = r.progress
      BY <2>1, <2>2 DEF Row
    <3> QED
      BY <2>2, <3>1, RowTypes DEF AnyRow
  <2>3. CASE r = NoRow
    <3>1. new = NoRow /\ Older(r.deletedAt) = r.deletedAt
      BY <2>3 DEF NoRow, Older, Null
    <3> QED
      BY <2>3, <3>1
  <2> QED
    BY <1>4, <2>2, <2>3 DEF AnyRow
<1>5. row' = [i \in Items |-> [row[i] EXCEPT !.deletedAt = Older(row[i].deletedAt)]]
  BY DEF DayPasses
<1>6. ASSUME NEW i \in Items
      PROVE  /\ row'[i] \in AnyRow /\ row'[i].deletedAt = Older(row[i].deletedAt)
             /\ row'[i].state = row[i].state
             /\ row'[i].folder = row[i].folder /\ row'[i].progress = row[i].progress
             /\ row'[i] = NoRow <=> row[i] = NoRow
  BY <1>4, <1>5, Rows
<1>7. RowInv'
  BY <1>1, <1>5, <1>6, Rows DEF RowInv
<1>8. ASSUME NEW i \in Items
      PROVE  /\ bin'[i] \in [by: {"none", "job", "api"}, days: 0..NumDays + 1]
             /\ bin'[i].by = bin[i].by
             /\ bin[i].by = "job" => bin'[i].days = Older(bin[i].days)
  <2>1. bin[i] \in [by: {"none", "job", "api"}, days: 0..NumDays + 1]
    BY DEF BinInv
  <2>2. bin'[i] = IF bin[i].by = "none" THEN bin[i]
                                        ELSE [bin[i] EXCEPT !.days = Older(bin[i].days)]
    BY DEF DayPasses
  <2>3. Older(bin[i].days) \in 0..NumDays + 1
    BY <1>3, <2>1
  <2> QED
    BY <2>1, <2>2, <2>3
<1>9. bin' \in [Items -> [by: {"none", "job", "api"}, days: 0..NumDays + 1]]
  <2>1. bin' = [i \in Items |-> bin'[i]]
    BY DEF DayPasses
  <2> QED
    BY <1>8, <2>1
<1>10. ASSUME NEW i \in Items, row'[i].state = "DELETED", bin'[i].by = "job"
       PROVE  row'[i].deletedAt <= bin'[i].days
  <2>1. row[i].deletedAt <= bin[i].days /\ bin[i].days \in 0..NumDays + 1
    BY <1>6, <1>8, <1>10 DEF BinInv
  <2> QED
    BY <1>2, <1>6, <1>8, <1>10, <2>1, Rows
<1> QED
  BY <1>6, <1>7, <1>9, <1>10 DEF BinInv

-----------------------------------------------------------------------------
(* Read positions, whoever writes the row.                                 *)

\* Steps that leave the set and the calls alone.
LEMMA PositionsStay ==
  ASSUME SyncInv, NoneDropped, UNCHANGED <<key, aged, sync, posted, applied>>,
         restarted' \subseteq {"top", "bottom"}, faults' \in 0..MaxFaults
  PROVE  SyncInv' /\ NoneDropped'
  BY DEF SyncInv, TypeOKPositions, NoneDropped

\* What was reported stays until it is applied.
LEMMA PositionsNext ==
  ASSUME SyncInv, NoneDropped, Step
  PROVE  SyncInv' /\ NoneDropped'
<1>1. restarted \subseteq {"top", "bottom"} /\ faults \in 0..MaxFaults /\ MaxFaults \in Nat
  BY ReadPositionsAssumption DEF SyncInv, TypeOKPositions
<1>2. CASE ReadingStep
  BY <1>2, ReadingNext
<1>3. CASE UNCHANGED positionVars
  BY <1>1, <1>3, PositionsStay DEF positionVars
<1>4. ASSUME NEW e \in Editors, NEW state, NEW top, SaveBack(e, state, top)
      PROVE  SyncInv' /\ NoneDropped'
  <2>1. restarted' \subseteq {"top", "bottom"} /\ faults' = faults
    BY <1>1, <1>4 DEF SaveBack
  <2> QED
    BY <1>1, <1>4, <2>1, PositionsStay DEF SaveBack
<1>5. ASSUME NEW e \in Editors, EditItem(e) PROVE SyncInv' /\ NoneDropped'
  BY <1>3, <1>4, <1>5 DEF EditItem, GetByID, SetLinkArchived, DeleteItem, UpdateItem
<1>6. ASSUME NEW b \in Bulks, BulkFails(b) PROVE SyncInv' /\ NoneDropped'
  <2>1. faults' \in 0..MaxFaults
    BY <1>1, <1>6 DEF BulkFails
  <2> QED
    BY <1>1, <1>6, <2>1, PositionsStay DEF BulkFails
<1>7. ASSUME NEW i \in Items, SaveItem(i) PROVE SyncInv' /\ NoneDropped'
  BY <1>1, <1>7, PositionsStay DEF SaveItem
<1> QED
  BY <1>2, <1>3, <1>5, <1>6, <1>7
  DEF Step, NextPage, HandleBulkAction, UpdateBatch, ApplyRules, PruneTrash

\* As long as columns are set back only with a mark, they stay ahead.
LEMMA KeptAhead ==
  ASSUME FurthestKept, RowInv, RowInv', applied' = applied, restarted \subseteq restarted',
         applied \subseteq Entries,
         Present(Tracked)' =>
           /\ \/ "top" \in restarted'
              \/ Present(Tracked) /\ row'[Tracked].progress.top >= row[Tracked].progress.top
              \/ row'[Tracked].progress.top = 100
           /\ \/ "bottom" \in restarted'
              \/ Present(Tracked) /\ row'[Tracked].progress.bottom >= row[Tracked].progress.bottom
              \/ row'[Tracked].progress.bottom = 100
  PROVE  FurthestKept'
<1>1. Tracked \in Items
  BY ReadPositionsAssumption
<1>2. /\ row[Tracked].progress.top \in Nat /\ row[Tracked].progress.bottom \in Nat
      /\ row'[Tracked].progress.top \in Nat /\ row'[Tracked].progress.bottom \in Nat
  BY <1>1, RowTypes DEF RowInv
<1>3. \A e \in Entries : At[e].top \in Nat /\ At[e].bottom \in Nat
                         /\ At[e].top <= 100 /\ At[e].bottom <= 100
  BY ReadPositionsAssumption, RowTypes
<1> QED
  BY <1>2, <1>3 DEF FurthestKept, Present

\* An update that is applied is behind the row from then on.
LEMMA AppliedAhead ==
  ASSUME FurthestKept, RowInv, SyncInv, NEW s \in Syncs, UpdateProgress(s)
  PROVE  FurthestKept'
<1> DEFINE read == sync[s].read
<1>1. read \in SUBSET Entries /\ Tracked \in Items /\ applied \subseteq Entries
  BY ReadPositionsAssumption DEF SyncInv, TypeOKPositions
<1>2. PICK new \in Furthest(read), old \in Position :
        /\ old = row[Tracked].progress
        /\ restarted \subseteq restarted'
        /\ new.top = 0 => "top" \in restarted'
        /\ new.bottom = 0 => "bottom" \in restarted'
        /\ \/ row' = row /\ (Present(Tracked) => new.top <= old.top /\ new.bottom <= old.bottom)
           \/ /\ Present(Tracked)
              /\ row' = [row EXCEPT ![Tracked].progress = Merged(old, new)]
  BY ProgressRow
<1>3. /\ new \in Position
      /\ \A e \in Valid(read) : At[e].top <= new.top /\ At[e].bottom <= new.bottom
  BY <1>1, FurthestFacts
<1>4. /\ new.top \in Nat /\ new.bottom \in Nat /\ old.top \in Nat /\ old.bottom \in Nat
      /\ \A e \in Entries : At[e].top \in Nat /\ At[e].bottom \in Nat
  BY <1>3, RowTypes, ReadPositionsAssumption
<1>5. applied' = applied \cup read
  BY DEF UpdateProgress
<1> DEFINE p == row'[Tracked].progress
<1>6. Present(Tracked)' =>
        /\ Present(Tracked) /\ p.top \in Nat /\ p.bottom \in Nat
        /\ p.top >= new.top /\ p.bottom >= new.bottom
        /\ new.top # 0 => p.top >= old.top
        /\ new.bottom # 0 => p.bottom >= old.bottom
  <2>1. CASE row' = row /\ (Present(Tracked) => new.top <= old.top /\ new.bottom <= old.bottom)
    BY <1>2, <1>4, <2>1 DEF Present
  <2>2. CASE Present(Tracked) /\ row' = [row EXCEPT ![Tracked].progress = Merged(old, new)]
    <3>1. row[Tracked] \in Row
      BY <1>1, <2>2, Rows
    <3>2. p = Merged(old, new)
      BY <1>1, <2>2, <3>1 DEF RowInv, Row
    <3> QED
      BY <1>3, <2>2, <3>2, MergedFacts, RowTypes
  <2> QED
    BY <1>2, <2>1, <2>2
<1> HIDE DEF p
<1>7. ASSUME NEW e \in applied' \ Garbled, Present(Tracked)'
      PROVE  /\ "top" \notin restarted' => p.top >= At[e].top
             /\ "bottom" \notin restarted' => p.bottom >= At[e].bottom
  <2>1. CASE e \in read
    BY <1>1, <1>3, <1>4, <1>6, <1>7, <2>1 DEF Valid
  <2>2. CASE e \in applied
    <3>1. /\ "top" \notin restarted => old.top >= At[e].top
          /\ "bottom" \notin restarted => old.bottom >= At[e].bottom
      BY <1>2, <1>6, <1>7, <2>2 DEF FurthestKept
    <3> QED
      BY <1>1, <1>2, <1>4, <1>6, <1>7, <2>2, <3>1
  <2> QED
    BY <1>5, <1>7, <2>1, <2>2
<1> QED
  BY <1>7 DEF FurthestKept, p

\* And no step puts the row behind it without a mark.
LEMMA FurthestNext ==
  ASSUME FurthestKept, RowInv, EditorInv, SyncInv, BulkTypes, Step
  PROVE  FurthestKept'
<1>1. RowInv' /\ Tracked \in Items /\ applied \subseteq Entries
  BY StepMoves, RowNext, ReadPositionsAssumption DEF SyncInv, TypeOKPositions
<1>2. /\ row[Tracked].progress.top \in Nat /\ row[Tracked].progress.bottom \in Nat
      /\ row[Tracked] \in AnyRow
  BY <1>1, Rows
<1>3. CASE UNCHANGED <<row, restarted, applied>>
  BY <1>3 DEF FurthestKept, Present
<1>4. CASE ReadingStep
  BY <1>3, <1>4, AppliedAhead, ReadingRow
<1>5. ASSUME NEW e \in Editors, NEW state \in State, NEW top \in Nat, SaveBack(e, state, top)
      PROVE  FurthestKept'
  <2> DEFINE i == editor[e].item
             saved == [editor[e].seen EXCEPT !.state = state, !.progress.top = top]
  <2>1. i \in Items /\ editor[e].seen \in Row /\ applied' = applied
    BY <1>5 DEF SaveBack, EditorInv
  <2>2. row' = [row EXCEPT ![i] = Saved(row[i], saved)]
    BY <1>5 DEF SaveBack
  <2>3. CASE i # Tracked
    <3>1. row'[Tracked] = row[Tracked] /\ restarted' = restarted
      BY <1>1, <1>5, <2>2, <2>3 DEF RowInv, SaveBack
    <3> QED
      BY <2>1, <3>1 DEF FurthestKept, Present
  <2>4. CASE i = Tracked /\ Present(i)
    <3>1. restarted' = restarted \cup {"top"}
      BY <1>5, <2>4 DEF SaveBack
    <3>2. row'[Tracked] = Saved(row[Tracked], saved)
      BY <1>1, <2>2, <2>4 DEF RowInv
    <3>3. Saved(row[Tracked], saved).progress.bottom = row[Tracked].progress.bottom
      <4> DEFINE old == row[Tracked]
                 seen == editor[e].seen
      <4>1. old \in AnyRow /\ seen \in Row
        BY <1>2, <2>1
      <4> HIDE DEF old, seen
      <4>2. LET new == Saved(old, [seen EXCEPT !.state = state, !.progress.top = top])
            IN  new.progress.bottom = old.progress.bottom
        BY <1>5, <4>1, SavedRow
      <4> QED
        BY <4>2 DEF old, seen
    <3> QED
      BY <1>1, <1>2, <2>1, <2>4, <3>1, <3>2, <3>3, KeptAhead
  <2>5. CASE i = Tracked /\ ~Present(i)
    <3>1. restarted' = {"top", "bottom"}
      BY <1>5, <2>5 DEF SaveBack
    <3> QED
      BY <3>1 DEF FurthestKept
  <2> QED
    BY <2>3, <2>4, <2>5
<1>6. ASSUME NEW e \in Editors, EditItem(e) PROVE FurthestKept'
  <2>1. CASE \E i \in Items : GetByID(e, i)
    BY <1>3, <2>1 DEF GetByID, positionVars
  <2>2. ASSUME editor[e].pc = "read" PROVE editor[e].seen.progress.top \in Nat
    BY <2>2, RowTypes DEF EditorInv
  <2>3. {"ARCHIVED", "SUCCEEDED", "DELETED"} \subseteq State /\ Tops \subseteq Nat
    BY LibraryAssumption DEF State
  <2>4. CASE SetLinkArchived(e)
    <3>1. editor[e].pc = "read"
      BY <2>4 DEF SetLinkArchived, SaveBack
    <3> QED
      BY <1>5, <2>2, <2>3, <2>4, <3>1 DEF SetLinkArchived
  <2>5. CASE DeleteItem(e)
    <3>1. editor[e].pc = "read"
      BY <2>5 DEF DeleteItem, SaveBack
    <3> QED
      BY <1>5, <2>2, <2>3, <2>5, <3>1 DEF DeleteItem
  <2>6. CASE UpdateItem(e)
    <3>1. editor[e].pc = "read"
      BY <2>6 DEF UpdateItem, SaveBack
    <3> QED
      BY <1>5, <2>2, <2>3, <2>6, <3>1 DEF UpdateItem
  <2> QED
    BY <1>6, <2>1, <2>4, <2>5, <2>6 DEF EditItem
<1>7. ASSUME NEW r \in Row, NEW request, request.action \in Action,
             request.action = "MOVE_TO_FOLDER" => request.folder \in Folders,
             Present(Tracked), row[Tracked] = r, row'[Tracked] = Updated(r, request),
             restarted' = restarted, applied' = applied
      PROVE  FurthestKept'
  <2> DEFINE new == Updated(r, request)
  <2>1. new.progress = r.progress \/ (new.progress.top = 100 /\ new.progress.bottom = 100)
    BY <1>7, UpdatedRow
  <2> HIDE DEF new
  <2>2. row'[Tracked] = new
    BY <1>7 DEF new
  <2> QED
    BY <1>1, <1>2, <1>7, <2>1, <2>2, KeptAhead
<1>8. ASSUME row'[Tracked] = row[Tracked], restarted' = restarted, applied' = applied
      PROVE  FurthestKept'
  BY <1>8 DEF FurthestKept, Present
<1>9. ASSUME NEW b \in Bulks, UpdateBatch(b) PROVE FurthestKept'
  <2>1. PICK batch \in SUBSET Items : Batch(b, batch)
    BY <1>9, BatchFacts
  <2>2. bulk[b].request \in Requests /\ restarted' = restarted /\ applied' = applied
    BY <1>9, Bulk DEF UpdateBatch, positionVars
  <2> DEFINE request == bulk[b].request
  <2>3. request.action \in Action /\ request.folder \in Folders
    BY <2>2, Totals
  <2>4. row'[Tracked] = IF Tracked \in batch THEN Updated(row[Tracked], request) ELSE row[Tracked]
    BY <1>1, <2>1 DEF Batch
  <2>5. Tracked \in batch => Present(Tracked) /\ row[Tracked] \in Row
    BY <1>1, <2>1, Rows DEF Batch, Matching, Filter
  <2> HIDE DEF request
  <2> QED
    BY <1>7, <1>8, <2>2, <2>3, <2>4, <2>5
<1>10. ASSUME NEW i \in Items, ApplyRules(i) PROVE FurthestKept'
  <2>1. PICK action \in {"ARCHIVE", "DELETE", "MARK_AS_READ"} :
          row' = [row EXCEPT ![i] = Updated(row[i], [action |-> action])]
    BY <1>10 DEF ApplyRules
  <2> DEFINE request == [action |-> action]
  <2>2. request.action \in Action /\ request.action # "MOVE_TO_FOLDER"
    BY DEF Action
  <2>3. row[i] \in Row /\ Present(i) /\ restarted' = restarted /\ applied' = applied
    BY <1>10, Rows DEF ApplyRules, positionVars
  <2>4. row' = [row EXCEPT ![i] = Updated(row[i], request)]
    BY <2>1
  <2> HIDE DEF request
  <2>5. CASE i = Tracked
    <3>1. row'[Tracked] = Updated(row[Tracked], request)
      BY <2>4, <2>5 DEF RowInv
    <3> QED
      BY <1>7, <2>2, <2>3, <2>5, <3>1
  <2>6. CASE i # Tracked
    BY <1>1, <1>8, <2>3, <2>4, <2>6 DEF RowInv
  <2> QED
    BY <2>5, <2>6
<1>11. ASSUME NEW i \in Items, SaveItem(i) PROVE FurthestKept'
  <2>1. CASE i = Tracked
    BY <1>11, <2>1 DEF SaveItem, FurthestKept
  <2>2. CASE i # Tracked
    BY <1>1, <1>8, <1>11, <2>2 DEF SaveItem, RowInv
  <2> QED
    BY <2>1, <2>2
<1>12. CASE PruneTrash
  <2>1. row'[Tracked] = NoRow \/ row'[Tracked] = row[Tracked]
    BY <1>1, <1>12 DEF PruneTrash
  <2> QED
    BY <1>8, <1>12, <2>1 DEF PruneTrash, positionVars, FurthestKept, Present
<1>13. ASSUME NEW b \in Bulks, BulkFails(b) PROVE FurthestKept'
  BY <1>3, <1>13 DEF BulkFails
<1>14. ASSUME NEW b \in Bulks, NEW request \in Requests, HandleBulkAction(b, request)
       PROVE  FurthestKept'
  BY <1>3, <1>14 DEF HandleBulkAction, positionVars
<1>15. CASE NextPage /\ UNCHANGED positionVars
  BY <1>3, <1>15 DEF NextPage, positionVars
<1> QED
  BY <1>4, <1>6, <1>9, <1>10, <1>11, <1>12, <1>13, <1>14, <1>15 DEF Step

-----------------------------------------------------------------------------
(* Bulk actions.                                                           *)

\* While nobody moves items, a query matches the same.
LEMMA SameMatching ==
  ASSUME RowInv, RowInv', Unmoved
  PROVE  \A request : Matching(request)' = Matching(request)
<1>1. \A i \in Items : Present(i)' <=> Present(i)
  <2>1. \A i \in Items : Present(i) <=> row[i].state \in State
    BY Rows
  <2>2. \A i \in Items : Present(i)' <=> row'[i].state \in State
    BY RowTypes DEF RowInv, Present, AnyRow
  <2> QED
    BY <2>1, <2>2 DEF Unmoved
<1> QED
  BY <1>1 DEF Unmoved, Matching, Filter

\* A job of which nothing changed.
LEMMA OtherBulk ==
  ASSUME RowInv, RowInv', BulkTypes, BulkInv, BulkReaches,
         NEW b \in Bulks, bulk'[b] = bulk[b], disturbed \subseteq disturbed',
         b \in disturbed' \/ bulk[b].pc # "run" \/ Unmoved
  PROVE  /\ b \notin disturbed' /\ SelfExcluding(bulk'[b].request) /\ bulk'[b].pc = "run" =>
              /\ bulk'[b].hit \subseteq bulk'[b].want
              /\ Matching(bulk[b].request)' = bulk'[b].want \ bulk'[b].hit
              /\ bulk'[b].processed <= Cardinality(bulk'[b].hit)
              /\ bulk'[b].processed < Total(bulk'[b].request)
         /\ /\ bulk'[b].pc = "done" /\ b \notin disturbed' /\ SelfExcluding(bulk'[b].request)
            /\ Total(bulk'[b].request) >= Cardinality(bulk'[b].want)
            => bulk'[b].want \subseteq bulk'[b].hit
<1>1. ASSUME Unmoved PROVE Matching(bulk[b].request)' = Matching(bulk[b].request)
  <2>1. \A request : Matching(request)' = Matching(request)
    BY <1>1, SameMatching
  <2> QED
    BY <2>1 DEF Matching, Filter
<1> QED
  BY <1>1 DEF BulkInv, BulkReaches

\* A batch takes its items out of what the query matches.
LEMMA BatchLeaves ==
  ASSUME RowInv, BulkTypes, NEW b \in Bulks, NEW batch \in SUBSET Items, Batch(b, batch),
         bulk[b].request \in Requests, SelfExcluding(bulk[b].request)
  PROVE  Matching(bulk[b].request)' = Matching(bulk[b].request) \ batch
<1> DEFINE request == bulk[b].request
<1>1. bulk'[b].request = request /\ request.action \in Action /\ request.folder \in Folders
  BY Totals DEF Batch
<1>2. ASSUME NEW i \in Items \ batch PROVE row'[i] = row[i]
  BY <1>2 DEF Batch
<1>3. ASSUME NEW i \in batch
      PROVE  ~(i \in Items /\ i \in Matching(bulk[b].request)')
  <2>1. row[i] \in Row /\ Present(i)
    BY Rows DEF Batch, Matching, Filter
  <2>2. row'[i] = Updated(row[i], request)
    BY DEF Batch
  <2> HIDE DEF request
  <2>3. /\ request.action = "ARCHIVE" => row'[i].state = "ARCHIVED"
        /\ request.action = "DELETE" => row'[i].state = "DELETED"
        /\ request.action = "MOVE_TO_FOLDER" => row'[i].folder = request.folder
    BY <1>1, <2>1, <2>2, UpdatedRow
  <2>4. SelfExcluding(request)
    BY DEF request
  <2>5. CASE request.action \in {"ARCHIVE", "DELETE"}
    BY <1>1, <2>3, <2>5 DEF Matching, request
  <2>6. CASE request.action = "MOVE_TO_FOLDER" /\ request.in = "inbox" /\ request.folder # "inbox"
    <3>1. row'[i].folder # "inbox"
      BY <2>3, <2>6
    <3> QED
      BY <1>1, <2>6, <3>1 DEF Matching, Filter, request
  <2> QED
    BY <2>4, <2>5, <2>6 DEF SelfExcluding
<1>4. ASSUME NEW i \in Items \ batch
      PROVE  i \in Matching(bulk[b].request)' <=> i \in Matching(bulk[b].request)
  BY <1>1, <1>2 DEF Matching, Filter, Present
<1>5. Matching(bulk[b].request)' \subseteq Items /\ Matching(bulk[b].request) \subseteq Items
  BY DEF Matching, Filter
<1> QED
  BY <1>3, <1>4, <1>5

\* A batch brings the job nearer to what it wanted, and its last one to all of it.
LEMMA BatchReaches ==
  ASSUME RowInv, BulkTypes, BulkInv, NEW b \in Bulks, UpdateBatch(b),
         b \notin disturbed, SelfExcluding(bulk[b].request)
  PROVE  /\ bulk'[b].pc = "run" =>
              /\ bulk'[b].hit \subseteq bulk'[b].want
              /\ Matching(bulk[b].request)' = bulk'[b].want \ bulk'[b].hit
              /\ bulk'[b].processed <= Cardinality(bulk'[b].hit)
              /\ bulk'[b].processed < Total(bulk'[b].request)
         /\ bulk'[b].pc = "done" /\ Total(bulk'[b].request) >= Cardinality(bulk'[b].want)
            => bulk'[b].want \subseteq bulk'[b].hit
<1> DEFINE want == bulk[b].want
           hit == bulk[b].hit
           processed == bulk[b].processed
           total == Total(bulk[b].request)
<1>1. PICK batch \in SUBSET Items : Batch(b, batch)
  BY BatchFacts
<1>2. /\ bulk[b].pc = "run" /\ want \subseteq Items /\ hit \subseteq Items
      /\ bulk[b].request \in Requests /\ processed \in Nat /\ total \in Nat
  BY Bulk, Totals DEF UpdateBatch
<1>3. /\ hit \subseteq want /\ Matching(bulk[b].request) = want \ hit
      /\ processed <= Cardinality(hit) /\ processed < total
  BY <1>2 DEF BulkInv
<1>4. /\ bulk'[b].want = want /\ bulk'[b].hit = hit \cup batch
      /\ bulk'[b].request = bulk[b].request
      /\ bulk'[b].processed = processed + Cardinality(batch)
      /\ bulk'[b].pc = IF EndsWith(bulk[b], Cardinality(batch)) THEN "done" ELSE "run"
      /\ Cardinality(batch) \in Nat
      /\ Cardinality(batch) = 0 => want \ hit = {}
  BY <1>1, <1>2, <1>3 DEF Batch
<1>5. batch \subseteq want \ hit
  BY <1>1, <1>3 DEF Batch
<1>6. /\ hit \cup batch \subseteq want
      /\ Cardinality(hit \cup batch) = Cardinality(hit) + Cardinality(batch)
      /\ Cardinality(hit) \in Nat /\ Cardinality(hit \cup batch) \in Nat
      /\ Cardinality(want) \in Nat
      /\ Cardinality(hit \cup batch) >= Cardinality(want) => hit \cup batch = want
  <2>1. /\ IsFiniteSet(hit) /\ IsFiniteSet(batch) /\ IsFiniteSet(want)
        /\ Cardinality(hit) \in Nat /\ Cardinality(want) \in Nat
        /\ Cardinality(hit \cup batch) \in Nat
    BY <1>2, Counts
  <2>2. hit \cap batch = {} /\ hit \cup batch \in SUBSET want
    BY <1>3, <1>5
  <2>3. Cardinality(hit \cup batch) = Cardinality(hit) + Cardinality(batch)
    <3>1. Cardinality(hit \cup batch)
            = Cardinality(hit) + Cardinality(batch) - Cardinality(hit \cap batch)
      BY <2>1, FS_Union
    <3>2. Cardinality(hit \cap batch) = 0
      BY <2>2, FS_EmptySet
    <3> QED
      BY <1>4, <2>1, <3>1, <3>2
  <2>4. /\ Cardinality(hit \cup batch) <= Cardinality(want)
        /\ Cardinality(want) = Cardinality(hit \cup batch) => want = hit \cup batch
    BY <2>1, <2>2, FS_Subset
  <2> QED
    BY <2>1, <2>2, <2>3, <2>4
<1>7. Matching(bulk[b].request)' = (want \ hit) \ batch
  BY <1>1, <1>2, <1>3, BatchLeaves
<1> HIDE DEF want, hit, processed, total
<1>8. ASSUME bulk'[b].pc = "run"
      PROVE  processed + Cardinality(batch) < total
  BY <1>2, <1>4, <1>8 DEF EndsWith, processed, total
<1>9. ASSUME bulk'[b].pc = "done", total >= Cardinality(want)
      PROVE  want \subseteq hit \cup batch
  <2>1. Cardinality(batch) = 0 \/ processed + Cardinality(batch) >= total
    BY <1>4, <1>9 DEF EndsWith, processed, total
  <2>2. CASE Cardinality(batch) = 0
    BY <1>4, <2>2
  <2>3. CASE processed + Cardinality(batch) >= total
    <3>1. Cardinality(hit \cup batch) >= Cardinality(want)
      BY <1>2, <1>3, <1>4, <1>6, <1>9, <2>3
    <3> QED
      BY <1>6, <3>1
  <2> QED
    BY <2>1, <2>2, <2>3
<1>10. Matching(bulk[b].request)' = want \ (hit \cup batch)
  BY <1>7
<1>11. Total(bulk'[b].request) = total
  BY <1>4 DEF total
<1>12. processed + Cardinality(batch) <= Cardinality(hit \cup batch)
  BY <1>2, <1>3, <1>4, <1>6
<1> QED
  BY <1>4, <1>6, <1>8, <1>9, <1>10, <1>11, <1>12

\* The start of a job.
LEMMA HandleBulk ==
  ASSUME BulkTypes, NEW b \in Bulks, NEW request \in Requests, HandleBulkAction(b, request)
  PROVE  /\ bulk' = [bulk EXCEPT ![b] = bulk'[b]] /\ bulk'[b] \in BulkRecord
         /\ bulk'[b].request = request /\ bulk'[b].pc = "run" /\ bulk'[b].processed = 0
         /\ bulk'[b].hit = {} /\ bulk'[b].want = Matching(request) /\ row' = row
<1> DEFINE new == [pc |-> "run", request |-> request, processed |-> 0,
                   want |-> Matching(request), hit |-> {}]
<1>1. bulk' = [bulk EXCEPT ![b] = new] /\ row' = row
  BY DEF HandleBulkAction
<1>2. Matching(request) \subseteq Items
  BY DEF Matching, Filter
<1>3. new \in BulkRecord
  BY <1>2 DEF BulkRecord
<1>4. bulk'[b] = new
  BY <1>1 DEF BulkTypes
<1>5. /\ new.request = request /\ new.pc = "run" /\ new.processed = 0
      /\ new.hit = {} /\ new.want = Matching(request)
  OBVIOUS
<1> HIDE DEF new
<1> QED
  BY <1>1, <1>3, <1>4, <1>5

\* An attempt of a job that fails.
LEMMA FailBulk ==
  ASSUME BulkTypes, NEW b \in Bulks, BulkFails(b)
  PROVE  /\ bulk' = [bulk EXCEPT ![b] = bulk'[b]] /\ bulk'[b] \in BulkRecord
         /\ bulk'[b].request = bulk[b].request /\ bulk'[b].processed = 0
         /\ bulk'[b].pc \in {"run", "failed"} /\ bulk'[b].want = bulk[b].want
         /\ bulk'[b].hit = bulk[b].hit /\ row' = row /\ bulk[b].pc = "run"
<1>1. bulk[b] \in BulkRecord
  BY DEF BulkTypes
<1>2. PICK pc \in {"run", "failed"} :
        bulk' = [bulk EXCEPT ![b].pc = pc, ![b].processed = 0]
  BY DEF BulkFails
<1> DEFINE new == [bulk[b] EXCEPT !.pc = pc, !.processed = 0]
<1>3. /\ new \in BulkRecord /\ new.pc = pc /\ new.processed = 0
      /\ new.request = bulk[b].request /\ new.want = bulk[b].want /\ new.hit = bulk[b].hit
  BY <1>1 DEF BulkRecord
<1>4. bulk' = [bulk EXCEPT ![b] = new]
  BY <1>2 DEF BulkTypes
<1> HIDE DEF new
<1>5. bulk'[b] = new
  BY <1>4 DEF BulkTypes
<1> QED
  BY <1>3, <1>4, <1>5 DEF BulkFails

\* Which jobs a step changes.
LEMMA BulkSteps ==
  ASSUME BulkTypes, Step
  PROVE  \/ bulk' = bulk
         \/ \E b \in Bulks :
              /\ \/ \E request \in Requests : HandleBulkAction(b, request)
                 \/ UpdateBatch(b) \/ BulkFails(b)
              /\ bulk' = [bulk EXCEPT ![b] = bulk'[b]] /\ bulk'[b] \in BulkRecord
<1>1. ASSUME NEW b \in Bulks, UpdateBatch(b)
      PROVE  bulk' = [bulk EXCEPT ![b] = bulk'[b]] /\ bulk'[b] \in BulkRecord
  BY <1>1, BatchFacts DEF Batch
<1>2. CASE \E e \in Editors : EditItem(e)
  BY <1>2 DEF EditItem, GetByID, SetLinkArchived, DeleteItem, UpdateItem, SaveBack
<1>3. CASE (\E i \in Items : ApplyRules(i) \/ SaveItem(i)) \/ PruneTrash
  BY <1>3 DEF ApplyRules, SaveItem, PruneTrash
<1> QED
  BY <1>1, <1>2, <1>3, HandleBulk, FailBulk DEF Step

\* Jobs keep their types and their counts.
LEMMA BulkTypesNext ==
  ASSUME BulkTypes, Step, Histories
  PROVE  BulkTypes'
<1>1. disturbed' \subseteq Bulks
  BY DEF Histories, BulkTypes
<1>2. CASE bulk' = bulk
  BY <1>1, <1>2 DEF BulkTypes
<1>3. ASSUME NEW b \in Bulks,
             \/ \E request \in Requests : HandleBulkAction(b, request)
             \/ UpdateBatch(b) \/ BulkFails(b),
             bulk' = [bulk EXCEPT ![b] = bulk'[b]], bulk'[b] \in BulkRecord
      PROVE  BulkTypes'
  <2>1. bulk'[b].request \in Requests /\ bulk'[b].processed <= Total(bulk'[b].request)
    <3>1. ASSUME NEW request \in Requests, HandleBulkAction(b, request)
          PROVE  bulk'[b].request \in Requests /\ bulk'[b].processed <= Total(bulk'[b].request)
      BY <3>1, HandleBulk, Totals
    <3>2. CASE UpdateBatch(b)
      <4>1. PICK batch \in SUBSET Items : Batch(b, batch)
        BY <3>2, BatchFacts
      <4>2. /\ bulk[b].request \in Requests /\ bulk[b].processed \in Nat
            /\ Total(bulk[b].request) \in Nat
        BY <3>2, Bulk, Totals DEF UpdateBatch
      <4>3. /\ bulk'[b].request = bulk[b].request
            /\ bulk'[b].processed = bulk[b].processed + Cardinality(batch)
            /\ Cardinality(batch) \in Nat
            /\ Cardinality(batch) <= Total(bulk[b].request) - bulk[b].processed
        BY <4>1 DEF Batch
      <4>4. Total(bulk'[b].request) = Total(bulk[b].request)
        BY <4>3
      <4> QED
        BY <4>2, <4>3, <4>4
    <3>3. CASE BulkFails(b)
      <4>1. bulk[b].request \in Requests /\ bulk'[b].request = bulk[b].request
            /\ bulk'[b].processed = 0
        BY <3>3, Bulk, FailBulk
      <4>2. Total(bulk'[b].request) \in Nat
        BY <4>1, Totals
      <4> QED
        BY <4>1, <4>2
    <3> QED
      BY <1>3, <3>1, <3>2, <3>3
  <2>2. /\ bulk' \in [Bulks -> BulkRecord]
        /\ \A c \in Bulks \ {b} : bulk'[c] = bulk[c]
    BY <1>3 DEF BulkTypes
  <2> QED
    BY <1>1, <2>1, <2>2 DEF BulkTypes
<1> QED
  BY <1>2, <1>3, BulkSteps

\* And what they have left to do.
LEMMA BulkNext ==
  ASSUME RowInv, RowInv', BulkTypes, BulkInv, BulkReaches, Step, Histories
  PROVE  BulkInv' /\ BulkReaches'
<1> DEFINE Going(b) == /\ bulk'[b].hit \subseteq bulk'[b].want
                       /\ Matching(bulk[b].request)' = bulk'[b].want \ bulk'[b].hit
                       /\ bulk'[b].processed <= Cardinality(bulk'[b].hit)
                       /\ bulk'[b].processed < Total(bulk'[b].request)
           Kept(b) == b \notin disturbed' /\ SelfExcluding(bulk'[b].request)
<1>1. /\ disturbed \subseteq disturbed'
      /\ \A b \in Bulks : b \in disturbed' \/ bulk[b].pc # "run" \/ bulk'[b] # bulk[b] \/ Unmoved
  BY DEF Histories, Disturbs
<1>2. ASSUME NEW b \in Bulks
      PROVE  /\ Kept(b) /\ bulk'[b].pc = "run" => Going(b)
             /\ /\ bulk'[b].pc = "done" /\ Kept(b)
                /\ Total(bulk'[b].request) >= Cardinality(bulk'[b].want)
                => bulk'[b].want \subseteq bulk'[b].hit
  <2>1. CASE bulk'[b] = bulk[b]
    BY <1>1, <2>1, OtherBulk
  <2>2. ASSUME NEW request \in Requests, HandleBulkAction(b, request) PROVE Kept(b) => Going(b)
    <3>1. /\ bulk'[b].request = request /\ bulk'[b].processed = 0
          /\ bulk'[b].hit = {} /\ bulk'[b].want = Matching(request) /\ row' = row
      BY <2>2, HandleBulk
    <3>2. Matching(bulk[b].request)' = Matching(request)
      BY <3>1 DEF Matching, Filter, Present
    <3>3. Cardinality(bulk'[b].hit) = 0 /\ Total(bulk'[b].request) > 0
      BY <3>1, Totals, FS_EmptySet
    <3> QED
      BY <3>1, <3>2, <3>3
  <2>3. CASE UpdateBatch(b)
    <3>1. bulk'[b].request = bulk[b].request
      BY <2>3, BatchFacts DEF Batch
    <3> QED
      BY <1>1, <2>3, <3>1, BatchReaches
  <2>4. CASE BulkFails(b)
    <3>1. /\ bulk'[b].request = bulk[b].request /\ bulk'[b].processed = 0
          /\ bulk'[b].want = bulk[b].want /\ bulk'[b].hit = bulk[b].hit /\ row' = row
          /\ bulk[b].pc = "run" /\ bulk'[b].pc # "done"
      BY <2>4, FailBulk
    <3>2. Matching(bulk[b].request)' = Matching(bulk[b].request)
      BY <3>1 DEF Matching, Filter, Present
    <3>3. Total(bulk'[b].request) > 0 /\ Cardinality(bulk'[b].hit) \in Nat
      BY <3>1, Bulk, Totals, Counts
    <3> QED
      BY <1>1, <3>1, <3>2, <3>3 DEF BulkInv
  <2>5. \/ bulk'[b] = bulk[b]
        \/ \E request \in Requests : HandleBulkAction(b, request)
        \/ UpdateBatch(b) \/ BulkFails(b)
    BY BulkSteps DEF BulkTypes
  <2>6. ASSUME NEW request \in Requests, HandleBulkAction(b, request) PROVE bulk'[b].pc = "run"
    BY <2>6, HandleBulk
  <2> QED
    BY <2>1, <2>2, <2>3, <2>4, <2>5, <2>6
<1> QED
  BY <1>2 DEF BulkInv, BulkReaches


-----------------------------------------------------------------------------
(* The client's walk, and the invariant.                                   *)

\* A step is a page, or leaves the walk alone.
LEMMA StepWalks == ASSUME Step PROVE NextPage \/ walk' = walk
<1>1. CASE \E e \in Editors : EditItem(e)
  BY <1>1 DEF EditItem, GetByID, SetLinkArchived, DeleteItem, UpdateItem, SaveBack
<1>2. CASE \E b \in Bulks : UpdateBatch(b) \/ BulkFails(b) \/ \E q \in Requests : HandleBulkAction(b, q)
  BY <1>2 DEF UpdateBatch, BulkFails, HandleBulkAction
<1>3. CASE (\E i \in Items : ApplyRules(i) \/ SaveItem(i)) \/ PruneTrash
  BY <1>3 DEF ApplyRules, SaveItem, PruneTrash
<1> QED
  BY <1>1, <1>2, <1>3 DEF Step

IndInv ==
  /\ RowInv /\ EditorInv /\ SyncInv /\ NoneDropped /\ FurthestKept
  /\ BulkTypes /\ BulkInv /\ BulkReaches /\ BinInv /\ TypeOKSearch /\ WalkInv /\ CastInv

\* The invariant holds at first,
LEMMA InitInv == Init => IndInv
<1> SUFFICES ASSUME Init PROVE IndInv
  OBVIOUS
<1> USE DEF Init
<1>1. RowInv
  <2>1. PICK scene \in Scenes : row = scene.library
    OBVIOUS
  <2>2. row \in [Items -> {r \in Row : r.deletedAt <= NumDays + 1} \cup {NoRow}]
    BY <2>1, LibraryAssumption
  <2>3. ASSUME NEW i \in Items PROVE row[i] \in AnyRow /\ row[i].deletedAt \in {Null} \cup 0..NumDays + 1
    <3>1. CASE row[i] = NoRow
      BY <3>1, RowTypes DEF AnyRow
    <3>2. CASE row[i] \in Row /\ row[i].deletedAt <= NumDays + 1
      BY <3>2, LibraryAssumption, RowTypes DEF AnyRow
    <3> QED
      BY <2>2, <3>1, <3>2
  <2> QED
    BY <2>2, <2>3 DEF RowInv
<1>2. EditorInv
  BY DEF EditorInv, EditorRecord, AnyRow
<1>3. SyncInv /\ NoneDropped /\ FurthestKept
  BY ReadPositionsAssumption
     DEF InitPositions, SyncInv, TypeOKPositions, SyncRecord, NoSync, NoneDropped, FurthestKept
<1>4. BulkTypes /\ BulkInv /\ BulkReaches
  BY DEF BulkTypes, BulkInv, BulkReaches, BulkRecord, NoBulk
<1>5. BinInv
  BY LibraryAssumption DEF BinInv, NotBinned
<1>6. TypeOKSearch /\ WalkInv /\ CastInv
  BY DEF InitSearch, TypeOKSearch, WalkInv, CastInv
<1> QED
  BY <1>1, <1>2, <1>3, <1>4, <1>5, <1>6 DEF IndInv

\* after a step of the program,
LEMMA StepNext == ASSUME IndInv, Step, BinChanges, Histories PROVE IndInv'
<1> USE DEF IndInv
<1>1. RowMoves /\ EditorInv'
  BY StepMoves
<1>2. RowInv' /\ BinInv'
  BY <1>1, RowNext, BinNext
<1>3. SyncInv' /\ NoneDropped'
  BY PositionsNext
<1>4. FurthestKept'
  BY FurthestNext
<1>5. BulkTypes' /\ BulkInv' /\ BulkReaches'
  BY <1>2, BulkTypesNext, BulkNext
<1>6. TypeOKSearch' /\ WalkInv' /\ CastInv'
  BY StepWalks, SearchNext, PageWalks, WalkStays DEF CastInv, Histories
<1> QED
  BY <1>1, <1>2, <1>3, <1>4, <1>5, <1>6

\* after a day,
LEMMA DayNext == ASSUME IndInv, DayPasses, Histories PROVE IndInv'
<1> USE DEF IndInv
<1>1. /\ RowInv' /\ BinInv' /\ Unmoved
      /\ \A i \in Items : row'[i].progress = row[i].progress /\ (row'[i] = NoRow <=> row[i] = NoRow)
  BY DayMoves DEF Unmoved
<1>2. UNCHANGED <<positionVars, walk, editor, bulk>>
  BY DEF DayPasses
<1>3. EditorInv' /\ SyncInv' /\ NoneDropped'
  BY <1>2, PositionsStay DEF EditorInv, positionVars, SyncInv, TypeOKPositions
<1>4. FurthestKept'
  BY <1>1, <1>2, ReadPositionsAssumption DEF FurthestKept, Present, positionVars
<1>5. BulkTypes'
  BY <1>2 DEF BulkTypes, Histories
<1>6. BulkInv' /\ BulkReaches'
  <2>1. /\ disturbed \subseteq disturbed'
        /\ \A b \in Bulks : bulk'[b] = bulk[b]
    BY <1>2 DEF Histories
  <2> QED
    BY <1>1, <1>2, <2>1, OtherBulk DEF BulkInv, BulkReaches
<1>7. TypeOKSearch' /\ WalkInv' /\ CastInv'
  BY <1>2, SearchNext, WalkStays DEF CastInv, Histories
<1> QED
  BY <1>1, <1>3, <1>4, <1>5, <1>6, <1>7

\* and when nothing happens.
LEMMA Stutter == ASSUME IndInv, UNCHANGED vars PROVE IndInv'
<1> USE DEF vars, positionVars, walkVars
<1>1. RowInv' /\ EditorInv' /\ BinInv' /\ CastInv'
  BY DEF IndInv, RowInv, EditorInv, BinInv, CastInv
<1>2. SyncInv' /\ NoneDropped' /\ FurthestKept' /\ TypeOKSearch'
  BY DEF IndInv, SyncInv, TypeOKPositions, NoneDropped, FurthestKept, Present, TypeOKSearch
<1>3. BulkTypes' /\ BulkInv' /\ BulkReaches'
  BY DEF IndInv, BulkTypes, BulkInv, BulkReaches, Matching, Filter, Present
<1>4. WalkInv'
  BY DEF IndInv, WalkInv, Ahead, Listed
<1> QED
  BY <1>1, <1>2, <1>3, <1>4 DEF IndInv

\* So every step keeps it.
LEMMA Inductive == IndInv /\ [Next]_vars => IndInv'
  BY StepNext, DayNext, Stutter DEF Next

\* What a call, a job or a walk has read, counted and promised so far, and
\* what others may have done to the rows since.
THEOREM Invariant == Spec => []IndInv
<1> QED
  BY InitInv, Inductive, PTL DEF Spec

\* The variables have their types, no deleted_at or time in the trash is
\* counted past the day an item is overdue, and no job counts more items than
\* its payload says (HandleBulkAction).
THEOREM TypeCorrect == Spec => []TypeOK
<1>1. IndInv => TypeOK
  <2> SUFFICES ASSUME IndInv PROVE TypeOK
    OBVIOUS
  <2>1. /\ row \in [Items -> Row \cup {NoRow}] /\ TypeOKPositions /\ TypeOKSearch
        /\ \A i \in Items : row[i].deletedAt \in {Null} \cup 0..NumDays + 1
        /\ disturbed \subseteq Bulks /\ \E scene \in Scenes : cast = scene.cast
        /\ bin \in [Items -> [by: {"none", "job", "api"}, days: 0..NumDays + 1]]
    BY DEF IndInv, RowInv, AnyRow, SyncInv, BulkTypes, CastInv, BinInv
  <2>2. \A e \in Editors : editor[e].pc \in {"begin", "read", "ended"}
                           /\ editor[e].seen \in Row \cup {NoRow}
    BY DEF IndInv, EditorInv, EditorRecord, AnyRow
  <2>3. ASSUME NEW b \in Bulks
        PROVE  /\ bulk[b].pc \in {"begin", "run", "done", "failed"}
               /\ bulk[b].pc # "begin" => bulk[b].processed \in 0..Total(bulk[b].request)
               /\ bulk[b].want \subseteq Items /\ bulk[b].hit \subseteq Items
    BY Bulk, Totals DEF IndInv, BulkRecord
  <2> QED
    BY <2>1, <2>2, <2>3 DEF TypeOK
<1> QED
  BY <1>1, Invariant, PTL

\* No position that was reported is lost before its update is committed,
\* however calls overlap, fail or die between SMEMBERS and SREM (syncReadKey).
THEOREM NoneDroppedCorrect == Spec => []NoneDropped
<1>1. IndInv => NoneDropped
  BY DEF IndInv
<1> QED
  BY <1>1, Invariant, PTL

\* The row stays at least as far as every position that was applied to it, in
\* each column that was not set to 0 or saved back, whatever edits, jobs, rules
\* and days come between (syncReadKey, UPDATE).
THEOREM FurthestKeptCorrect == Spec => []FurthestKept
<1>1. IndInv => FurthestKept
  BY DEF IndInv
<1> QED
  BY <1>1, Invariant, PTL

\* A bulk action whose update makes its own filter false reaches everything it
\* matched, for every batch size, count and sequence of failures, when nobody
\* else moves items (bulkArchive, bulkDelete, bulkMoveToFolder).
THEOREM BulkReachesCorrect == Spec => []BulkReaches
<1>1. IndInv => BulkReaches
  BY DEF IndInv
<1> QED
  BY <1>1, Invariant, PTL

\* An item is pruned only from the trash and, when a job put it there, only
\* after more than numDays days (HandlePruneTrash, bulkDelete).
THEOREM TrashWaitsCorrect == Spec => TrashWaits
<1> DEFINE Waits == \A i \in Items :
                      Pruned(i) => row[i].state = "DELETED" /\ (bin[i].by = "job" => bin[i].days > NumDays)
<1>1. IndInv /\ [Next]_vars => [Waits]_vars
  <2> SUFFICES ASSUME IndInv, Next PROVE Waits
    OBVIOUS
  <2>1. CASE Step
    BY <2>1, StepMoves, PrunedOld DEF IndInv
  <2>2. CASE DayPasses
    BY <2>2, DayMoves DEF IndInv, Pruned, Present
  <2> QED
    BY <2>1, <2>2 DEF Next
<1> QED
  BY <1>1, Invariant, PTL DEF Spec, TrashWaits

\* A walk to the last page shows every item that stayed listed, and no item
\* twice unless one came: for any number of items and any size of page, by
\* counting what is ranked ahead of an item (Search).
THEOREM WalkExactCorrect == Spec => []WalkExact
<1>1. IndInv => WalkExact
  BY DEF IndInv, WalkInv, WalkExact
<1> QED
  BY <1>1, Invariant, PTL
=============================================================================
