---------------------------- MODULE ReadPositions ----------------------------
(***************************************************************************)
(* How far one user has read one item (internal/jobs/sync_read_positions). *)
(* Clients' positions are collected in a Redis set; sync-read-positions    *)
(* jobs read the set, write the furthest position to the row of the item   *)
(* and remove the members they read.                                       *)
(*                                                                         *)
(* A step is one command to Redis or one transaction, with the code before *)
(* the next one.  Module Library adds those who delete the row or write    *)
(* the same columns, and says who takes part in a behaviour.               *)
(***************************************************************************)
EXTENDS LibraryItem

CONSTANTS
  Tracked,   \* the item
  Entries,   \* members: the positions that are ever reported, with their times
  Garbled,   \* members that are no JSON
  At,        \* the position in each of the others
  Syncs,     \* syncReadKey calls for this key
  MaxFaults  \* bound: failing statements and commands, and killed jobs

ASSUME ReadPositionsAssumption ==
  /\ Tracked \in Items
  /\ Garbled \subseteq Entries
  /\ At \in [Entries -> Position]
  /\ \A e \in Entries : At[e].top <= 100 /\ At[e].bottom <= 100
  /\ MaxFaults \in Nat

VARIABLES
  key,       \* omnivore:reading-progress:<user>:<item>
  aged,      \* members that are 60 s old
  sync,      \* [pc, read] of each call
  posted,    \* history: members that were added
  applied,   \* history: members whose update was committed
  restarted, \* history: columns that were set to 0, or saved back as read before
  faults     \* bound counter

positionVars == <<key, aged, sync, posted, applied, restarted, faults>>

NoSync == [pc |-> "scan", read |-> {}]

TypeOKPositions ==
  /\ key \subseteq Entries
  /\ {aged, applied} \subseteq SUBSET posted /\ posted \subseteq Entries
  /\ sync \in [Syncs -> [pc: {"scan", "update", "remove"}, read: SUBSET Entries]]
  /\ restarted \subseteq {"top", "bottom"}
  /\ faults \in 0..MaxFaults

InitPositions ==
  /\ key = {}
  /\ aged = {}
  /\ sync = [s \in Syncs |-> NoSync]
  /\ posted = {}
  /\ applied = {}
  /\ restarted = {}
  /\ faults = 0

-----------------------------------------------------------------------------
\* A client reports a position.
Post(e) ==
  /\ e \notin posted
  /\ key' = key \cup {e}
  /\ posted' = posted \cup {e}
  /\ UNCHANGED <<row, aged, sync, applied, restarted, faults>>

MinutePasses ==
  /\ aged # posted
  /\ aged' = posted
  /\ UNCHANGED <<row, key, sync, posted, applied, restarted, faults>>

Valid(read) == read \ Garbled

\* SMEMBERS.  Nothing is done for a set without valid members, or while the
\* youngest of them is fresh.
ReadMembers(s) ==
  /\ sync[s].pc = "scan"
  /\ Valid(key) # {}
  /\ Valid(key) \subseteq aged
  /\ sync' = [sync EXCEPT ![s] = [pc |-> "update", read |-> key]]
  /\ UNCHANGED <<row, key, aged, posted, applied, restarted, faults>>

\* One column of the furthest position: 0 or the greatest of the values.
IsFurthest(n, values) ==
  /\ n \in values \cup {0}
  /\ \A v \in values : v <= n

\* topPercent, bottomPercent and anchorIndex.
Furthest(read) ==
  LET tops == {At[e].top : e \in Valid(read)}
      bottoms == {At[e].bottom : e \in Valid(read)}
      anchors == {At[e].anchor : e \in Valid(read)}
  IN {p \in [top: tops \cup {0}, bottom: bottoms \cup {0}, anchor: anchors \cup {0}] :
        /\ IsFurthest(p.top, tops)
        /\ IsFurthest(p.bottom, bottoms)
        /\ IsFurthest(p.anchor, anchors)}

\* CASE WHEN measure < new THEN new WHEN new = 0 THEN 0 ELSE old END.
Forward(measure, old, new) ==
  CASE measure < new -> new
    [] measure >= new /\ new = 0 -> 0
    [] OTHER -> old

\* A bug: the last update wins.
LastWins(old, new) == new

\* The anchor is measured against the percentage.
Merged(old, new) ==
  [top    |-> Forward(old.top, old.top, new.top),
   bottom |-> Forward(old.bottom, old.bottom, new.bottom),
   anchor |-> Forward(old.top, old.anchor, new.anchor)]

\* The WHERE of the UPDATE.
Matches(old, new) ==
  \/ old.top < new.top \/ new.top = 0
  \/ old.bottom < new.bottom \/ new.bottom = 0
  \/ old.anchor < new.anchor \/ new.anchor = 0

UpdateProgress(s) ==
  /\ sync[s].pc = "update"
  /\ \E new \in Furthest(sync[s].read) :
       /\ row' = IF Present(Tracked) /\ Matches(row[Tracked].progress, new)
                   THEN [row EXCEPT ![Tracked].progress = Merged(@, new)]
                   ELSE row
       /\ restarted' = restarted \cup (IF new.top = 0 THEN {"top"} ELSE {})
                                 \cup (IF new.bottom = 0 THEN {"bottom"} ELSE {})
  /\ applied' = applied \cup sync[s].read
  /\ sync' = [sync EXCEPT ![s].pc = "remove"]
  /\ UNCHANGED <<key, aged, posted, faults>>

\* A bug: DEL of the key.
DeleteKey(s) ==
  /\ sync[s].pc = "remove"
  /\ key' = {}
  /\ sync' = [sync EXCEPT ![s] = NoSync]
  /\ UNCHANGED <<row, aged, posted, applied, restarted, faults>>

\* SREM of the members that were read.
RemoveMembers(s) ==
  /\ sync[s].pc = "remove"
  /\ key' = key \ sync[s].read
  /\ sync' = [sync EXCEPT ![s] = NoSync]
  /\ UNCHANGED <<row, aged, posted, applied, restarted, faults>>

\* The transaction fails, SREM fails, or the worker is killed: the members
\* stay for the next call.
SyncFails(s) ==
  /\ sync[s].pc # "scan"
  /\ faults < MaxFaults
  /\ faults' = faults + 1
  /\ sync' = [sync EXCEPT ![s] = NoSync]
  /\ UNCHANGED <<row, key, aged, posted, applied, restarted>>

SyncReadKey(s) == ReadMembers(s) \/ UpdateProgress(s) \/ RemoveMembers(s)

ReadingStep ==
  \/ \E e \in Entries : Post(e)
  \/ MinutePasses
  \/ \E s \in Syncs : SyncReadKey(s) \/ SyncFails(s)

-----------------------------------------------------------------------------
\* A position that was reported is in the set until its update is committed,
\* however calls overlap, fail or die between SMEMBERS and SREM and whatever
\* is added meanwhile (syncReadKey).
NoneDropped == posted \subseteq key \cup applied \cup Garbled

\* The row is at least as far as every position that was applied to it, in any
\* order and any number of times, in each column that has not been set to 0
\* or saved back since (syncReadKey, UPDATE).
FurthestKept ==
  \A e \in applied \ Garbled :
    Present(Tracked) =>
      /\ "top" \notin restarted => row[Tracked].progress.top >= At[e].top
      /\ "bottom" \notin restarted => row[Tracked].progress.bottom >= At[e].bottom

=============================================================================
