-------------------------------- MODULE Search --------------------------------
(***************************************************************************)
(* A client walks through the pages of a search (SearchService.Search)     *)
(* while the library changes: pages by offset, newest first.               *)
(***************************************************************************)
EXTENDS LibraryItem, FiniteSets

CONSTANTS
  SavedAt,   \* the saved_at of each item
  PageSize   \* first, at most 100

ASSUME SearchAssumption ==
  /\ IsFiniteSet(Items)
  /\ SavedAt \in [Items -> Nat]
  /\ PageSize \in 1..100

VARIABLES
  walk,  \* [pc, offset] of the client's walk, and what it has seen
  came,  \* history: items that were listed anew during the walk
  left   \* history: items that were listed no more

walkVars == <<walk, came, left>>

TypeOKSearch ==
  /\ walk \in [pc: {"begin", "next", "ended"}, offset: Nat, start: SUBSET Items,
               got: SUBSET Items, twice: BOOLEAN]
  /\ came \subseteq Items /\ left \subseteq Items

InitSearch ==
  /\ walk = [pc |-> "begin", offset |-> 0, start |-> {}, got |-> {}, twice |-> FALSE]
  /\ came = {}
  /\ left = {}

\* The search without a query: what is neither archived nor in the trash, in
\* the inbox.
Listed == {i \in Items : row[i].state = "SUCCEEDED" /\ row[i].folder = "inbox"}

\* ORDER BY saved_at DESC: items with one saved_at come in any order.
Orders(listed) ==
  {rank \in [listed -> 1..Cardinality(listed)] :
     \A i, j \in listed :
       i # j => /\ rank[i] # rank[j]
                /\ SavedAt[i] > SavedAt[j] => rank[i] < rank[j]}

\* A bug: the row that tells whether there is a next page is counted.
EndCursorOfAll(offset, n) == offset + (IF n > offset + PageSize THEN PageSize + 1 ELSE PageSize)

\* endCursor and hasNextPage of the page at an offset of n rows.
EndCursor(offset, n) ==
  IF n > offset + PageSize THEN offset + PageSize ELSE IF n > offset THEN n ELSE offset

HasNextPage(offset, n) == n > offset + PageSize

\* One page; COUNT and SELECT are one transaction.
NextPage ==
  /\ walk.pc # "ended"
  /\ \E rank \in Orders(Listed) :
       LET n == Cardinality(Listed)
           page == {i \in Listed : walk.offset < rank[i] /\ rank[i] <= walk.offset + PageSize}
       IN walk' = [pc     |-> IF HasNextPage(walk.offset, n) THEN "next" ELSE "ended",
                   offset |-> EndCursor(walk.offset, n),
                   start  |-> IF walk.pc = "begin" THEN Listed ELSE walk.start,
                   got    |-> walk.got \cup page,
                   twice  |-> walk.twice \/ walk.got \cap page # {}]
  /\ UNCHANGED row

\* What the listing gains and loses in a step while the walk goes on.
ListingChanges ==
  IF walk.pc = "next" THEN /\ came' = came \cup (Listed' \ Listed)
                           /\ left' = left \cup (Listed \ Listed')
                      ELSE UNCHANGED <<came, left>>

TieFree == \A i, j \in Items : i # j => SavedAt[i] # SavedAt[j]

-----------------------------------------------------------------------------
\* A walk to the last page shows every item that was listed when it began, if
\* no item leaves the listing meanwhile and no two share a saved_at: new items
\* and restored ones may push items to later pages only.  And no item is shown
\* on two pages unless one is listed anew meanwhile: items that are archived,
\* deleted or pruned pull the others to earlier pages only (Search).
WalkExact ==
  TieFree =>
    /\ walk.pc = "ended" /\ left = {} => walk.start \subseteq walk.got
    /\ came = {} => ~walk.twice

=============================================================================
