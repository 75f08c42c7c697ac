----------------------------- MODULE SearchProofs -----------------------------
(***************************************************************************)
(* What a page, and a change of the listing, do to a client's walk, for    *)
(* any items, dates and sizes of page.  Module LibraryProofs draws on it.  *)
(***************************************************************************)
EXTENDS Search, FiniteSetTheorems, TLAPS

\* Sets of items are finite.
LEMMA Counts ==
  ASSUME NEW A \in SUBSET Items
  PROVE  IsFiniteSet(A) /\ Cardinality(A) \in Nat /\ (Cardinality(A) = 0 <=> A = {})
<1>1. IsFiniteSet(A)
  BY SearchAssumption, FS_Subset
<1> QED
  BY <1>1, FS_CardinalityType, FS_EmptySet

\* The types of the walk.
LEMMA SearchNext ==
  ASSUME TypeOKSearch, ListingChanges, NextPage \/ walk' = walk
  PROVE  TypeOKSearch'
<1>1. Listed \in SUBSET Items /\ Listed' \in SUBSET Items
  BY DEF Listed
<1>2. came' \subseteq Items /\ left' \subseteq Items
  BY <1>1 DEF ListingChanges, TypeOKSearch
<1>3. CASE NextPage
  <2>1. PICK rank \in Orders(Listed) :
          LET n == Cardinality(Listed)
              page == {i \in Listed : walk.offset < rank[i] /\ rank[i] <= walk.offset + PageSize}
          IN walk' = [pc     |-> IF HasNextPage(walk.offset, n) THEN "next" ELSE "ended",
                      offset |-> EndCursor(walk.offset, n),
                      start  |-> IF walk.pc = "begin" THEN Listed ELSE walk.start,
                      got    |-> walk.got \cup page,
                      twice  |-> walk.twice \/ walk.got \cap page # {}]
    BY <1>3 DEF NextPage
  <2> DEFINE n == Cardinality(Listed)
             page == {i \in Listed : walk.offset < rank[i] /\ rank[i] <= walk.offset + PageSize}
             pc == IF HasNextPage(walk.offset, n) THEN "next" ELSE "ended"
             start == IF walk.pc = "begin" THEN Listed ELSE walk.start
             twice == walk.twice \/ walk.got \cap page # {}
  <2>2. n \in Nat /\ PageSize \in Nat /\ walk.offset \in Nat
    BY <1>1, Counts, SearchAssumption DEF TypeOKSearch
  <2>3. EndCursor(walk.offset, n) \in Nat
    BY <2>2 DEF EndCursor
  <2>4. start \in SUBSET Items /\ walk.got \cup page \in SUBSET Items
    BY <1>1 DEF TypeOKSearch
  <2>5. pc \in {"begin", "next", "ended"} /\ twice \in BOOLEAN
    BY Zenon DEF TypeOKSearch
  <2>6. walk' = [pc |-> pc, offset |-> EndCursor(walk.offset, n), start |-> start,
                 got |-> walk.got \cup page, twice |-> twice]
    BY <2>1, Zenon
  <2> HIDE DEF n, page, pc, start, twice
  <2> QED
    BY <1>2, <2>3, <2>4, <2>5, <2>6 DEF TypeOKSearch
<1> QED
  BY <1>2, <1>3 DEF TypeOKSearch

-----------------------------------------------------------------------------
(* The walk: what is ranked ahead of an item.                              *)

Ahead(listed, i) == {j \in listed : SavedAt[j] >= SavedAt[i]}

\* Values of a set that are told apart by numbers from a to b are at most as many.
LEMMA Fits ==
  ASSUME NEW A \in SUBSET Items, NEW a \in Nat, NEW b \in Nat, a <= b + 1,
         NEW f, \A i \in A : f[i] \in a..b, \A i, j \in A : i # j => f[i] # f[j]
  PROVE  Cardinality(A) <= b - a + 1
<1> DEFINE g == [i \in A |-> f[i]]
<1>1. IsFiniteSet(A) /\ Cardinality(A) \in Nat
  BY Counts
<1>2. IsFiniteSet(a..b) /\ Cardinality(a..b) = b - a + 1
  BY FS_Interval
<1>3. g \in [A -> a..b]
  OBVIOUS
<1>4. ASSUME Cardinality(a..b) < Cardinality(A) PROVE FALSE
  <2> DEFINE T == a..b
  <2>0. IsFiniteSet(T) /\ Cardinality(T) < Cardinality(A) /\ g \in [A -> T]
    BY <1>2, <1>3, <1>4
  <2> HIDE DEF g, T
  <2>1. \E x, y \in A : x # y /\ g[x] = g[y]
    BY <1>1, <2>0, FS_PigeonHole
  <2> USE DEF g
  <2> QED
    BY <2>1
<1> QED
  BY <1>1, <1>2, <1>4

\* An item's rank is the number of items up to it.
LEMMA RankCounts ==
  ASSUME TieFree, NEW listed \in SUBSET Items, NEW rank \in Orders(listed), NEW i \in listed
  PROVE  /\ rank[i] = Cardinality(Ahead(listed, i))
         /\ rank[i] \in 1..Cardinality(listed)
<1> DEFINE n == Cardinality(listed)
           ahead == Ahead(listed, i)
           behind == listed \ ahead
<1>1. /\ rank \in [listed -> 1..n] /\ rank[i] \in 1..n
      /\ \A j, k \in listed : j # k => /\ rank[j] # rank[k]
                                       /\ SavedAt[j] > SavedAt[k] => rank[j] < rank[k]
  BY DEF Orders
<1>2. n \in Nat /\ rank[i] \in Nat /\ rank[i] >= 1 /\ rank[i] <= n
  BY <1>1, Counts
<1>3. ahead \in SUBSET Items /\ behind \in SUBSET Items /\ ahead \in SUBSET listed
  BY DEF Ahead
<1>4. \A j \in listed : SavedAt[j] \in Nat /\ rank[j] \in 1..n
  BY <1>1, SearchAssumption
<1>5. \A j \in ahead : rank[j] \in 1..rank[i]
  <2>1. \A j \in ahead : j = i \/ SavedAt[j] > SavedAt[i]
    BY <1>4 DEF Ahead, TieFree
  <2> QED
    BY <1>1, <1>2, <1>3, <1>4, <2>1
<1>6. \A j \in behind : rank[j] \in (rank[i] + 1)..n
  <2>1. \A j \in behind : j \in listed /\ j # i /\ SavedAt[i] > SavedAt[j]
    BY <1>4 DEF Ahead
  <2> HIDE DEF behind
  <2> QED
    BY <1>1, <1>2, <1>4, <2>1
<1>7. Cardinality(ahead) <= rank[i] - 1 + 1
  <2>1. \A j, k \in ahead : j # k => rank[j] # rank[k]
    BY <1>1, <1>3
  <2> HIDE DEF ahead
  <2> QED
    BY <1>2, <1>3, <1>5, <2>1, Fits
<1>8. Cardinality(behind) <= n - (rank[i] + 1) + 1
  <2>1. \A j, k \in behind : j # k => rank[j] # rank[k]
    BY <1>1
  <2> HIDE DEF behind
  <2> QED
    BY <1>2, <1>3, <1>6, <2>1, Fits
<1>9. Cardinality(behind) = n - Cardinality(ahead)
  <2>1. listed \cap ahead = ahead /\ IsFiniteSet(listed)
    BY <1>3, Counts
  <2> QED
    BY <2>1, FS_Difference
<1> QED
  BY <1>1, <1>2, <1>3, <1>7, <1>8, <1>9, Counts

\* More listed items, more ahead.
LEMMA AheadGrows ==
  ASSUME NEW few \in SUBSET Items, NEW many \in SUBSET Items, few \subseteq many, NEW i \in Items
  PROVE  /\ Cardinality(Ahead(few, i)) \in Nat /\ Cardinality(Ahead(many, i)) \in Nat
         /\ Cardinality(Ahead(few, i)) <= Cardinality(Ahead(many, i))
<1>1. /\ Ahead(few, i) \in SUBSET Items /\ Ahead(many, i) \in SUBSET Items
      /\ Ahead(few, i) \in SUBSET Ahead(many, i)
  BY DEF Ahead
<1> QED
  BY <1>1, Counts, FS_Subset

\* While nothing leaves the listing, what the walk has to show is further than
\* its offset; while nothing comes, what it has shown is not.
WalkInv ==
  TieFree =>
    /\ walk.pc = "begin" => walk.offset = 0 /\ walk.got = {}
    /\ left = {} /\ walk.pc = "next" =>
         /\ walk.start \subseteq Listed
         /\ \A i \in walk.start \ walk.got : Cardinality(Ahead(Listed, i)) > walk.offset
    /\ left = {} /\ walk.pc = "ended" => walk.start \subseteq walk.got
    /\ came = {} => ~walk.twice
    /\ came = {} /\ walk.pc = "next" =>
         \A i \in walk.got \cap Listed : Cardinality(Ahead(Listed, i)) <= walk.offset

\* The client takes a page.
LEMMA PageWalks ==
  ASSUME TypeOKSearch, WalkInv, NextPage, ListingChanges
  PROVE  WalkInv'
<1> SUFFICES ASSUME TieFree PROVE WalkInv'
  BY DEF WalkInv, TieFree
<1> DEFINE n == Cardinality(Listed)
<1>1. PICK rank \in Orders(Listed) :
        LET page == {i \in Listed : walk.offset < rank[i] /\ rank[i] <= walk.offset + PageSize}
        IN walk' = [pc     |-> IF HasNextPage(walk.offset, n) THEN "next" ELSE "ended",
                    offset |-> EndCursor(walk.offset, n),
                    start  |-> IF walk.pc = "begin" THEN Listed ELSE walk.start,
                    got    |-> walk.got \cup page,
                    twice  |-> walk.twice \/ walk.got \cap page # {}]
  BY DEF NextPage
<1> DEFINE page == {i \in Listed : walk.offset < rank[i] /\ rank[i] <= walk.offset + PageSize}
<1>2. /\ walk'.pc = IF HasNextPage(walk.offset, n) THEN "next" ELSE "ended"
      /\ walk'.offset = EndCursor(walk.offset, n)
      /\ walk'.start = IF walk.pc = "begin" THEN Listed ELSE walk.start
      /\ walk'.got = walk.got \cup page
      /\ walk'.twice = (walk.twice \/ walk.got \cap page # {})
  BY <1>1
<1>3. Listed' = Listed /\ came' = came /\ left' = left
  BY DEF NextPage, Listed, ListingChanges
<1>4. /\ Listed \in SUBSET Items /\ n \in Nat /\ PageSize \in Nat /\ walk.offset \in Nat
      /\ walk.pc \in {"begin", "next"}
  <2>1. Listed \in SUBSET Items
    BY DEF Listed
  <2> QED
    BY <2>1, Counts, SearchAssumption DEF TypeOKSearch, NextPage
<1>5. \A i \in Listed : /\ rank[i] = Cardinality(Ahead(Listed, i))
                        /\ rank[i] \in Nat /\ 1 <= rank[i] /\ rank[i] <= n
  BY <1>4, RankCounts
<1>6. \A i \in Listed : Cardinality(Ahead(Listed, i))' = Cardinality(Ahead(Listed, i))
  BY <1>3 DEF Ahead
<1>7. /\ walk'.pc = "next" => walk'.offset = walk.offset + PageSize
      /\ walk'.pc = "ended" => n <= walk.offset + PageSize
      /\ walk'.pc \in {"next", "ended"}
  BY <1>2, <1>4 DEF HasNextPage, EndCursor
<1> HIDE DEF n
<1>8. ASSUME left = {}
      PROVE  /\ walk'.start \subseteq Listed
             /\ \A i \in walk'.start \ walk'.got : rank[i] > walk.offset + PageSize
  <2>1. walk'.start \subseteq Listed
    BY <1>2, <1>4, <1>8 DEF WalkInv
  <2>2. \A i \in walk'.start \ walk.got : rank[i] > walk.offset
    BY <1>2, <1>4, <1>5, <1>8, <2>1 DEF WalkInv
  <2> QED
    BY <1>2, <1>4, <1>5, <2>1, <2>2
<1>9. ASSUME came = {} PROVE walk.got \cap page = {}
  <2>1. \A i \in walk.got \cap Listed : rank[i] <= walk.offset
    BY <1>4, <1>5, <1>9 DEF WalkInv
  <2> QED
    BY <1>4, <1>5, <2>1
<1>10. ASSUME came = {} PROVE \A i \in walk'.got \cap Listed : rank[i] <= walk.offset + PageSize
  <2>1. \A i \in walk.got \cap Listed : rank[i] <= walk.offset
    BY <1>4, <1>5, <1>10 DEF WalkInv
  <2> QED
    BY <1>2, <1>4, <1>5, <2>1
<1>11. left' = {} /\ walk'.pc = "next" =>
         /\ walk'.start \subseteq Listed'
         /\ \A i \in walk'.start \ walk'.got : Cardinality(Ahead(Listed, i))' > walk'.offset
  BY <1>3, <1>5, <1>6, <1>7, <1>8
<1>12. left' = {} /\ walk'.pc = "ended" => walk'.start \subseteq walk'.got
  BY <1>3, <1>4, <1>5, <1>7, <1>8
<1>13. came' = {} => ~walk'.twice
  BY <1>2, <1>3, <1>9 DEF WalkInv
<1>14. came' = {} /\ walk'.pc = "next" =>
         \A i \in walk'.got \cap Listed' : Cardinality(Ahead(Listed, i))' <= walk'.offset
  BY <1>3, <1>5, <1>6, <1>7, <1>10
<1> QED
  BY <1>7, <1>11, <1>12, <1>13, <1>14 DEF WalkInv

\* The listing changes between two pages.
LEMMA WalkStays ==
  ASSUME TypeOKSearch, WalkInv, walk' = walk, ListingChanges
  PROVE  WalkInv'
<1> SUFFICES ASSUME TieFree PROVE WalkInv'
  BY DEF WalkInv, TieFree
<1>1. /\ Listed \in SUBSET Items /\ Listed' \in SUBSET Items /\ walk.offset \in Nat
      /\ walk.start \subseteq Items /\ walk.got \subseteq Items
  BY DEF Listed, TypeOKSearch
<1>2. left' = {} => left = {} /\ (walk.pc = "next" => Listed \subseteq Listed')
  BY DEF ListingChanges
<1>3. came' = {} => came = {} /\ (walk.pc = "next" => Listed' \subseteq Listed)
  BY DEF ListingChanges
<1>4. \A i \in Items : Cardinality(Ahead(Listed, i))' = Cardinality(Ahead(Listed', i))
  BY DEF Ahead
<1>5. ASSUME left' = {}, walk.pc = "next"
      PROVE  /\ walk.start \subseteq Listed'
             /\ \A i \in walk.start \ walk.got : Cardinality(Ahead(Listed, i))' > walk.offset
  <2>1. \A i \in walk.start \ walk.got : /\ Cardinality(Ahead(Listed, i)) > walk.offset
                                        /\ i \in Items
    BY <1>1, <1>2, <1>5 DEF WalkInv
  <2>2. \A i \in Items : /\ Cardinality(Ahead(Listed, i)) \in Nat
                         /\ Cardinality(Ahead(Listed', i)) \in Nat
                         /\ Cardinality(Ahead(Listed, i)) <= Cardinality(Ahead(Listed', i))
    BY <1>1, <1>2, <1>5, AheadGrows
  <2>3. \A i \in walk.start \ walk.got : Cardinality(Ahead(Listed, i))' > walk.offset
    BY <1>1, <1>4, <2>1, <2>2
  <2> QED
    BY <1>2, <1>5, <2>3 DEF WalkInv
<1>6. ASSUME came' = {}, walk.pc = "next"
      PROVE  \A i \in walk.got \cap Listed' : Cardinality(Ahead(Listed, i))' <= walk.offset
  <2>1. \A i \in walk.got \cap Listed' : /\ Cardinality(Ahead(Listed, i)) <= walk.offset
                                        /\ i \in Items
    BY <1>1, <1>3, <1>6 DEF WalkInv
  <2>2. \A i \in Items : /\ Cardinality(Ahead(Listed, i)) \in Nat
                         /\ Cardinality(Ahead(Listed', i)) \in Nat
                         /\ Cardinality(Ahead(Listed', i)) <= Cardinality(Ahead(Listed, i))
    BY <1>1, <1>3, <1>6, AheadGrows
  <2> QED
    BY <1>1, <1>4, <2>1, <2>2
<1> QED
  BY <1>2, <1>3, <1>5, <1>6 DEF WalkInv

=============================================================================
