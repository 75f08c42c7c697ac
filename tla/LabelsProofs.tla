----------------------------- MODULE LabelsProofs -----------------------------
(***************************************************************************)
(* What holds of module Labels for any labels, calls and jobs.             *)
(***************************************************************************)
EXTENDS Labels, TLAPS

Writers == Setters \cup Adders

Rows == Writers \X Creators

PCs == {"begin", "exists", "new", "error", "done", "deleting", "deleted", "inserted", "naming"}

CallRecord ==
  [pc: PCs, seen: SUBSET Rows, gone: SUBSET Rows,
   column: SUBSET Creators, unseen: SUBSET Callers]

Types ==
  /\ labels \subseteq Creators
  /\ rows \subseteq Rows
  /\ call \in [Callers -> CallRecord]

\* Who has created a label does not create it again.
MadeInv == \A l \in labels : call[l].pc = "done"

\* A row is of a label that exists and that its writer, which has committed,
\* was given; and so are all the others of its writer.
RowsInv ==
  \A r \in rows :
    /\ r[2] \in Wanted[r[1]] /\ r[2] \in labels
    /\ call[r[1]].pc = "done"
    /\ \A l \in Wanted[r[1]] : call[l].pc = "done" /\ (l \in labels => <<r[1], l>> \in rows)

\* A DELETE sees all the rows that are left of a writer, or none of them.
SeenInv ==
  \A d \in Callers : \A r \in call[d].seen :
    /\ call[r[1]].pc = "done"
    /\ \A q \in rows : q[1] = r[1] => q \in call[d].seen

\* So does it delete them, and they stay deleted for one transaction.
GoneInv ==
  \A d \in Callers :
    /\ call[d].gone \subseteq rows
    /\ \A r \in call[d].gone : \A q \in rows : q[1] = r[1] => q \in call[d].gone
    /\ \A e \in Callers : e # d => call[d].gone \cap call[e].gone = {}

\* The labels of rows that are not committed are there.
AddedInv ==
  \A c \in Writers : call[c].pc \in {"inserted", "naming"} => Wanted[c] \subseteq labels

\* What a call reads for label_names is what it will commit, unless rows were
\* committed since.
ColumnInv ==
  /\ \A c \in Callers : call[c].pc = "naming" /\ call[c].unseen = {} =>
                          call[c].column = LabelsOf(View(c))
  /\ \A c \in NameJobs : call[c].gone = {}

IndInv == Types /\ MadeInv /\ RowsInv /\ SeenInv /\ GoneInv /\ AddedInv /\ ColumnInv /\ NamesCurrent

USE LabelsAssumption DEF Callers, Writers

LEMMA RowParts ==
  ASSUME Types
  PROVE  /\ \A r \in rows : r[1] \in Writers /\ r[2] \in Creators
         /\ \A d \in Callers : \A r \in call[d].seen \cup call[d].gone : r[1] \in Writers
BY DEF Types, CallRecord, Rows

LEMMA InitInv == Init => IndInv
<1> SUFFICES ASSUME Init PROVE IndInv
  OBVIOUS
<1>1. Types
  BY DEF Init, Types, CallRecord, NewCall, PCs
<1>2. /\ labels = {} /\ rows = {} /\ names = {} /\ missed = {}
      /\ \A c \in Callers : /\ call[c].pc = "begin" /\ call[c].seen = {}
                            /\ call[c].gone = {} /\ call[c].column = {}
  BY DEF Init, NewCall
<1>3. MadeInv /\ RowsInv /\ SeenInv /\ GoneInv /\ AddedInv
  BY <1>2 DEF MadeInv, RowsInv, SeenInv, GoneInv, AddedInv
<1>4. ColumnInv /\ NamesCurrent
  BY <1>2 DEF ColumnInv, NamesCurrent, LabelsOf
<1> QED
  BY <1>1, <1>3, <1>4 DEF IndInv

\* The labels of the rows of a writer are those that it was given, or none.
LEMMA Whole == IndInv => LabelsWhole
<1> SUFFICES ASSUME IndInv, NEW c \in Writers, LabelsOf({r \in rows : r[1] = c}) # {}
             PROVE  LabelsOf({r \in rows : r[1] = c}) = Wanted[c] \cap labels
  BY DEF LabelsWhole
<1>1. PICK r \in rows : r[1] = c
  BY DEF LabelsOf
<1>2. \A l \in Wanted[c] \cap labels : <<c, l>> \in rows
  BY <1>1 DEF IndInv, RowsInv
<1>3. \A q \in rows : q[1] = c => q[2] \in Wanted[c] \cap labels
  BY DEF IndInv, RowsInv
<1>4. \A l \in Wanted[c] \cap labels : \E q \in rows : q[1] = c /\ q[2] = l
  BY <1>2
<1>5. LabelsOf({q \in rows : q[1] = c}) \subseteq Wanted[c] \cap labels
  BY <1>3 DEF LabelsOf
<1>6. Wanted[c] \cap labels \subseteq LabelsOf({q \in rows : q[1] = c})
  BY <1>4 DEF LabelsOf
<1> QED
  BY <1>5, <1>6

-----------------------------------------------------------------------------
(* Steps of a call that has not committed and changes no row.              *)

LEMMA PrivateParts ==
  ASSUME IndInv, NEW c \in Callers, NEW new \in CallRecord,
         call' = [call EXCEPT ![c] = new], UNCHANGED <<labels, rows>>,
         call[c].pc # "done",
         new.seen \in {{}, call[c].seen, rows},
         \/ new.gone \in {{}, call[c].gone}
         \/ /\ new.gone = call[c].seen \cap rows
            /\ \A d \in Callers : call[d].gone \cap call[c].seen = {},
         c \in Writers /\ new.pc \in {"inserted", "naming"} => Wanted[c] \subseteq labels,
         c \in NameJobs => new.gone = {},
         new.pc = "naming" /\ new.unseen = {} => new.column = LabelsOf(View(c))'
  PROVE  (Types /\ MadeInv /\ RowsInv /\ SeenInv /\ GoneInv /\ AddedInv /\ ColumnInv)'
<1> USE DEF IndInv
<1>1. call' \in [Callers -> CallRecord] /\ Types'
  BY DEF Types
<1>2. call'[c] = new /\ \A d \in Callers : d # c => call'[d] = call[d]
  BY DEF Types
<1>3. Creators \subseteq Callers /\ Writers \subseteq Callers /\ NameJobs \subseteq Callers
  OBVIOUS
<1>4. (MadeInv /\ RowsInv)'
  <2>1. \A d \in Callers : call[d].pc = "done" => call'[d].pc = "done"
    BY <1>2
  <2>2. MadeInv'
    BY <1>3, <2>1 DEF MadeInv, Types
  <2>3. RowsInv'
    <3> SUFFICES ASSUME NEW r \in rows, NEW l \in Wanted[r[1]]
                 PROVE  /\ r[2] \in Wanted[r[1]] /\ r[2] \in labels
                        /\ call'[r[1]].pc = "done" /\ call'[l].pc = "done"
                        /\ l \in labels => <<r[1], l>> \in rows
      BY <1>3 DEF RowsInv
    <3>1. r[1] \in Callers /\ l \in Callers
      BY <1>3, RowParts
    <3> QED
      BY <3>1, <2>1 DEF RowsInv
  <2> QED
    BY <2>2, <2>3
<1>5. SeenInv'
  BY <1>2, RowParts DEF SeenInv, RowsInv
<1>6. GoneInv'
  BY <1>2 DEF GoneInv, SeenInv
<1>7. AddedInv'
  BY <1>2, <1>3 DEF AddedInv
<1>8. ColumnInv'
  <2>1. \A d \in Callers : d # c => View(d)' = View(d)
    BY <1>2 DEF View, Added
  <2> QED
    BY <1>2, <1>3, <2>1 DEF ColumnInv, LabelsOf
<1> QED
  BY <1>1, <1>4, <1>5, <1>6, <1>7, <1>8

LEMMA PrivateInv ==
  ASSUME IndInv, NEW c \in Callers, NEW new \in CallRecord,
         call' = [call EXCEPT ![c] = new], UNCHANGED <<labels, rows, names, missed>>,
         call[c].pc # "done",
         new.seen \in {{}, call[c].seen, rows},
         \/ new.gone \in {{}, call[c].gone}
         \/ /\ new.gone = call[c].seen \cap rows
            /\ \A d \in Callers : call[d].gone \cap call[c].seen = {},
         c \in Writers /\ new.pc \in {"inserted", "naming"} => Wanted[c] \subseteq labels,
         c \in NameJobs => new.gone = {},
         new.pc = "naming" /\ new.unseen = {} => new.column = LabelsOf(View(c))'
  PROVE  IndInv'
<1>1. NamesCurrent'
  BY DEF IndInv, NamesCurrent, LabelsOf
<1> QED
  BY <1>1, PrivateParts DEF IndInv

LEMMA FindByNameInv == ASSUME IndInv, NEW c \in Creators, FindByName(c) PROVE IndInv'
<1> DEFINE new == [call[c] EXCEPT !.pc =
                     IF \E l \in labels : Fold[Name[l]] = Fold[Name[c]] THEN "exists" ELSE "new"]
<1>1. call[c] \in CallRecord
  BY DEF IndInv, Types
<1>2. new \in CallRecord /\ new.seen = call[c].seen /\ new.gone = call[c].gone
      /\ new.pc \in {"exists", "new"}
  BY <1>1 DEF CallRecord, PCs
<1>3. call' = [call EXCEPT ![c] = new]
  BY DEF FindByName
<1>4. c \in NameJobs => new.gone = {}
  BY <1>2 DEF IndInv, ColumnInv
<1>5. call[c].pc = "begin" /\ UNCHANGED <<labels, rows, names, missed>>
  BY DEF FindByName
<1> HIDE DEF new
<1> QED
  BY <1>2, <1>3, <1>4, <1>5, PrivateInv

\* The DELETE of SetLabels.
LEMMA BeginDeleteInv == ASSUME IndInv, NEW c \in Setters, BeginDelete(c) PROVE IndInv'
<1> DEFINE new == [call[c] EXCEPT !.pc = "deleting", !.seen = rows]
<1>1. call[c] \in CallRecord /\ rows \subseteq Rows
  BY DEF IndInv, Types
<1>2. new \in CallRecord /\ new.seen = rows /\ new.gone = call[c].gone /\ new.pc = "deleting"
  BY <1>1 DEF CallRecord, PCs
<1>3. call' = [call EXCEPT ![c] = new]
  BY DEF BeginDelete
<1> QED
  BY <1>2, <1>3, PrivateInv DEF BeginDelete

LEMMA DeleteLabelsInv == ASSUME IndInv, NEW c \in Setters, DeleteLabels(c) PROVE IndInv'
<1> DEFINE new == [call[c] EXCEPT !.pc = "deleted", !.seen = {},
                                  !.gone = call[c].seen \cap rows]
<1>1. call[c] \in CallRecord /\ rows \subseteq Rows
  BY DEF IndInv, Types
<1>2. new \in CallRecord /\ new.seen = {} /\ new.gone = call[c].seen \cap rows
      /\ new.pc = "deleted"
  BY <1>1 DEF CallRecord, PCs
<1>3. call' = [call EXCEPT ![c] = new]
  BY DEF DeleteLabels
<1> QED
  BY <1>2, <1>3, PrivateInv DEF DeleteLabels

\* A call ends without a trace.
LEMMA ErrorInv ==
  ASSUME IndInv, NEW c \in Callers, call[c].pc # "done",
         call' = [call EXCEPT ![c] = Done("error")], UNCHANGED <<labels, rows, names, missed>>
  PROVE  IndInv'
<1>1. Done("error") \in CallRecord /\ Done("error").seen = {} /\ Done("error").gone = {}
      /\ Done("error").pc = "error"
  BY DEF CallRecord, PCs, Done, NewCall
<1> QED
  BY <1>1, PrivateInv

LEMMA InsertLabelsInv == ASSUME IndInv, NEW c \in Writers, InsertLabels(c) PROVE IndInv'
<1> USE DEF InsertLabels
<1>1. CASE Wanted[c] \subseteq labels
  <2> DEFINE new == [call[c] EXCEPT !.pc = "inserted"]
  <2>1. call[c] \in CallRecord
    BY DEF IndInv, Types
  <2>2. new \in CallRecord /\ new.seen = call[c].seen /\ new.gone = call[c].gone
        /\ new.pc = "inserted"
    BY <2>1 DEF CallRecord, PCs
  <2>3. call' = [call EXCEPT ![c] = new]
    BY <1>1
  <2> QED
    BY <1>1, <2>2, <2>3, PrivateInv
<1>2. CASE ~(Wanted[c] \subseteq labels)
  <2>1. call' = [call EXCEPT ![c] = Done("error")]
    BY <1>2
  <2> QED
    BY <2>1, ErrorInv
<1> QED
  BY <1>1, <1>2

LEMMA ReadNamesInv == ASSUME IndInv, NEW c \in Setters \cup NameJobs, ReadNames(c) PROVE IndInv'
<1> DEFINE new == [call[c] EXCEPT !.pc = "naming", !.column = LabelsOf(View(c))]
<1>1. call[c] \in CallRecord /\ rows \subseteq Rows
  BY DEF IndInv, Types
<1>2. View(c) \subseteq Rows
  BY <1>1 DEF View, Added, Rows
<1>3. LabelsOf(View(c)) \subseteq Creators
  BY <1>2 DEF LabelsOf, Rows
<1>4. /\ new \in CallRecord /\ new.seen = call[c].seen /\ new.gone = call[c].gone
      /\ new.pc = "naming" /\ new.column = LabelsOf(View(c))
  BY <1>1, <1>3 DEF CallRecord, PCs
<1>5. call' = [call EXCEPT ![c] = new]
  BY DEF ReadNames
<1>6. View(c)' = View(c)
  <2>1. call'[c].gone = call[c].gone /\ call'[c].pc = "naming" /\ rows' = rows
    BY <1>4, <1>5 DEF IndInv, Types, ReadNames
  <2>2. c \in Writers => call[c].pc = "inserted"
    BY DEF ReadNames
  <2> QED
    BY <2>1, <2>2 DEF View, Added
<1>7. new.column = LabelsOf(View(c))'
  BY <1>4, <1>6 DEF LabelsOf
<1>8. /\ c \in Writers => Wanted[c] \subseteq labels
      /\ c \in NameJobs => new.gone = {}
  BY <1>4 DEF ReadNames, IndInv, AddedInv, ColumnInv
<1> QED
  BY <1>4, <1>5, <1>7, <1>8, PrivateInv DEF ReadNames

LEMMA CreateLabelInv == ASSUME IndInv, NEW c \in Creators, CreateLabel(c) PROVE IndInv'
<1> USE DEF CreateLabel
<1>1. CASE \E l \in labels : Name[l] = Name[c]
  BY <1>1, ErrorInv
<1>2. CASE ~\E l \in labels : Name[l] = Name[c]
  <2> USE DEF IndInv
  <2>1. /\ call' = [call EXCEPT ![c] = Done("done")] /\ labels' = labels \cup {c}
        /\ UNCHANGED <<rows, names, missed>> /\ call[c].pc = "new"
    BY <1>2
  <2>2. Done("done") \in CallRecord /\ Done("done").seen = {} /\ Done("done").gone = {}
        /\ Done("done").pc = "done"
    BY DEF CallRecord, PCs, Done, NewCall
  <2>3. Types'
    BY <2>1, <2>2 DEF Types
  <2>4. call'[c] = Done("done") /\ \A d \in Callers : d # c => call'[d] = call[d]
    BY <2>1 DEF Types
  <2>5. \A d \in Callers : call[d].pc = "done" => call'[d].pc = "done"
    BY <2>2, <2>4
  <2>6. MadeInv'
    BY <2>1, <2>2, <2>4, <2>5 DEF MadeInv, Types
  <2>7. RowsInv'
    <3> SUFFICES ASSUME NEW r \in rows, NEW l \in Wanted[r[1]]
                 PROVE  /\ r[2] \in Wanted[r[1]] /\ r[2] \in labels'
                        /\ call'[r[1]].pc = "done" /\ call'[l].pc = "done"
                        /\ l \in labels' => <<r[1], l>> \in rows
      BY <2>1 DEF RowsInv
    <3>1. r[1] \in Callers /\ l \in Callers
      BY RowParts
    <3>2. call[l].pc = "done" /\ call[r[1]].pc = "done"
      BY DEF RowsInv
    <3> QED
      BY <3>1, <3>2, <2>1, <2>5 DEF RowsInv
  <2>8. SeenInv'
    BY <2>1, <2>2, <2>4, <2>5, RowParts DEF SeenInv
  <2>9. (GoneInv /\ AddedInv)'
    BY <2>1, <2>2, <2>4 DEF GoneInv, AddedInv
  <2>10. ColumnInv'
    <3>1. \A d \in Callers : d # c => View(d)' = View(d)
      BY <2>1, <2>4 DEF View, Added
    <3> QED
      BY <2>2, <2>4, <3>1 DEF ColumnInv, LabelsOf
  <2>11. NamesCurrent'
    BY <2>1 DEF NamesCurrent, LabelsOf
  <2> QED
    BY <2>3, <2>6, <2>7, <2>8, <2>9, <2>10, <2>11
<1> QED
  BY <1>1, <1>2

-----------------------------------------------------------------------------
(* Commits.                                                                *)

\* What the other calls notice of a commit of rows.
LEMMA Published ==
  ASSUME Types, NEW who \in Callers, call' = Publish(who)
  PROVE  /\ call' \in [Callers -> CallRecord]
         /\ call'[who].pc = "done" /\ call'[who].seen = {} /\ call'[who].gone = {}
         /\ \A d \in Callers : d # who =>
              /\ call'[d].pc = call[d].pc /\ call'[d].seen = call[d].seen
              /\ call'[d].gone = call[d].gone /\ call'[d].column = call[d].column
         /\ \A d \in Callers : call'[d].pc = "naming" => call'[d].unseen # {}
         /\ \A d \in Callers : call[d].pc = "done" => call'[d].pc = "done"
<1>1. Done("done") \in CallRecord /\ Done("done").seen = {} /\ Done("done").gone = {}
      /\ Done("done").pc = "done"
  BY DEF CallRecord, PCs, Done, NewCall
<1>2. call'[who] = Done("done")
  BY DEF Publish
<1>3. \A d \in Callers : d # who =>
        /\ call'[d] \in CallRecord
        /\ call'[d].pc = call[d].pc /\ call'[d].seen = call[d].seen
        /\ call'[d].gone = call[d].gone /\ call'[d].column = call[d].column
        /\ call'[d].pc = "naming" => call'[d].unseen # {}
  <2> SUFFICES ASSUME NEW d \in Callers, d # who
               PROVE  /\ call'[d] \in CallRecord
                      /\ call'[d].pc = call[d].pc /\ call'[d].seen = call[d].seen
                      /\ call'[d].gone = call[d].gone /\ call'[d].column = call[d].column
                      /\ call'[d].pc = "naming" => call'[d].unseen # {}
    OBVIOUS
  <2>1. call[d] \in CallRecord
    BY DEF Types
  <2>2. call'[d] = [call[d] EXCEPT !.unseen = IF call[d].pc = "naming" THEN call[d].unseen \cup {who}
                                                                       ELSE call[d].unseen]
    BY DEF Publish
  <2>3. CASE call[d].pc = "naming"
    BY <2>1, <2>2, <2>3 DEF CallRecord
  <2>4. CASE call[d].pc # "naming"
    BY <2>1, <2>2, <2>4 DEF CallRecord
  <2> QED
    BY <2>3, <2>4
<1>4. call' = [d \in Callers |-> call'[d]]
  BY DEF Publish
<1>5. call' \in [Callers -> CallRecord]
  BY <1>1, <1>2, <1>3, <1>4
<1> QED
  BY <1>1, <1>2, <1>3, <1>5

\* The rows of a call that commits.
LEMMA CommitInv ==
  ASSUME IndInv, NEW c \in Writers, call[c].pc \in {"inserted", "naming"},
         rows' = View(c), call' = Publish(c), labels' = labels
  PROVE  (Types /\ MadeInv /\ RowsInv /\ SeenInv /\ GoneInv /\ AddedInv /\ ColumnInv)'
<1> USE DEF IndInv
<1>1. Wanted[c] \subseteq labels /\ rows' = (rows \ call[c].gone) \cup ({c} \X Wanted[c])
  BY DEF AddedInv, View, Added
<1>2. Types'
  BY <1>1, Published DEF Types, Rows
<1>3. MadeInv'
  BY Published DEF MadeInv, Types
<1>4. \A r \in rows : r[1] # c
  BY DEF RowsInv
<1>5. \A r \in rows' : (r \in rows /\ r \notin call[c].gone) \/ (r[1] = c /\ r[2] \in Wanted[c])
  BY <1>1
<1>6. \A l \in Wanted[c] : <<c, l>> \in rows'
  BY <1>1
<1>7. RowsInv'
  <2> SUFFICES ASSUME NEW r \in rows', NEW l \in Wanted[r[1]]
               PROVE  /\ r[2] \in Wanted[r[1]] /\ r[2] \in labels
                      /\ call'[r[1]].pc = "done" /\ call'[l].pc = "done"
                      /\ l \in labels => <<r[1], l>> \in rows'
    BY <1>5 DEF RowsInv
  <2>1. CASE r \in rows /\ r \notin call[c].gone
    <3>1. r[1] \in Callers /\ l \in Callers
      BY <2>1, RowParts
    <3>2. r[2] \in Wanted[r[1]] /\ r[2] \in labels /\ call[r[1]].pc = "done" /\ call[l].pc = "done"
      BY <2>1 DEF RowsInv
    <3>3. ASSUME l \in labels PROVE <<r[1], l>> \in rows'
      <4>1. <<r[1], l>> \in rows
        BY <2>1, <3>3 DEF RowsInv
      <4>2. <<r[1], l>> \notin call[c].gone
        <5>1. <<r[1], l>>[1] = r[1]
          OBVIOUS
        <5> QED
          BY <2>1, <4>1, <5>1 DEF GoneInv
      <4> QED
        BY <1>1, <4>1, <4>2
    <3> QED
      BY <3>1, <3>2, <3>3, Published
  <2>2. CASE r[1] = c /\ r[2] \in Wanted[c]
    <3>1. l \in Wanted[c] /\ l \in labels /\ l \in Callers
      BY <1>1, <2>2 DEF Types
    <3>2. call[l].pc = "done"
      BY <3>1 DEF MadeInv
    <3> QED
      BY <1>1, <1>6, <2>2, <3>1, <3>2, Published
  <2> QED
    BY <1>5, <2>1, <2>2
<1>8. SeenInv'
  <2> SUFFICES ASSUME NEW d \in Callers, NEW r \in call'[d].seen
               PROVE  /\ call'[r[1]].pc = "done"
                      /\ \A q \in rows' : q[1] = r[1] => q \in call'[d].seen
    BY DEF SeenInv
  <2>1. d # c /\ r \in call[d].seen /\ call'[d].seen = call[d].seen
    BY Published
  <2>2. call[r[1]].pc = "done" /\ r[1] \in Callers
    BY <2>1, RowParts DEF SeenInv
  <2> QED
    BY <1>5, <2>1, <2>2, Published DEF SeenInv
<1>9. GoneInv'
  <2> SUFFICES ASSUME NEW d \in Callers
               PROVE  /\ call'[d].gone \subseteq rows'
                      /\ \A r \in call'[d].gone : \A q \in rows' :
                           q[1] = r[1] => q \in call'[d].gone
                      /\ \A e \in Callers : e # d => call'[d].gone \cap call'[e].gone = {}
    BY DEF GoneInv
  <2>1. CASE d = c
    BY <2>1, Published
  <2>2. CASE d # c
    <3>1. call'[d].gone = call[d].gone
      BY <2>2, Published
    <3>2. call[d].gone \subseteq rows /\ call[d].gone \cap call[c].gone = {}
      BY <2>2 DEF GoneInv
    <3>3. \A e \in Callers : call'[e].gone \in {{}, call[e].gone}
      BY Published
    <3>4. \A e \in Callers : e # d => call'[d].gone \cap call'[e].gone = {}
      BY <2>2, <3>1, <3>3 DEF GoneInv
    <3>5. \A r \in call[d].gone : \A q \in rows' : q[1] = r[1] => q \in call[d].gone
      BY <1>4, <1>5, <3>2 DEF GoneInv
    <3> QED
      BY <1>1, <3>1, <3>2, <3>4, <3>5
  <2> QED
    BY <2>1, <2>2
<1>10. AddedInv'
  BY Published DEF AddedInv
<1>11. ColumnInv'
  BY Published DEF ColumnInv
<1> QED
  BY <1>2, <1>3, <1>7, <1>8, <1>9, <1>10, <1>11

LEMMA CommitSetLabelsInv == ASSUME IndInv, NEW c \in Setters, CommitSetLabels(c) PROVE IndInv'
<1> USE DEF CommitSetLabels
<1>1. (Types /\ MadeInv /\ RowsInv /\ SeenInv /\ GoneInv /\ AddedInv /\ ColumnInv)'
  BY CommitInv
<1>2. NamesCurrent'
  BY DEF IndInv, ColumnInv, NamesCurrent, LabelsOf
<1> QED
  BY <1>1, <1>2 DEF IndInv

LEMMA CommitAddLabelsInv == ASSUME IndInv, NEW c \in Adders, CommitAddLabels(c) PROVE IndInv'
<1> USE DEF CommitAddLabels
<1>1. (Types /\ MadeInv /\ RowsInv /\ SeenInv /\ GoneInv /\ AddedInv /\ ColumnInv)'
  BY CommitInv
<1>2. NamesCurrent'
  BY DEF NamesCurrent
<1> QED
  BY <1>1, <1>2 DEF IndInv

LEMMA HandleUpdateLabelsInv ==
  ASSUME IndInv, NEW c \in NameJobs, HandleUpdateLabels(c) PROVE IndInv'
<1> USE DEF HandleUpdateLabels
<1>1. Done("done") \in CallRecord /\ Done("done").seen = {} /\ Done("done").gone = {}
      /\ Done("done").pc = "done"
  BY DEF CallRecord, PCs, Done, NewCall
<1>2. (Types /\ MadeInv /\ RowsInv /\ SeenInv /\ GoneInv /\ AddedInv /\ ColumnInv)'
  BY <1>1, PrivateParts
<1>3. View(c) = rows
  BY DEF IndInv, ColumnInv, View, Added
<1>4. NamesCurrent'
  BY <1>3 DEF IndInv, ColumnInv, NamesCurrent, LabelsOf
<1> QED
  BY <1>2, <1>4 DEF IndInv

LEMMA LabelDeletedInv == ASSUME IndInv, NEW l \in labels, LabelDeleted(l) PROVE IndInv'
<1> USE DEF IndInv
<1>1. l \in Callers /\ l \in Creators /\ call[l].pc = "done"
  BY DEF Types, MadeInv
<1>2. /\ call' = Publish(l) /\ labels' = labels \ {l}
      /\ rows' = {r \in rows : r[2] # l} /\ missed' = missed \cup {l}
  BY DEF LabelDeleted
<1>3. /\ \A c \in Callers : \A r \in call[c].gone : r[2] # l
      /\ \A c \in Writers : call[c].pc \in {"inserted", "naming"} => l \notin Wanted[c]
  <2>1. ASSUME NEW c \in Callers, NEW r \in call[c].gone PROVE r[2] # l
    BY <2>1 DEF LabelDeleted, LabelsOf
  <2>2. ASSUME NEW c \in Writers, call[c].pc \in {"inserted", "naming"}, l \in Wanted[c]
        PROVE  FALSE
    <3>1. <<c, l>> \in Added(c) /\ <<c, l>>[2] = l
      BY <2>2 DEF Added
    <3> QED
      BY <3>1 DEF LabelDeleted, LabelsOf
  <2> QED
    BY <2>1, <2>2
<1>4. Types'
  BY <1>1, <1>2, Published DEF Types
<1>5. MadeInv'
  BY <1>1, <1>2, Published DEF MadeInv, Types
<1>6. RowsInv'
  <2> SUFFICES ASSUME NEW r \in rows', NEW m \in Wanted[r[1]]
               PROVE  /\ r[2] \in Wanted[r[1]] /\ r[2] \in labels'
                      /\ call'[r[1]].pc = "done" /\ call'[m].pc = "done"
                      /\ m \in labels' => <<r[1], m>> \in rows'
    BY <1>2 DEF RowsInv
  <2>1. r \in rows /\ r[2] # l /\ r[1] \in Callers /\ m \in Callers
    BY <1>2, RowParts
  <2>2. /\ r[2] \in Wanted[r[1]] /\ r[2] \in labels
        /\ call[r[1]].pc = "done" /\ call[m].pc = "done"
        /\ m \in labels => <<r[1], m>> \in rows
    BY <2>1 DEF RowsInv
  <2>3. <<r[1], m>>[2] = m
    OBVIOUS
  <2> QED
    BY <1>1, <1>2, <2>1, <2>2, <2>3, Published
<1>7. SeenInv'
  <2> SUFFICES ASSUME NEW d \in Callers, NEW r \in call'[d].seen
               PROVE  /\ call'[r[1]].pc = "done"
                      /\ \A q \in rows' : q[1] = r[1] => q \in call'[d].seen
    BY DEF SeenInv
  <2>1. d # l /\ r \in call[d].seen /\ call'[d].seen = call[d].seen
    BY <1>1, <1>2, Published
  <2>2. call[r[1]].pc = "done" /\ r[1] \in Callers
    BY <2>1, RowParts DEF SeenInv
  <2> QED
    BY <1>1, <1>2, <2>1, <2>2, Published DEF SeenInv
<1>8. GoneInv'
  <2>1. \A d \in Callers : call'[d].gone \in {{}, call[d].gone}
    BY <1>1, <1>2, Published
  <2>2. \A d \in Callers : call'[d].gone \subseteq rows'
    BY <1>2, <1>3, <2>1 DEF GoneInv
  <2> QED
    BY <1>2, <2>1, <2>2 DEF GoneInv
<1>9. AddedInv'
  BY <1>1, <1>2, <1>3, Published DEF AddedInv
<1>10. ColumnInv'
  BY <1>1, <1>2, Published DEF ColumnInv
<1>11. NamesCurrent'
  BY <1>2 DEF NamesCurrent
<1> QED
  BY <1>4, <1>5, <1>6, <1>7, <1>8, <1>9, <1>10, <1>11

-----------------------------------------------------------------------------
(* The theorems.                                                           *)

LEMMA StutterInv == ASSUME IndInv, UNCHANGED vars PROVE IndInv'
<1> USE DEF IndInv, vars
<1>1. \A c \in Callers : View(c)' = View(c)
  BY DEF View, Added
<1>2. (Types /\ MadeInv /\ RowsInv /\ SeenInv /\ GoneInv /\ AddedInv)'
  BY DEF Types, MadeInv, RowsInv, SeenInv, GoneInv, AddedInv
<1>3. (ColumnInv /\ NamesCurrent)'
  BY <1>1 DEF ColumnInv, NamesCurrent, LabelsOf
<1> QED
  BY <1>2, <1>3

LEMMA NextInv == ASSUME IndInv, Next PROVE IndInv'
<1>1. ASSUME NEW c \in Creators, Create(c) PROVE IndInv'
  BY <1>1, FindByNameInv, CreateLabelInv DEF Create
<1>2. ASSUME NEW c \in Setters, SetLabels(c) PROVE IndInv'
  BY <1>2, BeginDeleteInv, DeleteLabelsInv, InsertLabelsInv, ReadNamesInv, CommitSetLabelsInv
     DEF SetLabels
<1>3. ASSUME NEW c \in Adders, AddLabels(c) PROVE IndInv'
  BY <1>3, InsertLabelsInv, CommitAddLabelsInv DEF AddLabels
<1>4. ASSUME NEW c \in NameJobs, UpdateLabels(c) PROVE IndInv'
  BY <1>4, ReadNamesInv, HandleUpdateLabelsInv DEF UpdateLabels
<1>5. ASSUME NEW l \in labels, LabelDeleted(l) PROVE IndInv'
  BY <1>5, LabelDeletedInv
<1> QED
  BY <1>1, <1>2, <1>3, <1>4, <1>5 DEF Next

\* What holds in every state of the labels of an item: whose rows there are,
\* which of them a DELETE sees and deletes, and what is read for label_names.
THEOREM Invariant == Spec => []IndInv
<1>1. IndInv /\ [Next]_vars => IndInv'
  BY NextInv, StutterInv
<1> QED
  BY InitInv, <1>1, PTL DEF Spec

\* The labels that a call of SetLabels, a rule or a bulk action gave an item
\* come and go as one, but for those that are deleted.
THEOREM LabelsWholeCorrect == Spec => []LabelsWhole
BY Invariant, Whole, PTL

\* label_names is stale only after commits that overlapped with its UPDATE or
\* do not write it.
THEOREM NamesCurrentCorrect == Spec => []NamesCurrent
<1>1. IndInv => NamesCurrent
  BY DEF IndInv
<1> QED
  BY Invariant, <1>1, PTL

=============================================================================
