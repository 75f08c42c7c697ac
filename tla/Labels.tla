-------------------------------- MODULE Labels --------------------------------
(***************************************************************************)
(* The labels of a user, those of one library item (entity_labels) and the *)
(* column of its row that repeats their names, label_names.                *)
(*                                                                         *)
(* SetLabels of the API writes the rows and the column in one transaction; *)
(* rules and bulk actions write the rows alone, update-labels jobs the     *)
(* column alone.  The triggers that did so were dropped (migration 0160).  *)
(* Transactions are READ COMMITTED: a statement sees what was committed    *)
(* when it began, and waits for a row that another transaction has deleted *)
(* or updated.  The item itself stays (module Library is about its row).   *)
(***************************************************************************)
EXTENDS Naturals

CONSTANTS
  Creators,  \* calls of CreateLabel: each stands for the label it creates
  Name,      \* of each of them
  Fold,      \* LOWER of each name
  Setters,   \* calls of SetLabels
  Adders,    \* attempts of rules and bulk actions that add labels
  Wanted,    \* the labels that each of these was given
  NameJobs,  \* update-labels jobs
  Casts      \* bound: the sets of calls that are made in a behaviour

Callers == Creators \cup Setters \cup Adders \cup NameJobs

ASSUME LabelsAssumption ==
  /\ NameJobs \cap (Setters \cup Adders) = {}
  /\ Wanted \in [Setters \cup Adders -> SUBSET Creators]
  /\ Casts \subseteq SUBSET Callers

VARIABLES
  cast,    \* the calls of this behaviour
  labels,  \* the labels that exist
  rows,    \* entity_labels of the item: the call that wrote it, and the label
  call,    \* the transaction of each call
  names,   \* label_names, by label
  missed   \* history: commits of rows since label_names was read

vars == <<cast, labels, rows, call, names, missed>>

\* seen: rows that the DELETE sees; gone: rows it deleted; column: the names
\* that were read; unseen: history, commits of rows since.
NewCall == [pc |-> "begin", seen |-> {}, gone |-> {}, column |-> {}, unseen |-> {}]

Done(result) == [NewCall EXCEPT !.pc = result]

Init ==
  /\ cast \in Casts
  /\ labels = {} /\ rows = {} /\ names = {} /\ missed = {}
  /\ call = [c \in Callers |-> NewCall]

\* Rows that c has inserted and not committed.
Added(c) ==
  IF c \in Setters \cup Adders /\ call[c].pc \in {"inserted", "naming"}
    THEN {c} \X Wanted[c] ELSE {}

\* What a statement of c sees.
View(c) == (rows \ call[c].gone) \cup Added(c)

LabelsOf(some) == {r[2] : r \in some}

-----------------------------------------------------------------------------
(* CreateLabel.                                                            *)

\* FindByName, in a transaction of its own, ignores case.
FindByName(c) ==
  /\ call[c].pc = "begin"
  /\ call' = [call EXCEPT ![c].pc =
                IF \E l \in labels : Fold[Name[l]] = Fold[Name[c]] THEN "exists" ELSE "new"]
  /\ UNCHANGED <<labels, rows, names, missed>>

\* The index on the names of a user does not.
CreateLabel(c) ==
  /\ call[c].pc = "new"
  /\ \/ /\ \E l \in labels : Name[l] = Name[c]
        /\ call' = [call EXCEPT ![c] = Done("error")]
        /\ UNCHANGED labels
     \/ /\ \A l \in labels : Name[l] # Name[c]
        /\ call' = [call EXCEPT ![c] = Done("done")]
        /\ labels' = labels \cup {c}
  /\ UNCHANGED <<rows, names, missed>>

-----------------------------------------------------------------------------
(* Statements of the transactions on the item.                             *)

\* The DELETE of SetLabels begins.
BeginDelete(c) ==
  /\ call[c].pc = "begin"
  /\ call' = [call EXCEPT ![c].pc = "deleting", ![c].seen = rows]
  /\ UNCHANGED <<labels, rows, names, missed>>

\* It ends once no other transaction has deleted one of the rows that it saw.
DeleteLabels(c) ==
  /\ call[c].pc = "deleting"
  /\ \A d \in Callers : call[d].gone \cap call[c].seen = {}
  /\ call' = [call EXCEPT ![c].pc = "deleted", ![c].seen = {},
                          ![c].gone = call[c].seen \cap rows]
  /\ UNCHANGED <<labels, rows, names, missed>>

\* The INSERTs.  A label that is not there fails the whole transaction, also
\* that of a rule or a bulk action, which only logs it: COMMIT rolls back.
InsertLabels(c) ==
  /\ call[c].pc = IF c \in Setters THEN "deleted" ELSE "begin"
  /\ call' = [call EXCEPT ![c] = IF Wanted[c] \subseteq labels
                                 THEN [call[c] EXCEPT !.pc = "inserted"]
                                 ELSE Done("error")]
  /\ UNCHANGED <<labels, rows, names, missed>>

\* The UPDATE of label_names begins: it reads the names.
ReadNames(c) ==
  /\ call[c].pc = IF c \in Setters THEN "inserted" ELSE "begin"
  /\ call' = [call EXCEPT ![c].pc = "naming", ![c].column = LabelsOf(View(c))]
  /\ UNCHANGED <<labels, rows, names, missed>>

-----------------------------------------------------------------------------
(* Commits.                                                                *)

\* The calls when `who' has changed rows; a call ends with its commit.
Publish(who) ==
  [d \in Callers |->
     IF d = who THEN Done("done")
     ELSE [call[d] EXCEPT !.unseen = IF call[d].pc = "naming" THEN @ \cup {who} ELSE @]]

\* A bug: the names are read before the INSERT.
CommitNamesFirst(c) ==
  /\ call[c].pc = "naming"
  /\ rows' = View(c)
  /\ names' = LabelsOf(rows \ call[c].gone)
  /\ missed' = call[c].unseen
  /\ call' = Publish(c)
  /\ UNCHANGED labels

\* The UPDATE gets the item's row and writes what it has read.
CommitSetLabels(c) ==
  /\ call[c].pc = "naming"
  /\ rows' = View(c)
  /\ names' = call[c].column
  /\ missed' = call[c].unseen
  /\ call' = Publish(c)
  /\ UNCHANGED labels

\* A bug: every INSERT of a rule or a bulk action commits by itself.
CommitSomeLabels(c) ==
  /\ call[c].pc = "inserted"
  /\ \E some \in SUBSET Wanted[c] : rows' = rows \cup ({c} \X some)
  /\ missed' = missed \cup {c}
  /\ call' = Publish(c)
  /\ UNCHANGED <<labels, names>>

CommitAddLabels(c) ==
  /\ call[c].pc = "inserted"
  /\ rows' = View(c)
  /\ missed' = missed \cup {c}
  /\ call' = Publish(c)
  /\ UNCHANGED <<labels, names>>

HandleUpdateLabels(c) ==
  /\ call[c].pc = "naming"
  /\ names' = call[c].column
  /\ missed' = call[c].unseen
  /\ call' = [call EXCEPT ![c] = Done("done")]
  /\ UNCHANGED <<labels, rows>>

\* A label is deleted, with its rows, once no transaction has a lock on it.
LabelDeleted(l) ==
  /\ l \in labels
  /\ \A c \in Callers : l \notin LabelsOf(Added(c) \cup call[c].gone)
  /\ labels' = labels \ {l}
  /\ rows' = {r \in rows : r[2] # l}
  /\ missed' = missed \cup {l}
  /\ call' = Publish(l)
  /\ UNCHANGED names

Create(c) == FindByName(c) \/ CreateLabel(c)

SetLabels(c) ==
  \/ BeginDelete(c) \/ DeleteLabels(c) \/ InsertLabels(c) \/ ReadNames(c)
  \/ CommitSetLabels(c)

AddLabels(c) == InsertLabels(c) \/ CommitAddLabels(c)

UpdateLabels(c) == ReadNames(c) \/ HandleUpdateLabels(c)

Next ==
  /\ \/ \E c \in Creators \cap cast : Create(c)
     \/ \E c \in Setters \cap cast : SetLabels(c)
     \/ \E c \in Adders \cap cast : AddLabels(c)
     \/ \E c \in NameJobs \cap cast : UpdateLabels(c)
     \/ \E l \in labels : LabelDeleted(l)
  /\ UNCHANGED cast

Spec == Init /\ [][Next]_vars

-----------------------------------------------------------------------------
\* The item has all the labels that a call gave it and that still exist, or
\* none of them, whatever ran or failed meanwhile (SetLabels, applyRuleAction,
\* bulkAddLabels).
LabelsWhole ==
  \A c \in Setters \cup Adders :
    LabelsOf({r \in rows : r[1] = c}) \in {{}, Wanted[c] \cap labels}

\* label_names is right unless rows were committed since it was read, by a call
\* that does not write it or that overlapped with the one that did (SetLabels,
\* HandleUpdateLabels).
NamesCurrent == missed = {} => names = LabelsOf(rows)

=============================================================================
