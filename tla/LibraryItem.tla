----------------------------- MODULE LibraryItem -----------------------------
(***************************************************************************)
(* The library_item rows of one user, as far as several parts of the       *)
(* program write them: internal/model/library_item.go, and the columns of  *)
(* the table that the model does not have.  SUCCEEDED stands for every     *)
(* state of an item that is neither archived nor in the trash.             *)
(***************************************************************************)
EXTENDS Integers

CONSTANTS Items, Folders

State == {"SUCCEEDED", "ARCHIVED", "DELETED"}

\* deleted_at is kept as the days that have passed since, or NULL.
Null == -1

\* reading_progress_*: top_percent, bottom_percent, highest_read_anchor.
Position == [top: Nat, bottom: Nat, anchor: Nat]
NoPosition == [top |-> 0, bottom |-> 0, anchor |-> 0]

Row == [state: State, deletedAt: Nat \cup {Null}, folder: Folders, progress: Position]

NoRow == [state |-> "none", deletedAt |-> Null, folder |-> "none", progress |-> NoPosition]

VARIABLE row  \* library_item by id

Present(i) == row[i] # NoRow

\* LibraryItemRepository.Update of the columns in saved: an UPDATE of every
\* column of the model, or else an INSERT.  deleted_at and the bottom
\* percentage are no columns of the model: they stay, or have their defaults.
Saved(old, saved) ==
  [saved EXCEPT !.deletedAt = old.deletedAt,
                !.progress = [saved.progress EXCEPT !.bottom = old.progress.bottom]]

=============================================================================
