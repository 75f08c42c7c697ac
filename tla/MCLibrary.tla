------------------------------ MODULE MCLibrary ------------------------------
(* Small instances of Library for TLC. *)
EXTENDS Library

CONSTANTS i1, i2, i3, e1, e2, b1, m1, m2, g, s1, s2

MCItems == {i1, i2, i3}

MCSavedAt == [i \in Items |-> CASE i = i1 -> 3 [] i = i2 -> 2 [] OTHER -> 1]

Position3(t, b, a) == [top |-> t, bottom |-> b, anchor |-> a]

\* Two positions that are each further in one column, one of which starts
\* again at the bottom, and a member without a position.
MCAt == [e \in Entries |-> CASE e = m1 -> [top |-> 20, bottom |-> 60, anchor |-> 5]
                             [] e = m2 -> [top |-> 40, bottom |-> 0, anchor |-> 2]
                             [] OTHER -> NoPosition]

Inbox == [NoRow EXCEPT !.state = "SUCCEEDED", !.folder = "inbox"]

Library(present) == [i \in Items |-> IF i \in present THEN Inbox ELSE NoRow]

Request(action, in, folder, count) ==
  [action |-> action, in |-> in, folder |-> folder, count |-> count]

MCRequests ==
  {Request("ARCHIVE", "all", "inbox", 3),
   Request("ARCHIVE", "inbox", "inbox", 0),
   Request("DELETE", "all", "inbox", 3),
   Request("DELETE", "archive", "inbox", 4),
   Request("MARK_AS_READ", "all", "inbox", 2),
   Request("MOVE_TO_FOLDER", "inbox", "following", 3),
   Request("MOVE_TO_FOLDER", "trash", "inbox", 2)}

Scene(library, actors) == [library |-> library, cast |-> actors]

\* Who meets whom, over which library.
MCScenes ==
  {Scene(Library({i1}), {"reader", e1}),
   Scene(Library({i1}), {"reader", b1}),
   Scene([Library({i1}) EXCEPT ![i1] = Binned(Inbox)], {"reader", "time"}),
   Scene(Library({i1}), {"time", "rules", e1, e2}),
   Scene(Library({i1, i2}), {"time", b1, e1}),
   Scene([Library(Items) EXCEPT ![i2] = Archived(Inbox)], {b1, e1}),
   Scene(Library({i2, i3}), {"walk", "saver", e1}),
   Scene(Library(Items), {"walk", b1, e1})}

\* An item that is put in the trash, restored and deleted.
MCTrashScenes == {Scene(Library({i1}), {"time", "rules", e1, e2})}

=============================================================================
