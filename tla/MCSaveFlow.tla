------------------------------ MODULE MCSaveFlow ------------------------------
(* Small instances of SaveFlow for TLC. *)
EXTENDS SaveFlow

CONSTANTS u1, u2, p1, p2, f1, f2, e1

\* The client repeats a saveUrl with the same request id.
MCRequest == [u \in UrlSavers |-> CHOOSE r \in Requests : TRUE]

\* Two saves by saveUrl, one by savePage, and all three of a listed domain; two by
\* savePage; a saveUrl, a savePage, a feed that finds the same URL, and an edit of the
\* item, two by two; the saveUrl, the feed and the feed's undated entry
\* each with a late failure of AddBulk.
MCCasts == {{u1, u2}, {u1, p1}, {u1, u2, p1, "listed"}, {p1, p2},
            {u1, f1}, {p1, f1}, {u1, e1}, {f1, e1}, {p1, e1},
            {f1, "late"}, {u1, "late"}, {f2, "late"}}

\* A savePage; a saveUrl.
MCPageCasts == {{p1}, {u1}}

=============================================================================
