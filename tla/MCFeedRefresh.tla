---------------------------- MODULE MCFeedRefresh ----------------------------
(* Small instances of FeedRefresh for TLC. *)
EXTENDS FeedRefresh

CONSTANTS u1, u2

\* u1 always has the content fetched; u2 only for entries without content.
MCFetchType == [u \in Users |-> IF u = u1 THEN "ALWAYS" ELSE "WHEN_EMPTY"]

=============================================================================
