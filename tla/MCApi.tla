--------------------------------- MODULE MCApi ---------------------------------
(* A small instance of Api for TLC. *)
EXTENDS Api

CONSTANTS g1, g2, g3, c1, c2, c3, near, far, mail1, mail2, name1, name2, url1, url2

MCAddress == [c \in Calls |-> IF c = c3 THEN far ELSE near]

\* Two calls with one email, two with one username.
MCEmail == [c \in Signups |-> IF c = g3 THEN mail2 ELSE mail1]
MCUsername == [c \in Signups |-> IF c = g1 THEN name1 ELSE name2]

\* Two calls with one URL.
MCUrl == [c \in Subscribers |-> IF c = c1 THEN url1 ELSE url2]

\* Sign-ups; subscriptions; and calls of both kinds from two addresses.
MCCasts == {{g1, g2, g3}, {c1, c2, c3}, {g1, g2, c3}}

=============================================================================
