------------------------------- MODULE MCLabels -------------------------------
(***************************************************************************)
(* Module Labels with two names, one of them in two cases, and calls that  *)
(* overlap.                                                                *)
(***************************************************************************)
EXTENDS Labels, TLC

CONSTANTS w, x, y, W, s1, s2, s3, a1, n1

MCName == (w :> "work") @@ (x :> "home") @@ (y :> "work") @@ (W :> "Work")
MCFold == [n \in {"work", "Work", "home"} |-> IF n = "Work" THEN "work" ELSE n]
MCWanted == (s1 :> {w, x}) @@ (s2 :> {x}) @@ (s3 :> {w}) @@ (a1 :> {w, x})

\* Two calls of SetLabels that overlap with a rule and a job; three; and labels
\* whose names are the same, or differ in case.
MCCasts == {{w, x, s1, s2, a1, n1}, {w, x, s1, s2, s3}, {w, y, W, s3, n1}}

=============================================================================
