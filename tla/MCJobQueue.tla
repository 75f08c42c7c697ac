------------------------------ MODULE MCJobQueue ------------------------------
(* Small instances of JobQueue for TLC. *)
EXTENDS JobQueue, TLC

CONSTANTS a1, a2, d1, p1, p2, w1, w2

\* One auto id with a retry and a priority, one without; a caller's id.
MCAttempts == [j \in Job |-> IF j = a2 THEN 1 ELSE 2]
MCPriority == [j \in Job |-> IF j = a1 THEN 1 ELSE 0]

MCSymmetry == Permutations({p1, p2}) \cup Permutations({w1, w2})

=============================================================================
