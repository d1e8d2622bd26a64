----------------------------- MODULE MCCapacity -----------------------------
(* Small instances of Capacity for TLC.                                     *)
EXTENDS Capacity

CONSTANTS j1, j2, j3, j4, blank, x1, x2

MCJobs == {j1, j2, j3, j4, blank}
MCConns == {x1, x2}
MCCap == [x \in {x1, x2} |-> IF x = x1 THEN 1 ELSE 2]

(* Four distinct lines: more jobs than the ring slots of the two children.  *)
DistinctInput == {<<j1, j2, j3, j4>>}

(* Every input of at most four lines over two texts: lines that repeat.     *)
TwoJobs == {j1, j2}
RepeatedInput == UNION {[1 .. n -> TwoJobs] : n \in 1 .. 4}

(* All of them, and an empty line among the jobs.                           *)
AnyInput == DistinctInput \cup RepeatedInput \cup {<<j1, blank, j2>>}

=============================================================================
