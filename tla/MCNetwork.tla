------------------------------ MODULE MCNetwork ------------------------------
(* Small instances of Network for TLC.                                      *)
EXTENDS Network

CONSTANTS j1, j2, j3, j4, j5

MCJobs == {j1, j2, j3, j4, j5}

(* More jobs than the client announces, all different.                      *)
MCInputs == {<<j1, j2, j3, j4, j5>>}

=============================================================================
