--------------------------- MODULE MCBackChannel ----------------------------
(* Small instances of BackChannel for TLC.                                  *)
EXTENDS BackChannel

(* Messages of three and of four bytes.                                     *)
MCBodies == [m \in {"started", "errored"} |-> IF m = "started" THEN 1 ELSE 2]

=============================================================================
