----------------------------- MODULE JobService -----------------------------
(***************************************************************************)
(* What wright-exec-helper promises the shell pipeline it sits in: every    *)
(* line it takes from stdin is printed on stdout exactly as often as it was *)
(* read, and the helper finishes only when nothing is left to print.  How   *)
(* the work is spread over children and network clients is invisible here. *)
(***************************************************************************)
EXTENDS Naturals

CONSTANT Jobs           \* the job lines that may appear on stdin

VARIABLES
  read,                 \* read[j]: how often line j was taken from stdin
  printed,              \* printed[j]: how often line j was put on stdout
  finished              \* the helper has released its main thread

jobVars == <<read, printed, finished>>

Init ==
  /\ read = [j \in Jobs |-> 0]
  /\ printed = [j \in Jobs |-> 0]
  /\ finished = FALSE

Accept(j) ==
  /\ ~finished
  /\ read' = [read EXCEPT ![j] = @ + 1]
  /\ UNCHANGED <<printed, finished>>

Report(j) ==
  /\ ~finished
  /\ printed[j] < read[j]
  /\ printed' = [printed EXCEPT ![j] = @ + 1]
  /\ UNCHANGED <<read, finished>>

Finish ==
  /\ ~finished
  /\ printed = read
  /\ finished' = TRUE
  /\ UNCHANGED <<read, printed>>

Next ==
  \/ \E j \in Jobs : Accept(j) \/ Report(j)
  \/ Finish

Spec == Init /\ [][Next]_jobVars

=============================================================================
