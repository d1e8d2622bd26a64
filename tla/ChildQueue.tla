----------------------------- MODULE ChildQueue -----------------------------
(***************************************************************************)
(* What Capacity takes a child for: a queue of at most BufferSize jobs that *)
(* reports its front, and goes on doing so until it is empty or the child   *)
(* is down.  ChildLink shows that the pipes, the supervisor process and a   *)
(* worker that crashes now and then amount to this.                         *)
(***************************************************************************)
EXTENDS Naturals, Sequences

CONSTANTS Jobs, BufferSize

VARIABLES
  commands,             \* the jobs given and not reported
  reported,             \* the jobs reported, in order
  down                  \* the child has gone for good

queueVars == <<commands, reported, down>>

Init == commands = <<>> /\ reported = <<>> /\ down = FALSE

Give(j) ==
  /\ Len(commands) < BufferSize
  /\ commands' = Append(commands, j)
  /\ UNCHANGED <<reported, down>>

(* What a child had written before it went may still be read.               *)
Report ==
  /\ commands # <<>>
  /\ reported' = Append(reported, Head(commands))
  /\ commands' = Tail(commands)
  /\ UNCHANGED down

Fail == down' = TRUE /\ UNCHANGED <<commands, reported>>

Next == (\E j \in Jobs : Give(j)) \/ Report \/ Fail

Safety == Init /\ [][Next]_queueVars

Spec == Safety /\ WF_queueVars(~down /\ Report)

=============================================================================
