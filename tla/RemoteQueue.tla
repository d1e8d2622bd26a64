---------------------------- MODULE RemoteQueue -----------------------------
(***************************************************************************)
(* What Capacity takes a network connection for: after its version packet a *)
(* set of at most Room jobs, each of which is answered some day, unless the *)
(* connection is lost and all of them are given back.  Network shows that   *)
(* the packets, the two processes and a cut of the wire amount to this.     *)
(***************************************************************************)
EXTENDS Naturals, FiniteSets

CONSTANTS Jobs, Room

VARIABLES
  cap,                  \* <<Room>> while the server counts on the connection
  work,                 \* the jobs sent and not answered
  answered,             \* the jobs answered
  returned              \* the jobs given back

remoteVars == <<cap, work, answered, returned>>

Init == cap = <<>> /\ work = {} /\ answered = {} /\ returned = {}

Additional ==
  /\ cap = <<>>
  /\ cap' = <<Room>>
  /\ UNCHANGED <<work, answered, returned>>

Send(j) ==
  /\ cap # <<>> /\ Cardinality(work) < cap[1]
  /\ j \notin work \cup answered
  /\ work' = work \cup {j}
  /\ UNCHANGED <<cap, answered, returned>>

Answer(j) ==
  /\ j \in work
  /\ work' = work \ {j}
  /\ answered' = answered \cup {j}
  /\ UNCHANGED <<cap, returned>>

Lost ==
  /\ cap # <<>>
  /\ returned' = returned \cup work
  /\ work' = {} /\ cap' = <<>>
  /\ UNCHANGED answered

Next ==
  \/ Additional \/ Lost
  \/ \E j \in Jobs : Send(j) \/ Answer(j)

Safety == Init /\ [][Next]_remoteVars

Spec ==
  /\ Safety
  /\ \A j \in Jobs : WF_remoteVars(Answer(j) \/ (j \in work /\ Lost))

=============================================================================
