------------------------------ MODULE Watchdog -------------------------------
(***************************************************************************)
(* The two watchdogs of exec.watchdog.cpp, by which the control and the     *)
(* auxiliary reactor watch each other, and the exceptions of coroutines     *)
(* (exception.hpp), for some of which the dogs are the last resort.  The    *)
(* dog of a reactor has its heartbeat timer there and its killer timer on   *)
(* the other one; beat() runs on the watched reactor and sets both anew.    *)
(*                                                                          *)
(* Time passes in ticks.  A reactor that is free runs what is due before    *)
(* the next tick; one that is stalled (all its threads inside a handler)    *)
(* sees no timer until it comes back.                                       *)
(***************************************************************************)
EXTENDS Integers, FiniteSets, FiniteSetsExt

CONSTANTS
  BeatAfter,        \* ticks to the next heartbeat (1 s)
  KillAfter,        \* ticks to the killer (2 s)
  MaxStall          \* bound: longer stalls are not told apart

ASSUME WatchdogAssumption ==
  /\ BeatAfter \in Nat \ {0} /\ KillAfter \in Nat /\ KillAfter > BeatAfter
  /\ MaxStall \in Nat /\ MaxStall > KillAfter

Reactors == {"control", "auxilliary"}
Other(r) == IF r = "control" THEN "auxilliary" ELSE "control"

VARIABLES
  stalled,          \* stalled[r]: r is inside a handler
  stall,            \* stall[r]: for how many ticks
  worst,            \* worst[r]: the longest stall of r so far
  heartbeat,        \* heartbeat[r]: ticks until the heartbeat of r is due
  killer,           \* killer[r]: ticks until the killer set by r is due
  posted,           \* posted[r]: the killer of r is in the queue, without error
  short,            \* the reactors that have lost a coroutine to an exception
  outcome           \* "run", "exit9" or "exit11"

timerVars == <<heartbeat, killer, posted>>
stallVars == <<stalled, stall, worst>>
vars == <<stallVars, timerVars, short, outcome>>

(* add_watchdog in both directions; the first beat() is the main thread's.  *)
Init ==
  /\ stalled = [r \in Reactors |-> FALSE]
  /\ stall = [r \in Reactors |-> 0] /\ worst = [r \in Reactors |-> 0]
  /\ heartbeat = [r \in Reactors |-> BeatAfter]
  /\ killer = [r \in Reactors |-> KillAfter]
  /\ posted = [r \in Reactors |-> FALSE]
  /\ short = {}
  /\ outcome = "run"

Running == outcome = "run"

(* The reactor the killer of r waits on.                                    *)
WatcherSelf(r) == r
Watcher(r) == Other(r)

(* The handlers that are due at a free reactor.                             *)
BeatDue(r) == ~stalled[r] /\ heartbeat[r] = 0
KillerDue(r) == ~stalled[Watcher(r)] /\ killer[r] = 0 /\ ~posted[r]
KillDue(r) == ~stalled[Watcher(r)] /\ posted[r]
Due(r) == BeatDue(r) \/ \E q \in Reactors : Watcher(q) = r /\ (KillerDue(q) \/ KillDue(q))

(* beat(): expires_from_now cancels a wait that has not been collected, but *)
(* not a handler that is already in the queue.                              *)
KillerKept(r) == killer[r]
KillerReset(r) == KillAfter
Beat(r) ==
  /\ Running /\ BeatDue(r)
  /\ killer' = [killer EXCEPT ![r] = KillerReset(r)]
  /\ heartbeat' = [heartbeat EXCEPT ![r] = BeatAfter]
  /\ UNCHANGED <<stallVars, posted, short, outcome>>

(* The watching reactor finds the killer expired and queues its handler.    *)
Collect(r) ==
  /\ Running /\ KillerDue(r)
  /\ posted' = [posted EXCEPT ![r] = TRUE]
  /\ UNCHANGED <<stallVars, heartbeat, killer, short, outcome>>

(* std::exit(11).                                                           *)
Kill(r) ==
  /\ Running /\ KillDue(r)
  /\ outcome' = "exit11"
  /\ UNCHANGED <<stallVars, timerVars, short>>

(* A handler that takes its time, or never comes back.                      *)
Enter(r) ==
  /\ Running /\ ~stalled[r] /\ ~BeatDue(r)
  /\ \A q \in Reactors : Watcher(q) = r => ~KillerDue(q)
  /\ stalled' = [stalled EXCEPT ![r] = TRUE]
  /\ UNCHANGED <<stall, worst, timerVars, short, outcome>>

StopsNever(r) == FALSE
Stops(r) == r = "control"
Stopped(r) == r \in short /\ Stops(r)
Leave(r) ==
  /\ Running /\ stalled[r] /\ ~Stopped(r)
  /\ stalled' = [stalled EXCEPT ![r] = FALSE]
  /\ stall' = [stall EXCEPT ![r] = 0]
  /\ UNCHANGED <<worst, timerVars, short, outcome>>

(* exception_decorator: exit_on_error ends the helper; rethrow ends the     *)
(* coroutine and hands the exception to the reactor pool, which stops the   *)
(* one thread of the control reactor, and goes on with the auxiliary one.   *)
Throw(r) ==
  /\ Running /\ ~stalled[r]
  /\ \/ /\ r = "control"
        /\ outcome' = "exit9"
        /\ UNCHANGED <<stalled, short>>
     \/ /\ short' = short \cup {r}
        /\ stalled' = [stalled EXCEPT ![r] = Stops(r)]
        /\ UNCHANGED outcome
  /\ UNCHANGED <<stall, worst, timerVars>>

Less(n) == IF n = 0 THEN 0 ELSE n - 1
Longer(r) == IF stalled[r] THEN Min({stall[r] + 1, MaxStall}) ELSE 0
Tick ==
  /\ Running
  /\ \A r \in Reactors : ~Due(r)
  /\ heartbeat' = [r \in Reactors |-> Less(heartbeat[r])]
  /\ killer' = [r \in Reactors |-> Less(killer[r])]
  /\ stall' = [r \in Reactors |-> Longer(r)]
  /\ worst' = [r \in Reactors |-> Max({worst[r], Longer(r)})]
  /\ UNCHANGED <<stalled, posted, short, outcome>>

Terminated == ~Running /\ UNCHANGED vars

Next ==
  \/ \E r \in Reactors :
       Beat(r) \/ Collect(r) \/ Kill(r) \/ Enter(r) \/ Leave(r) \/ Throw(r)
  \/ Tick
  \/ Terminated

Spec == Init /\ [][Next]_vars

(* Fairness: time passes, timers are served, the handlers of the auxiliary  *)
(* reactor come back, and what is in its queue gets its turn.               *)
FairSpec ==
  /\ Spec
  /\ WF_vars(Tick)
  /\ \A r \in Reactors : WF_vars(Beat(r)) /\ WF_vars(Collect(r)) /\ SF_vars(Kill(r))
  /\ WF_vars(Leave("auxilliary"))

-----------------------------------------------------------------------------
(* The shape of every variable; a heartbeat is never set beyond its killer. *)
TypeOK ==
  /\ stalled \in [Reactors -> BOOLEAN]
  /\ stall \in [Reactors -> 0 .. MaxStall] /\ worst \in [Reactors -> 0 .. MaxStall]
  /\ heartbeat \in [Reactors -> 0 .. BeatAfter]
  /\ killer \in [Reactors -> 0 .. KillAfter]
  /\ posted \in [Reactors -> BOOLEAN]
  /\ short \subseteq Reactors
  /\ outcome \in {"run", "exit9", "exit11"}
  /\ \A r \in Reactors : heartbeat[r] <= killer[r]

(* The helper is killed only if a reactor was stalled for the whole second  *)
(* between its heartbeat and its killer, or stopped: shorter stalls never   *)
(* add up, and no order of a late beat and a killer in the queue gives a    *)
(* false alarm; nor does an exception on the auxiliary reactor.             *)
NoFalseAlarm ==
  outcome = "exit11" => \E r \in Reactors :
    worst[r] >= KillAfter - BeatAfter \/ Stopped(r)

(* A reactor that does not come back is noticed within two seconds, if the  *)
(* other one has not been stalled itself.                                   *)
Noticed ==
  Running => \A r \in Reactors :
    worst[Other(r)] = 0 /\ ~stalled[Other(r)] => stall[r] <= KillAfter

(* exec.supervisor.cpp:68-71: "Stop on exception".  A coroutine of the      *)
(* control reactor that throws, be it one without exit_on_error             *)
(* (exec.netvisor.cpp:56), never leaves a helper that goes on without it,   *)
(* however the auxiliary reactor is held up.                                *)
NeverShort == "control" \in short ~> ~Running

=============================================================================
