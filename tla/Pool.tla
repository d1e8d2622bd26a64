-------------------------------- MODULE Pool --------------------------------
(***************************************************************************)
(* The processes of a manager that reads stdin, and their file descriptors: *)
(* child_pool and fork_exec (exec.childproc.cpp, .hpp), the pipes they are  *)
(* given (pipe.hpp), the handling of SIGCHLD and of supervisors that loop,  *)
(* and capacity::close.                                                     *)
(*                                                                          *)
(* No pipe has O_CLOEXEC, and the manager keeps both ends of every pipe.    *)
(* Who meets the end of a pipe therefore depends on what each process       *)
(* inherits and closes: a supervisor gets copies of everything that was     *)
(* open when it was forked, and its workers of everything it kept.          *)
(*                                                                          *)
(* What travels in the pipes is the subject of ChildLink and BackChannel;   *)
(* of the jobs of a child only their number is left here.                   *)
(***************************************************************************)
EXTENDS Integers

CONSTANTS
  NumChildren,      \* c_children
  MaxJobs,          \* bound on the lines of stdin
  MaxKills,         \* bound on the supervisors killed from outside
  ForkFails         \* may fork or pipe fail?

ASSUME PoolChildrenAssumption == NumChildren \in Nat \ {0}
ASSUME PoolBoundsAssumption == MaxJobs \in Nat /\ MaxKills \in Nat
ASSUME ForkFailsAssumption == ForkFails \in BOOLEAN

Children == 1 .. NumChildren

VARIABLES
  main,             \* the main thread: "pool", "run", "close", "wait", or how
                    \* the process has ended: "done", "exit4" or "threw"
  at,               \* the child that is constructed, closed or waited for
  fds,              \* the open descriptors of every process
  sup,              \* the supervisor: "none", "forked", "up", "reaped", or
                    \* "dead" ("early" if before SIGCHLD was handled)
  worker,           \* "none", "up", "crashed" or "ended"
  work,             \* how many jobs childproc::commands holds
  left,             \* the lines still to come
  asks,             \* the resend bytes in the pipe
  pending,          \* the thread a pending SIGCHLD is for, "main" or "other",
                    \* or "no": there is one, however many children died
  bytes,            \* the bytes in the pipe of the signal handler
  kills

managerVars == <<main, at, left>>
signalVars == <<pending, bytes>>
vars == <<managerVars, fds, sup, worker, work, asks, signalVars, kills>>

(* Bound: how far a worker that crashes again and again runs ahead of the   *)
(* manager.                                                                 *)
MaxAsks == 2

Gone == main \in {"done", "exit4", "threw"}
Handling == main \in {"run", "close", "wait"}
InputComplete == left = 0

(***************************************************************************)
(* Pipes and descriptors.  A descriptor is the name the code has for it     *)
(* with the end of a pipe it refers to; pipe <<k, kind>> belongs to child   *)
(* k, and the pipes of child 0 are the manager's own stdin, stdout, stderr. *)
(***************************************************************************)
Kinds == {"stdin", "stdout", "stderr", "resend"}
Standard == {"stdin", "stdout", "stderr"}

Manager == <<"manager", 0>>
Sup(k) == <<"sup", k>>
Wrk(k) == <<"worker", k>>
Processes == {Manager} \cup {Sup(k) : k \in Children} \cup {Wrk(k) : k \in Children}

ParentEnd(k, kind) == <<k, kind, IF kind = "stdin" THEN "write" ELSE "read">>
ChildEnd(k, kind) == <<k, kind, IF kind = "stdin" THEN "read" ELSE "write">>

Fd(k, kind, name, end) == [child |-> k, kind |-> kind, name |-> name, end |-> end]

(* pipe::pipe for each of the four, and the dup for the option -rfd.        *)
Constructed(k) ==
  {Fd(k, kind, "parent_fd", ParentEnd(k, kind)) : kind \in Kinds}
    \cup {Fd(k, kind, "child_fd", ChildEnd(k, kind)) : kind \in Kinds}
    \cup {Fd(k, "resend", "backchannel", ChildEnd(k, "resend"))}

(* pipe::parent, the duplicate asio works with.                             *)
Parent(k, kind) == Fd(k, kind, "parent_sd", ParentEnd(k, kind))

(* childproc::close and pipe::close.  The backchannel is no pipe object.    *)
PipeFds == {"parent_fd", "parent_sd", "child_fd"}
Without(open, ks, kinds) ==
  {d \in open : ~(d.child \in ks /\ d.kind \in kinds /\ d.name \in PipeFds)}

(* dup2 of pipe::child on to 0, 1 and 2; of a closed pipe that is 0 itself. *)
StandardOf(k) == {Fd(0, kind, "standard", ChildEnd(k, kind)) : kind \in Standard}
Dup2OfClosed(k, open) == open
Dup2(k, open) == {d \in open : d.name # "standard"} \cup StandardOf(k)

TidyOthersOnly(k, open) == Without(open, 1 .. k - 1, Kinds)
Tidy(k, open) == Without(open, 1 .. k, Kinds)

Holds(p, end) == \E d \in fds[p] : d.end = end
Read(k, kind) == \E p \in Processes : Holds(p, <<k, kind, "read">>)
Written(k, kind) == \E p \in Processes : Holds(p, <<k, kind, "write">>)

Init ==
  /\ main = "pool" /\ at = 0
  /\ fds = [p \in Processes |-> IF p = Manager THEN StandardOf(0) ELSE {}]
  /\ sup = [k \in Children |-> "none"]
  /\ worker = [k \in Children |-> "none"]
  /\ work = [k \in Children |-> 0]
  /\ left \in 0 .. MaxJobs
  /\ asks = [k \in Children |-> 0]
  /\ pending = "no" /\ bytes = 0
  /\ kills = 0

-----------------------------------------------------------------------------
(* The main thread of the manager: one round of the loop of child_pool.     *)
KeptByParentNoChildEnds(open) == {d \in open : d.name # "child_fd"}
KeptByParent(open) == open
Fork ==
  /\ main = "pool"
  /\ at < NumChildren
  /\ at' = at + 1
  /\ LET open == fds[Manager] \cup Constructed(at + 1)
     IN fds' = [fds EXCEPT ![Manager] = KeptByParent(open),
                           ![Sup(at + 1)] = open]
  /\ sup' = [sup EXCEPT ![at + 1] = "forked"]
  /\ UNCHANGED <<main, left, worker, work, asks, signalVars, kills>>

(* A pipe or a process cannot be had: std::system_error leaves exec_helper, *)
(* and main prints it and returns.                                          *)
Throw ==
  /\ ForkFails
  /\ main = "pool"
  /\ at < NumChildren
  /\ main' = "threw"
  /\ fds' = [fds EXCEPT ![Manager] = {}]
  /\ UNCHANGED <<at, left, sup, worker, work, asks, signalVars, kills>>

(* SIGCHLD is handled from here on, and the coroutines of the children wait *)
(* on their pipes.                                                          *)
Start ==
  /\ main = "pool"
  /\ at = NumChildren
  /\ main' = "run"
  /\ fds' = [fds EXCEPT ![Manager] = @ \cup
               {Parent(k, kind) : k \in Children, kind \in Kinds \ {"stdin"}}]
  /\ UNCHANGED <<at, left, sup, worker, work, asks, signalVars, kills>>

(* A thread handles its signal before it goes on.                           *)
MainRuns == pending # "main"

(* exec_helper's blocker: input is complete and no job is outstanding.      *)
Release ==
  /\ main = "run" /\ MainRuns
  /\ InputComplete
  /\ \A k \in Children : work[k] = 0
  /\ main' = "close" /\ at' = 1
  /\ UNCHANGED <<left, fds, sup, worker, work, asks, signalVars, kills>>

(* capacity::close: stdin.close() and waitpid, child by child.              *)
CloseStdin ==
  /\ main = "close" /\ MainRuns
  /\ fds' = [fds EXCEPT ![Manager] = Without(@, {at}, {"stdin"})]
  /\ main' = "wait"
  /\ UNCHANGED <<at, left, sup, worker, work, asks, signalVars, kills>>

NextChild ==
  \/ /\ at < NumChildren
     /\ main' = "close" /\ at' = at + 1
     /\ UNCHANGED fds
  \/ /\ at = NumChildren
     /\ main' = "done" /\ UNCHANGED at
     /\ fds' = [fds EXCEPT ![Manager] = {}]

Dead(k) == sup[k] \in {"early", "dead"}
Waited ==
  /\ main = "wait" /\ MainRuns
  /\ Dead(at) \/ sup[at] = "reaped"
  /\ sup' = [sup EXCEPT ![at] = "reaped"]
  /\ NextChild
  /\ UNCHANGED <<left, worker, work, asks, signalVars, kills>>

-----------------------------------------------------------------------------
(* The control reactor.  Of next_job, the choice of a child and the job in  *)
(* its ring; the first write makes the descriptor asio works with.          *)
Give(k) ==
  /\ main = "run"
  /\ ~InputComplete
  /\ left' = left - 1
  /\ work' = [work EXCEPT ![k] = @ + 1]
  /\ fds' = [fds EXCEPT ![Manager] = @ \cup {Parent(k, "stdin")}]
  /\ UNCHANGED <<main, at, sup, worker, asks, signalVars, kills>>

(* The end of a supervisor.  The kernel picks any thread for the signal, if *)
(* it is handled and none is pending.                                       *)
Dies(k) ==
  /\ sup' = [sup EXCEPT ![k] = IF Handling THEN "dead" ELSE "early"]
  /\ pending' \in IF Handling /\ pending = "no" THEN {"main", "other"} ELSE {pending}
  /\ fds' = [fds EXCEPT ![Sup(k)] = {}]

(* handle_child_requests: a resend, or a kill when all the work is done.    *)
Killed(k) == InputComplete /\ work[k] = 0
Byte(k) ==
  /\ Handling
  /\ asks[k] > 0
  /\ asks' = [asks EXCEPT ![k] = @ - 1]
  /\ \/ Killed(k) /\ sup[k] = "up" /\ Dies(k)
     \/ ~(Killed(k) /\ sup[k] = "up") /\ UNCHANGED <<sup, pending, fds>>
  /\ UNCHANGED <<managerVars, worker, work, bytes, kills>>

(* sigchild_handler.  It is installed without SA_RESTART: if the main       *)
(* thread is in a waitpid for a child that lives, that ends with EINTR,     *)
(* which close takes for the end of the child.                              *)
Interrupted == pending = "main" /\ main = "wait" /\ sup[at] \in {"forked", "up"}
Deliver ==
  /\ Handling
  /\ pending # "no"
  /\ pending' = "no"
  /\ bytes' = bytes + 1
  /\ \/ UNCHANGED <<main, at, fds>>
     \/ Interrupted /\ NextChild
  /\ UNCHANGED <<left, sup, worker, work, asks, kills>>

(* sigchild_reactor: one byte, but every child is looked at.                *)
AtByteFirstOnly == {k \in Children : Dead(k) /\ \A l \in 1 .. k - 1 : ~Dead(l)}
AtByte == {k \in Children : Dead(k)}
Reactor ==
  /\ Handling
  /\ bytes > 0
  /\ bytes' = bytes - 1
  /\ \/ /\ \A k \in AtByte : work[k] = 0
        /\ sup' = [k \in Children |-> IF k \in AtByte THEN "reaped" ELSE sup[k]]
        /\ UNCHANGED <<main, fds>>
     \/ /\ \E k \in AtByte : work[k] > 0
        /\ main' = "exit4"
        /\ fds' = [fds EXCEPT ![Manager] = {}]
        /\ UNCHANGED sup
  /\ UNCHANGED <<at, left, worker, work, asks, pending, kills>>

-----------------------------------------------------------------------------
(* A child after fork_exec's fork: dup2, tidy and execvp.                   *)
Exec(k) ==
  /\ sup[k] = "forked"
  /\ sup' = [sup EXCEPT ![k] = "up"]
  /\ fds' = [fds EXCEPT ![Sup(k)] = Tidy(k, Dup2(k, @))]
  /\ UNCHANGED <<managerVars, worker, work, asks, signalVars, kills>>

(* fork_worker: fork and execvp of the worker ...                           *)
StartWorker(k) ==
  /\ sup[k] = "up"
  /\ worker[k] = "none"
  /\ worker' = [worker EXCEPT ![k] = "up"]
  /\ fds' = [fds EXCEPT ![Wrk(k)] = fds[Sup(k)]]
  /\ UNCHANGED <<managerVars, sup, work, asks, signalVars, kills>>

(* ... and its end: return, or a resend byte and another round.  With       *)
(* nobody to read the byte the supervisor dies of SIGPIPE.                  *)
WorkerGone(k) ==
  /\ sup[k] = "up"
  /\ \/ /\ worker[k] = "ended" \/ (worker[k] = "crashed" /\ ~Read(k, "resend"))
        /\ Dies(k)
        /\ UNCHANGED <<worker, asks>>
     \/ /\ worker[k] = "crashed" /\ Read(k, "resend")
        /\ asks' = [asks EXCEPT ![k] = @ + 1]
        /\ worker' = [worker EXCEPT ![k] = "none"]
        /\ UNCHANGED <<sup, pending, fds>>
  /\ UNCHANGED <<managerVars, work, bytes, kills>>

(* Somebody kills a supervisor; its worker goes on.                         *)
SupervisorKilled(k) ==
  /\ kills < MaxKills
  /\ sup[k] = "up"
  /\ kills' = kills + 1
  /\ Dies(k)
  /\ UNCHANGED <<managerVars, worker, work, asks, bytes>>

WorkerStops(k, how) ==
  /\ worker' = [worker EXCEPT ![k] = how]
  /\ fds' = [fds EXCEPT ![Wrk(k)] = {}]

(* A job done, printed and reported.                                        *)
Work(k) ==
  /\ worker[k] = "up"
  /\ work[k] > 0
  /\ \/ /\ ~Gone
        /\ work' = [work EXCEPT ![k] = @ - 1]
        /\ UNCHANGED <<worker, fds>>
     \/ /\ Gone /\ ~Read(k, "stdout")
        /\ WorkerStops(k, "ended")
        /\ UNCHANGED work
  /\ UNCHANGED <<managerVars, sup, asks, signalVars, kills>>

WorkerCrash(k) ==
  /\ worker[k] = "up"
  /\ asks[k] < MaxAsks
  /\ WorkerStops(k, "crashed")
  /\ UNCHANGED <<managerVars, sup, work, asks, signalVars, kills>>

(* The worker meets the end of its stdin: no process holds an end to write  *)
(* to.                                                                      *)
WorkerEnd(k) ==
  /\ worker[k] = "up"
  /\ work[k] = 0
  /\ ~Written(k, "stdin")
  /\ WorkerStops(k, "ended")
  /\ UNCHANGED <<managerVars, sup, work, asks, signalVars, kills>>

Over == \A k \in Children : sup[k] \notin {"forked", "up"} /\ worker[k] # "up"
Terminated == Gone /\ Over /\ UNCHANGED vars

Next ==
  \/ Fork \/ Throw \/ Start \/ Release \/ CloseStdin \/ Waited
  \/ Deliver \/ Reactor
  \/ \E k \in Children :
       \/ Give(k) \/ Byte(k)
       \/ Exec(k) \/ StartWorker(k) \/ WorkerGone(k) \/ SupervisorKilled(k)
       \/ Work(k) \/ WorkerCrash(k) \/ WorkerEnd(k)
  \/ Terminated

Spec == Init /\ [][Next]_vars

(***************************************************************************)
(* Fairness: the threads of the manager go on, signals are delivered, and   *)
(* processes that can run do.  Nobody has to give jobs, to crash, to be     *)
(* killed, or to fail.                                                      *)
(***************************************************************************)
FairSpec ==
  /\ Spec
  /\ WF_vars(Fork) /\ WF_vars(Start)
  /\ WF_vars(Release) /\ WF_vars(CloseStdin) /\ WF_vars(Waited)
  /\ WF_vars(Deliver) /\ WF_vars(Reactor)
  /\ \A k \in Children :
       /\ WF_vars(Byte(k))
       /\ WF_vars(Exec(k)) /\ WF_vars(StartWorker(k)) /\ WF_vars(WorkerGone(k))
       /\ WF_vars(Work(k)) /\ WF_vars(WorkerEnd(k))

-----------------------------------------------------------------------------
Standards(p) == {d \in fds[p] : d.name = "standard"}

ShapesOK ==
  /\ main \in {"pool", "run", "close", "wait", "done", "exit4", "threw"}
  /\ at \in 0 .. NumChildren
  /\ sup \in [Children -> {"none", "forked", "up", "early", "dead", "reaped"}]
  /\ worker \in [Children -> {"none", "up", "crashed", "ended"}]
  /\ work \in [Children -> 0 .. MaxJobs] /\ left \in 0 .. MaxJobs
  /\ asks \in [Children -> 0 .. MaxAsks]
  /\ pending \in {"no", "main", "other"} /\ bytes \in Nat
  /\ kills \in 0 .. MaxKills

StreamsOK ==
  \A k \in Children :
    /\ sup[k] = "up" => Standards(Sup(k)) = StandardOf(k)
    /\ worker[k] = "up" => Standards(Wrk(k)) = StandardOf(k)

(* The shape of every variable; a supervisor or worker that runs has        *)
(* exactly its own pipes as stdin, stdout and stderr.                       *)
TypeOK == ShapesOK /\ StreamsOK

(* exec.childproc.cpp:266-281, 323-326: an end of file on a resend pipe is  *)
(* exit(8), and one on stdout or stderr a loop or a lost log.  Whichever    *)
(* supervisors and workers have died, none is met while the reactors run:   *)
(* somebody, if only the manager itself, can still write.                   *)
NoHangup ==
  Handling =>
    \A k \in Children, kind \in {"stdout", "stderr", "resend"} : Written(k, kind)

(* exec.capacity.cpp:138-144: close() comes to an end, though it waits for  *)
(* each child in turn, all of them have inherited each other's pipes, and   *)
(* some may have died, be reaped by the reactor, or crash all the time.     *)
Closes == main = "close" ~> main = "done"

(* However the manager ends, in the middle of child_pool, by a panic or     *)
(* after close(), no supervisor or worker outlives it for ever.             *)
NoOrphans == Gone ~> Over

(* exec.childproc.cpp:400-451: signals are merged by the kernel, but every  *)
(* supervisor that dies once SIGCHLD is handled is reaped or makes the      *)
(* manager panic.                                                           *)
DeathNoticed == \A k \in Children : sup[k] = "dead" ~> (sup[k] = "reaped" \/ Gone)

=============================================================================
