----------------------------- MODULE ChildLink ------------------------------
(***************************************************************************)
(* One child of the pool, from the manager's ring of jobs to the worker and *)
(* back (exec.childproc.cpp, the worker loop of exec.echo.cpp).             *)
(*                                                                          *)
(* Four kinds of actors meet here: the handlers of the control reactor (one *)
(* thread, which runs what is in its queue first come first served); the    *)
(* supervisor process, in the loop of fork_worker; the worker it starts,    *)
(* which reads ahead on stdin and may crash anywhere; and the auxiliary and *)
(* main threads, which reap the supervisor and close its stdin.             *)
(*                                                                          *)
(* A line is written and read as a unit: jobs are shorter than PIPE_BUF and *)
(* no pipe fills up.  What else travels on the resend pipe is the subject   *)
(* of module BackChannel.                                                   *)
(***************************************************************************)
EXTENDS Integers, Sequences, SequencesExt, Matching

CONSTANTS
  Jobs,             \* the texts of the jobs
  Junk,             \* what a destroyed std::string may hold
  Noise,            \* a line of the worker that reports no job
  Inputs,           \* the sequences of jobs next_job may give this child
  BufferSize,       \* wright::buffer_size
  MaxCrashes,       \* bound on the crashes while there is work
  LoopsWhenIdle,    \* may the worker crash again and again when all is done?
  Signals,          \* may the worker be killed by a signal?
  ExecFails         \* may execvp of the worker fail?

ASSUME ChildBufferAssumption == BufferSize \in Nat \ {0}
ASSUME ChildInputsAssumption == Inputs \subseteq Seq(Jobs)
ASSUME MaxCrashesAssumption == MaxCrashes \in Nat
ASSUME LinesAssumption == Junk \notin Jobs /\ Noise \notin Jobs
ASSUME FlagsAssumption == {LoopsWhenIdle, Signals, ExecFails} \subseteq BOOLEAN

VARIABLES
  input,            \* the jobs next_job has still to give to this child
  inputComplete,    \* capacity::input_complete
  ready,            \* the handlers in the queue of the control reactor
  feed,             \* next_job: the job written and not yet pushed
  commands,         \* childproc::commands, oldest first
  first,            \* the slot of the circular_buffer its front is in
  it,               \* the slot the resend loop is at, or NoSlot
  reported,         \* the jobs popped by handle_stdout
  stdinPipe, stdoutPipe, resendPipe,
  closed,           \* the manager has closed stdin of the child
  sup,              \* the supervisor: "wait", "fork", "exited" or "reaped"
  worker,           \* "none", "up", or how the last one has ended: "crashed",
                    \* "signalled", "failed" (to start) or "ended"
  wbuf,             \* the lines the worker has read ahead
  executed,         \* the jobs a worker has finished
  crashes,
  outcome           \* "run", or how the manager has ended

ringVars  == <<commands, first, it, reported>>
pipeVars  == <<stdinPipe, stdoutPipe, resendPipe, closed>>
childVars == <<sup, worker, wbuf, executed, crashes>>
vars == <<input, inputComplete, ready, feed, ringVars, pipeVars, childVars,
          outcome>>

(* Bound: how far a worker that crashes though it is idle may run ahead of  *)
(* the manager.                                                             *)
MaxIdleBytes == 2

R == INSTANCE Ring

Slots == R!Slots
NoSlot == R!NoSlot

Init ==
  /\ input \in Inputs /\ inputComplete = FALSE
  /\ ready = <<>> /\ feed = <<>>
  /\ commands = <<>> /\ first = 0 /\ it = NoSlot /\ reported = <<>>
  /\ stdinPipe = <<>> /\ stdoutPipe = <<>> /\ resendPipe = <<>>
  /\ closed = FALSE
  /\ sup = "fork" /\ worker = "none" /\ wbuf = <<>>
  /\ executed = {} /\ crashes = 0
  /\ outcome = "run"

Running == outcome = "run"

(* The iterator of the resend loop, moved on, and what it reads; a job that *)
(* has been destroyed is any text at all.                                   *)
NextSlot == R!Slot(it + 1)
PastLast == R!PastLast(commands, first)
Live(s) == R!Live(commands, first, s)
Content(s) ==
  IF Live(s) THEN {commands[R!Offset(first, s) + 1]} ELSE Jobs \cup {Junk}

(***************************************************************************)
(* The control reactor.  Queue(h) is the moment an event is noticed, or a   *)
(* completed operation posted; the handler at the head runs to its next     *)
(* yield.                                                                   *)
(***************************************************************************)
HasRoomAlways == TRUE
HasRoom == Len(commands) < BufferSize
HasEvent(h) ==
  \/ h = "give" /\ input # <<>> /\ feed = <<>> /\ HasRoom
  \/ h = "line" /\ stdoutPipe # <<>>
  \/ h = "byte" /\ resendPipe # <<>> /\ it = NoSlot

Queue(h) ==
  /\ Running
  /\ h \notin ToSet(ready)
  /\ HasEvent(h)
  /\ ready' = Append(ready, h)
  /\ UNCHANGED <<input, inputComplete, feed, ringVars, pipeVars, childVars,
                 outcome>>

(* One thread: the queue is first in, first out; no handler is in it twice. *)
RunsAny(h) == h \in ToSet(ready)
Runs(h) == ready # <<>> /\ Head(ready) = h
Taken(h) == RemoveAt(ready, CHOOSE i \in DOMAIN ready : ready[i] = h)

(* next_job as far as the yield in childproc::write: the whole line is in   *)
(* the pipe and the completion of the write is posted.                      *)
Give ==
  /\ Running /\ Runs("give")
  /\ stdinPipe' = Append(stdinPipe, Head(input))
  /\ feed' = <<Head(input)>>
  /\ input' = Tail(input)
  /\ ready' = Append(Taken("give"), "feed")
  /\ UNCHANGED <<inputComplete, ringVars, stdoutPipe, resendPipe, closed,
                 childVars, outcome>>

(* ... and from there: commands.push_back.                                  *)
Feed ==
  /\ Running /\ Runs("feed")
  /\ commands' = commands \o feed
  /\ feed' = <<>>
  /\ ready' = Taken("feed")
  /\ UNCHANGED <<input, inputComplete, first, it, reported, pipeVars,
                 childVars, outcome>>

(* handle_stdout: only the job at the front is looked for.                  *)
MatchesAny(line) == commands # <<>>
Matches(line) == commands # <<>> /\ line = Head(commands)
Line ==
  /\ Running /\ Runs("line")
  /\ \/ /\ Matches(Head(stdoutPipe))
        /\ reported' = Append(reported, Head(commands))
        /\ commands' = Tail(commands)
        /\ first' = R!Slot(first + 1)
     \/ /\ ~Matches(Head(stdoutPipe))
        /\ UNCHANGED <<reported, commands, first>>
  /\ stdoutPipe' = Tail(stdoutPipe)
  /\ ready' = Taken("line")
  /\ UNCHANGED <<input, inputComplete, feed, it, stdinPipe, resendPipe,
                 closed, childVars, outcome>>

(* The resend loop writes the job in slot s; a closed stdin is exit(7).     *)
Rewrite(s, queue) ==
  /\ \E line \in Content(s) :
       stdinPipe' = IF closed THEN stdinPipe ELSE Append(stdinPipe, line)
  /\ outcome' = IF closed THEN "exit7" ELSE outcome
  /\ it' = s
  /\ ready' = Append(queue, "resend")

(* handle_child_requests with a byte: an 'r' resends what is in the ring,   *)
(* or kills a child that keeps crashing though all is done; an 'x' says     *)
(* that the worker cannot be started.                                       *)
AllDoneHere == inputComplete /\ commands = <<>>
KillNoMatter == inputComplete
KillNever == FALSE
Kill == AllDoneHere
ResendFromSecond == R!Slot(first + 1)
ResendFrom == first
ExecFailureIgnored == outcome
ExecFailureExit == "exit10"
Byte ==
  /\ Running /\ Runs("byte")
  /\ resendPipe' = Tail(resendPipe)
  /\ \/ /\ Head(resendPipe) = "r" /\ Kill
        /\ sup' = IF sup \in {"wait", "fork"} THEN "exited" ELSE sup
        /\ ready' = Taken("byte")
        /\ UNCHANGED <<it, stdinPipe, outcome>>
     \/ /\ Head(resendPipe) = "r" /\ ~Kill /\ commands # <<>>
        /\ Rewrite(ResendFrom, Taken("byte"))
        /\ UNCHANGED sup
     \/ /\ Head(resendPipe) = "r" /\ ~Kill /\ commands = <<>>
        /\ ready' = Taken("byte")
        /\ UNCHANGED <<sup, it, stdinPipe, outcome>>
     \/ /\ Head(resendPipe) = "x"
        /\ outcome' = ExecFailureExit
        /\ ready' = Taken("byte")
        /\ UNCHANGED <<sup, it, stdinPipe>>
  /\ UNCHANGED <<input, inputComplete, feed, commands, first, reported,
                 stdoutPipe, closed, worker, wbuf, executed, crashes>>

(* The write of one resent job has completed: ++it.                         *)
Resend ==
  /\ Running /\ Runs("resend")
  /\ \/ /\ NextSlot = PastLast
        /\ it' = NoSlot
        /\ ready' = Taken("resend")
        /\ UNCHANGED <<stdinPipe, outcome>>
     \/ /\ NextSlot # PastLast
        /\ Rewrite(NextSlot, Taken("resend"))
  /\ UNCHANGED <<input, inputComplete, feed, commands, first, reported,
                 stdoutPipe, resendPipe, closed, childVars>>

(* exec_helper: stdin has ended and the last next_job has returned.         *)
InputDone ==
  /\ Running
  /\ ~inputComplete
  /\ input = <<>> /\ feed = <<>>
  /\ inputComplete' = TRUE
  /\ UNCHANGED <<input, ready, feed, ringVars, pipeVars, childVars, outcome>>

(* capacity::close on the main thread, once nothing is outstanding: close   *)
(* stdin, then waitpid.                                                     *)
NothingOutstandingIgnored == inputComplete
NothingOutstanding == inputComplete /\ commands = <<>>
Close ==
  /\ Running
  /\ NothingOutstanding
  /\ ~closed
  /\ closed' = TRUE
  /\ UNCHANGED <<input, inputComplete, ready, feed, ringVars, stdinPipe,
                 stdoutPipe, resendPipe, childVars, outcome>>

Waited ==
  /\ Running
  /\ closed
  /\ sup \in {"exited", "reaped"}
  /\ outcome' = "finished"
  /\ UNCHANGED <<input, inputComplete, ready, feed, ringVars, pipeVars,
                 childVars>>

(* sigchild_reactor on the auxiliary thread.                                *)
Reap ==
  /\ Running
  /\ sup = "exited"
  /\ \/ commands = <<>> /\ sup' = "reaped" /\ UNCHANGED outcome
     \/ commands # <<>> /\ outcome' = "exit4" /\ UNCHANGED sup
  /\ UNCHANGED <<input, inputComplete, ready, feed, ringVars, pipeVars,
                 worker, wbuf, executed, crashes>>

(***************************************************************************)
(* The supervisor process.                                                  *)
(***************************************************************************)
Fork ==
  /\ sup = "fork"
  /\ sup' = "wait"
  /\ \/ /\ worker' = "up"
        /\ UNCHANGED resendPipe
     \/ /\ ExecFails
        /\ worker' = "failed"
        /\ resendPipe' = Append(resendPipe, "x")
  /\ wbuf' = <<>>
  /\ UNCHANGED <<input, inputComplete, ready, feed, ringVars, stdinPipe,
                 stdoutPipe, closed, executed, crashes, outcome>>

(* WEXITSTATUS is zero for a worker that returned 0, for the copy of the    *)
(* supervisor that could not become a worker (line 65), and for a worker    *)
(* that was killed by a signal as well.                                     *)
ExitedZero == worker \in {"ended", "signalled", "failed"}
WorkerGone ==
  /\ sup = "wait"
  /\ \/ /\ ExitedZero
        /\ sup' = "exited"
        /\ UNCHANGED <<worker, resendPipe>>
     \/ /\ worker = "crashed"
        /\ sup' = "fork"
        /\ worker' = "none"
        /\ resendPipe' = Append(resendPipe, "r")
  /\ UNCHANGED <<input, inputComplete, ready, feed, ringVars, stdinPipe,
                 stdoutPipe, closed, wbuf, executed, crashes, outcome>>

(***************************************************************************)
(* The worker: std::getline fills its buffer, when that is empty, with what *)
(* the pipe has; each line is executed and then echoed.                     *)
(***************************************************************************)
WorkerRead ==
  /\ worker = "up" /\ wbuf = <<>>
  /\ \E n \in 1 .. Len(stdinPipe) :
       /\ wbuf' = SubSeq(stdinPipe, 1, n)
       /\ stdinPipe' = SubSeq(stdinPipe, n + 1, Len(stdinPipe))
  /\ UNCHANGED <<input, inputComplete, ready, feed, ringVars, stdoutPipe,
                 resendPipe, closed, sup, worker, executed, crashes, outcome>>

WorkerEcho ==
  /\ worker = "up" /\ wbuf # <<>>
  /\ executed' = executed \cup {Head(wbuf)}
  /\ stdoutPipe' = Append(stdoutPipe, Head(wbuf))
  /\ wbuf' = Tail(wbuf)
  /\ UNCHANGED <<input, inputComplete, ready, feed, ringVars, stdinPipe,
                 resendPipe, closed, sup, worker, crashes, outcome>>

(* A crash, with or without a last line on stdout; what was read ahead is   *)
(* lost.                                                                    *)
WorkerCrash ==
  /\ worker = "up"
  /\ \/ /\ crashes < MaxCrashes
        /\ crashes' = crashes + 1
        /\ stdoutPipe' \in {stdoutPipe, Append(stdoutPipe, Noise)}
     \/ /\ LoopsWhenIdle /\ AllDoneHere
        /\ Len(resendPipe) < MaxIdleBytes
        /\ UNCHANGED <<crashes, stdoutPipe>>
  /\ worker' = "crashed"
  /\ wbuf' = <<>>
  /\ UNCHANGED <<input, inputComplete, ready, feed, ringVars, stdinPipe,
                 resendPipe, closed, sup, executed, outcome>>

WorkerKilled ==
  /\ Signals
  /\ worker = "up"
  /\ crashes < MaxCrashes
  /\ crashes' = crashes + 1
  /\ worker' = "signalled"
  /\ wbuf' = <<>>
  /\ UNCHANGED <<input, inputComplete, ready, feed, ringVars, pipeVars, sup,
                 executed, outcome>>

(* getline meets the end of a closed and empty stdin.                       *)
WorkerEnd ==
  /\ worker = "up" /\ wbuf = <<>>
  /\ closed /\ stdinPipe = <<>>
  /\ worker' = "ended"
  /\ UNCHANGED <<input, inputComplete, ready, feed, ringVars, pipeVars, sup,
                 wbuf, executed, crashes, outcome>>

Terminated == ~Running /\ UNCHANGED vars

Handlers == {"give", "line", "byte"}

Next ==
  \/ \E h \in Handlers : Queue(h)
  \/ Give \/ Feed \/ Line \/ Byte \/ Resend
  \/ InputDone \/ Close \/ Waited \/ Reap
  \/ Fork \/ WorkerGone
  \/ WorkerRead \/ WorkerEcho \/ WorkerCrash \/ WorkerKilled \/ WorkerEnd
  \/ Terminated

Spec == Init /\ [][Next]_vars

(***************************************************************************)
(* Fairness: the reactor notices events and runs its handlers, processes    *)
(* that can run do, the main thread is released.  Nobody has to crash, to   *)
(* be killed, or to reap.                                                   *)
(***************************************************************************)
FairSpec ==
  /\ Spec
  /\ \A h \in Handlers : WF_vars(Queue(h))
  /\ WF_vars(Give \/ Feed \/ Line \/ Byte \/ Resend)
  /\ WF_vars(InputDone) /\ WF_vars(Close) /\ WF_vars(Waited)
  /\ WF_vars(Fork) /\ WF_vars(WorkerGone)
  /\ WF_vars(WorkerRead) /\ WF_vars(WorkerEcho) /\ WF_vars(WorkerEnd)

-----------------------------------------------------------------------------
Lines == Jobs \cup {Junk, Noise}

(* The shape of every variable; the ring never holds more than it has room  *)
(* for, the job in flight included.                                         *)
TypeOK ==
  /\ input \in Seq(Jobs) /\ inputComplete \in BOOLEAN
  /\ ready \in Seq(Handlers \cup {"feed", "resend"}) /\ IsInjective(ready)
  /\ feed \in Seq(Jobs) /\ commands \in Seq(Jobs) /\ reported \in Seq(Jobs)
  /\ Len(commands) + Len(feed) <= BufferSize
  /\ first \in Slots /\ it \in Slots \cup {NoSlot}
  /\ stdinPipe \in Seq(Lines) /\ stdoutPipe \in Seq(Lines)
  /\ resendPipe \in Seq({"r", "x"}) /\ closed \in BOOLEAN
  /\ sup \in {"wait", "fork", "exited", "reaped"}
  /\ worker \in {"none", "up", "crashed", "signalled", "failed", "ended"}
  /\ wbuf \in Seq(Lines) /\ executed \subseteq Lines
  /\ crashes \in 0 .. MaxCrashes
  /\ outcome \in {"run", "exit4", "exit7", "exit10", "finished"}

(* What the resend loop has still to write: the rest of the ring, and the   *)
(* job in flight if it will be pushed before the loop gets to the end.      *)
Before(g, h) == \E m, n \in DOMAIN ready : m < n /\ ready[m] = g /\ ready[n] = h
RestOfRing == R!Behind(commands, first, it)
ToResend ==
  IF it = NoSlot THEN <<>>
  ELSE IF RestOfRing # <<>> \/ Before("feed", "resend") THEN RestOfRing \o feed
  ELSE <<>>

CrashPending == worker # "up" \/ resendPipe # <<>>

(* wright-exec-helper/README.md:18: after a crash "any outstanding work is  *)
(* given to it again". Whenever no crash is left to be dealt with, the      *)
(* lines on their way will report every job of the ring, in whatever order  *)
(* the crash, the resend loop, its yields and new jobs came: none is        *)
(* stranded.                                                                *)
Recoverable ==
  ~CrashPending =>
    Among(commands \o feed, stdoutPipe \o wbuf \o stdinPipe \o ToResend)

(* exec.childproc.cpp:228-232: the resend loop yields at each write, while  *)
(* jobs are popped and pushed; its iterator is nevertheless never moved on  *)
(* to a job that has been destroyed.                                        *)
ResendReadsLive ==
  Running /\ Runs("resend") => NextSlot = PastLast \/ Live(NextSlot)

(* A job leaves the ring only when a worker has executed it, however many   *)
(* late answers to earlier copies of the jobs are still in the pipe.        *)
ReportedWasExecuted == ToSet(reported) \subseteq executed

(* The worker cannot be started, or has died in the way fork_worker takes   *)
(* for success (line 71).                                                   *)
Down == worker \in {"signalled", "failed"}

(* Lines 215-222, 405-449: the supervisor is killed, or gives up, only when *)
(* its child has no work, so that the helper never panics (exit 4); nothing *)
(* but a signal or a failing execvp makes it leave jobs behind.             *)
NeverStranded ==
  Running /\ sup \in {"exited", "reaped"} =>
    Down \/ (input = <<>> /\ feed = <<>> /\ commands = <<>>)

(* capacity::close runs on the main thread while the control reactor goes   *)
(* on: no handler writes to the stdin it has closed (exit 7).               *)
NoWriteAfterClose == outcome # "exit7"

Queued == INSTANCE ChildQueue WITH down <- Down \/ ~Running

(* The child is what Capacity takes it for, and reports all it is given.    *)
ImplementsQueue == Queued!Spec

(* The main thread's waitpid returns and the helper ends, even if a worker  *)
(* keeps crashing when there is nothing left to do ("Kill it", line 221);   *)
(* if the worker cannot be started it stops with exit 10 or 4, and only a   *)
(* worker killed by a signal can keep it from ending.                       *)
Ends ==
  <>(\/ outcome = "finished"
     \/ worker = "signalled"
     \/ (outcome \in {"exit4", "exit10"} /\ Down))

(* wright-exec-helper/README.md:18: "After a crash the worker needs to be   *)
(* restarted": the supervisor ends only when its worker met the end of      *)
(* stdin.                                                                   *)
RestartedAfterCrash == sup = "exited" => closed \/ AllDoneHere

=============================================================================
