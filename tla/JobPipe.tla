------------------------------ MODULE JobPipe -------------------------------
(***************************************************************************)
(* The stdin pipe of a child, byte by byte, when it can be full: next_job   *)
(* and the resend loop (exec.childproc.cpp:143-157, 227-232) are both in    *)
(* childproc::write then, and wait for room in the same pipe, while the     *)
(* worker waits for room on its stdout and the ring goes on changing.  A    *)
(* worker reads what the pipe has, be it half a line, and loses that in a   *)
(* crash.                                                                   *)
(*                                                                          *)
(* Complements ChildLink, where lines are units and writes never wait.      *)
(***************************************************************************)
EXTENDS Integers, Sequences, SequencesExt, Matching

CONSTANTS
  Letters,          \* what the text of a job is made of
  Newline, Garbage,
  Inputs,           \* the sequences of jobs next_job may give this child
  BufferSize,       \* wright::buffer_size
  PipeSize,         \* how many bytes the stdin pipe holds
  OutSize,          \* how many lines the stdout pipe holds
  MaxCrashes        \* bound on the crashes of workers

Jobs == UNION {ToSet(jobs) : jobs \in Inputs}

ASSUME PipeBufferAssumption == BufferSize \in Nat \ {0}
ASSUME PipeTextAssumption ==
  /\ Newline \notin Letters /\ Garbage \notin Letters \cup {Newline}
  /\ Inputs \subseteq Seq(Seq(Letters) \ {<<>>})

(* PIPE_BUF: the kernel takes a line of a job, newline included, all at     *)
(* once or not at all.                                                      *)
ASSUME AtomicAssumption == \A job \in Jobs : Len(job) + 1 <= PipeSize
ASSUME PipeBoundsAssumption == PipeSize \in Nat /\ OutSize \in Nat \ {0} /\ MaxCrashes \in Nat

VARIABLES
  input,            \* the jobs next_job has still to give to this child
  commands, first,  \* childproc::commands, and the slot of its front
  it,               \* the slot the resend loop is at, or no slot
  reported,         \* the jobs popped by handle_stdout
  writing,          \* the writes that wait for room, in their order
  stdinPipe,        \* bytes
  stdoutPipe,       \* lines
  asks,             \* the resend bytes in the resend pipe
  worker,           \* "up" or "down"
  wbuf,             \* the bytes the worker has read and not executed
  executed,         \* the lines workers have executed
  crashes

ringVars == <<commands, first, it, reported>>
workerVars == <<worker, wbuf, executed, crashes>>
vars == <<input, ringVars, writing, stdinPipe, stdoutPipe, asks, workerVars>>

R == INSTANCE Ring

Init ==
  /\ input \in Inputs
  /\ commands = <<>> /\ first = 0 /\ it = R!NoSlot /\ reported = <<>>
  /\ writing = <<>> /\ stdinPipe = <<>> /\ stdoutPipe = <<>> /\ asks = 0
  /\ worker = "up" /\ wbuf = <<>> /\ executed = {} /\ crashes = 0

(***************************************************************************)
(* childproc::write: one gathering write for the text and the newline.  It  *)
(* is tried at once; if there is no room, or another write waits already,   *)
(* it waits, and the reactor goes on with other things.  Operations on a    *)
(* descriptor are served in the order they were started; one with more to   *)
(* write than one write is queued again.                                    *)
(***************************************************************************)
WritesNewlineApart(job) == <<job, <<Newline>>>>
Writes(job) == <<Append(job, Newline)>>
Fits(bytes, pipe) == Len(pipe) + Len(bytes) <= PipeSize
Operation(by, job, queue, pipe) ==
  [by |-> by, job |-> job, writes |-> Writes(job),
   waits |-> queue # <<>> \/ ~Fits(Head(Writes(job)), pipe)]

Feeding == \E n \in DOMAIN writing : writing[n].by = "feed"

(* The thread of the control reactor does not wait in a write.              *)
ReactorFreeUnlessWriting == writing = <<>>
ReactorFree == writing # <<>> => Head(writing).waits

HasRoomAlways == TRUE
HasRoom == Len(commands) < BufferSize

(* next_job as far as childproc::write.                                     *)
Give ==
  /\ ReactorFree
  /\ input # <<>> /\ ~Feeding
  /\ HasRoom
  /\ writing' = Append(writing, Operation("feed", Head(input), writing, stdinPipe))
  /\ input' = Tail(input)
  /\ UNCHANGED <<ringVars, stdinPipe, stdoutPipe, asks, workerVars>>

(* The resend loop comes to slot s; a job that is no more is garbage.       *)
Text(s) ==
  IF R!Live(commands, first, s) THEN commands[R!Offset(first, s) + 1] ELSE <<Garbage>>
Resend(s, queue, pipe) ==
  /\ writing' = Append(queue, Operation("resend", Text(s), queue, pipe))
  /\ it' = s

ResendFromSecond == R!Slot(first + 1)
ResendFrom == first

(* handle_child_requests takes an 'r'.                                      *)
Byte ==
  /\ ReactorFree
  /\ asks > 0 /\ it = R!NoSlot
  /\ asks' = asks - 1
  /\ \/ commands = <<>> /\ UNCHANGED <<writing, it>>
     \/ commands # <<>> /\ Resend(ResendFrom, writing, stdinPipe)
  /\ UNCHANGED <<input, commands, first, reported, stdinPipe, stdoutPipe, workerVars>>

(* push_back after a new job, ++it after one that was resent.               *)
Completed(op, queue) ==
  \/ /\ op.by = "feed"
     /\ commands' = Append(commands, op.job)
     /\ writing' = queue
     /\ UNCHANGED it
  \/ /\ op.by # "feed"
     /\ R!Slot(it + 1) = R!PastLast(commands, first)
     /\ it' = R!NoSlot
     /\ writing' = queue
     /\ UNCHANGED commands
  \/ /\ op.by # "feed"
     /\ R!Slot(it + 1) # R!PastLast(commands, first)
     /\ Resend(R!Slot(it + 1), queue, stdinPipe')
     /\ UNCHANGED commands

(* There is room for the first write of the queue.  The resend loop gives   *)
(* asio the place of the job in the ring: if that was popped meanwhile, it  *)
(* may hold anything.                                                       *)
GarbageFor(bytes) == [n \in DOMAIN bytes |-> IF bytes[n] = Newline THEN Newline ELSE Garbage]
Write ==
  /\ writing # <<>>
  /\ LET op == Head(writing)
     IN /\ Fits(Head(op.writes), stdinPipe)
        /\ \/ stdinPipe' = stdinPipe \o Head(op.writes)
           \/ op.by = "dangling" /\ stdinPipe' = stdinPipe \o GarbageFor(Head(op.writes))
        /\ \/ Len(op.writes) = 1 /\ Completed(op, Tail(writing))
           \/ /\ Len(op.writes) > 1
              /\ writing' = Append(Tail(writing),
                                   [op EXCEPT !.writes = Tail(@), !.waits = TRUE])
              /\ UNCHANGED <<commands, it>>
  /\ UNCHANGED <<input, first, reported, stdoutPipe, asks, workerVars>>

(* handle_stdout; pop_front destroys the job the resend loop may be at.     *)
Dangling(op) == IF op.by = "resend" THEN [op EXCEPT !.by = "dangling"] ELSE op
Matches(line) == commands # <<>> /\ line = Head(commands)
Line ==
  /\ ReactorFree
  /\ stdoutPipe # <<>>
  /\ stdoutPipe' = Tail(stdoutPipe)
  /\ \/ /\ Matches(Head(stdoutPipe))
        /\ reported' = Append(reported, Head(commands))
        /\ commands' = Tail(commands)
        /\ first' = R!Slot(first + 1)
        /\ writing' = [n \in DOMAIN writing |->
                         IF first = it THEN Dangling(writing[n]) ELSE writing[n]]
     \/ /\ ~Matches(Head(stdoutPipe))
        /\ UNCHANGED <<commands, first, reported, writing>>
  /\ UNCHANGED <<input, it, stdinPipe, asks, workerVars>>

(***************************************************************************)
(* The worker: std::getline reads on until it has a newline; empty lines    *)
(* are skipped, others executed and printed.                                *)
(***************************************************************************)
HasLine(bytes) == Newline \in ToSet(bytes)
FirstLine(bytes) == SubSeq(bytes, 1, SelectInSeq(bytes, LAMBDA b : b = Newline) - 1)
AfterLine(bytes) == SubSeq(bytes, Len(FirstLine(bytes)) + 2, Len(bytes))

WorkerRead ==
  /\ worker = "up" /\ ~HasLine(wbuf)
  /\ \E n \in 1 .. Len(stdinPipe) :
       /\ wbuf' = wbuf \o SubSeq(stdinPipe, 1, n)
       /\ stdinPipe' = SubSeq(stdinPipe, n + 1, Len(stdinPipe))
  /\ UNCHANGED <<input, ringVars, writing, stdoutPipe, asks, worker, executed, crashes>>

WorkerLine ==
  /\ worker = "up" /\ HasLine(wbuf)
  /\ wbuf' = AfterLine(wbuf)
  /\ LET line == FirstLine(wbuf)
     IN \/ line = <<>> /\ UNCHANGED <<executed, stdoutPipe>>
        \/ /\ line # <<>> /\ Len(stdoutPipe) < OutSize
           /\ executed' = executed \cup {line}
           /\ stdoutPipe' = Append(stdoutPipe, line)
  /\ UNCHANGED <<input, ringVars, writing, stdinPipe, asks, worker, crashes>>

WorkerCrash ==
  /\ worker = "up"
  /\ crashes < MaxCrashes
  /\ crashes' = crashes + 1
  /\ worker' = "down" /\ wbuf' = <<>>
  /\ UNCHANGED <<input, ringVars, writing, stdinPipe, stdoutPipe, asks, executed>>

(* fork_worker: the next worker, and a resend byte.                         *)
Restart ==
  /\ worker = "down"
  /\ worker' = "up"
  /\ asks' = asks + 1
  /\ UNCHANGED <<input, ringVars, writing, stdinPipe, stdoutPipe, wbuf, executed, crashes>>

(* Where the system may stop.                                               *)
AllReported == input = <<>> /\ ~Feeding /\ commands = <<>>

Next ==
  \/ Give \/ Byte \/ Write \/ Line
  \/ WorkerRead \/ WorkerLine \/ WorkerCrash \/ Restart

Spec == Init /\ [][Next]_vars

(* Fairness: every coroutine of the reactor and every process goes on when  *)
(* it can.  Nobody has to crash.                                            *)
FairSpec ==
  /\ Spec
  /\ WF_vars(Give) /\ WF_vars(Byte) /\ WF_vars(Write) /\ WF_vars(Line)
  /\ WF_vars(WorkerRead) /\ WF_vars(WorkerLine) /\ WF_vars(Restart)

-----------------------------------------------------------------------------
Bytes == Letters \cup {Newline, Garbage}

(* The shape of every variable; the ring has room for the job in flight.    *)
TypeOK ==
  /\ input \in Seq(Jobs) /\ commands \in Seq(Jobs) /\ reported \in Seq(Jobs)
  /\ first \in R!Slots /\ it \in R!Slots \cup {R!NoSlot}
  /\ \A n \in DOMAIN writing :
       /\ writing[n].by \in {"feed", "resend", "dangling"}
       /\ \A m \in DOMAIN writing : writing[n].by = writing[m].by => n = m
  /\ Len(commands) + (IF Feeding THEN 1 ELSE 0) <= BufferSize
  /\ stdinPipe \in Seq(Bytes) /\ Len(stdinPipe) <= PipeSize
  /\ stdoutPipe \in Seq(Seq(Bytes)) /\ Len(stdoutPipe) <= OutSize
  /\ asks \in Nat /\ worker \in {"up", "down"}
  /\ wbuf \in Seq(Bytes) /\ executed \subseteq Seq(Bytes)
  /\ crashes \in 0 .. MaxCrashes

(* README.md:10: "Each job is a single line".  Whatever a crashed worker    *)
(* took with it, and whoever waits for room in the pipe, no line that is    *)
(* executed is made of two: it is a job, the end of one (its beginning was  *)
(* read by a worker that crashed) or the garbage of a job that was popped   *)
(* while the resend loop waited.                                            *)
IsEndOf(line, job) == \E n \in 1 .. Len(job) : line = SubSeq(job, n, Len(job))
NeverMerged ==
  \A line \in executed :
    ToSet(line) = {Garbage} \/ \E job \in Jobs : IsEndOf(line, job)

(* The jobs still to be written, in that order: those of the waiting writes *)
(* (what has been popped is no line), the rest of the resend loop, and the  *)
(* job in flight once more if it is pushed before the loop ends.            *)
Waiting ==
  [n \in DOMAIN writing |-> IF writing[n].by = "dangling" THEN <<>> ELSE writing[n].job]
InFlight ==
  IF Feeding THEN <<writing[CHOOSE n \in DOMAIN writing : writing[n].by = "feed"].job>>
  ELSE <<>>
Rest == IF it = R!NoSlot THEN <<>> ELSE R!Behind(commands, first, it)
FedAgain ==
  it # R!NoSlot /\ writing # <<>> /\ (Head(writing).by = "feed" \/ Rest # <<>>)
ToWrite == Waiting \o Rest \o (IF FedAgain THEN InFlight ELSE <<>>)

(* The lines of a stream, each at the place of its newline; all other       *)
(* places have an empty line, which no worker executes.                     *)
LineBegin(bytes, n) == SelectLastInSubSeq(bytes, 1, n - 1, LAMBDA b : b = Newline) + 1
LinesOf(bytes) ==
  [n \in DOMAIN bytes |->
     IF bytes[n] = Newline THEN SubSeq(bytes, LineBegin(bytes, n), n - 1) ELSE <<>>]

(* wright-exec-helper/README.md:18: after a crash "any outstanding work is  *)
(* given to it again".  When no crash is left to be dealt with, the bytes   *)
(* on their way and the writes that wait report every job of the ring,      *)
(* whatever fragments and garbage are among them.                           *)
Recoverable ==
  worker = "up" /\ asks = 0 =>
    Among(commands \o InFlight, stdoutPipe \o LinesOf(wbuf \o stdinPipe) \o ToWrite)

(* wright-exec-helper/README.md:18: after a crash "any outstanding work is  *)
(* given to it again": the helper does not get stuck with full pipes in     *)
(* both directions, and every job is reported.                              *)
Drained == <>AllReported

(* README.md:10: the worker "reads a line of input" and each line is a job: *)
(* no line is executed that is not one.  The garbage of a dangling resend   *)
(* is left out here: this is about the lines that were jobs once.           *)
OnlyJobs == \A line \in executed : line \in Jobs \/ ToSet(line) = {Garbage}

=============================================================================
