# A formal model of wright-exec-helper

`wright-exec-helper` reads job lines from stdin, has them executed by worker
processes that may crash, here and on other machines, and prints each job when
it is done. These TLA+ modules model that program: its manager, a child with
its pipes, supervisor and worker, the processes and descriptors of a pool of
children, the network between managers, the watchdogs and the exceptions of
coroutines. TLC checks small instances; TLAPS proves the safety properties of
all of them, and the safety part of the three refinements, for instances of any
size.

Paths below are relative to the repository; `exec.*` and `net.*` files are in
`Cpp/fost-wright`, headers in `Cpp/include/wright`, and "the README" is
`Cpp/wright-exec-helper/README.md`.

## 1. Inventory

Threads of a manager process: the main thread; one thread of the control
reactor, which runs every coroutine that touches the job queues; two threads
of the auxiliary reactor (signals, stderr, accepting); and the log thread.
Coroutines interleave only where they yield, threads anywhere.

| Component | State | Operations | Correct when |
|---|---|---|---|
| `wright::capacity` and the stdin coroutine (exec.capacity.cpp, exec.supervisor.cpp) | the limiter (limit, tokens out), `child_index`, the work map and capacity of each connection, the overspill, `input_complete` | `next_job`, both `job_done`, `additional`, `overspill_work`, `wait_until_all_done`, `close`; reading stdin; `clear_overspill` | the limit equals the slots and the tokens equal the jobs out; placing always finds a slot; no line is forgotten or printed too often; the helper ends with all of them printed |
| `childproc` and the signal reactor (exec.childproc.cpp) | a ring of jobs (`commands`, 3 slots), four pipes, a pid | `write`, `handle_stdout`, `handle_child_requests`, `sigchild_reactor`, `drain_stderr`, `close` | the child behaves like a queue, whatever crashes; no job is reported that was not executed; the supervisor is killed only when all is done |
| process supervisor (`fork_worker`) | the worker's pid | fork, wait, ask for a resend | a crashed worker is restarted and its jobs are given to it again |
| worker (`echo`, or the user's program) | read-ahead of stdin | read a line, work, print the line; crash | external to the protocol; may crash anywhere |
| resend pipe (rawfd log sink, `fork_worker`, `handle_child_requests`) | bytes in the pipe and in a streambuf | JSON messages ended by NUL, the bytes `r` and `x` | both kinds of writing are decoded as they were written |
| `connection`, packets, protocol (net.*.cpp) | negotiated version, out queue, socket, `g_connections` | `established`, inbound and outbound loops, `broadcast`, `close_all`, the four packets | an execute is never dropped or doubled; the peer is not flooded |
| client manager (`netvisor`) | a capacity of its own; the overspill is its input | overspill loop, completed packets, waiting for the end of the connection | every job is answered or given back; the process ends with the connection |
| watchdogs (exec.watchdog.cpp) | two timers in each direction | `beat` | no false alarm; a dead reactor is noticed |
| exceptions of coroutines (exception.hpp, the reactor pools) | the coroutines that are left | `exit_on_error`, `rethrow` | the helper ends rather than go on without a coroutine of the control reactor |
| `child_pool`, `fork_exec` (exec.childproc.*), pipes (pipe.hpp, pipe.cpp) | file descriptors, pids | the constructors, `fork_exec`, `parent`, `child`, both `close`; the SIGCHLD handler | no pipe hangs up while it is read, none is held open that delays an end of file; no process is left behind; every death is noticed |
| command line, settings, logging configuration | none after start-up | | |

How they interact: stdin and the overspill feed `next_job`, which waits for a
token, prefers connections with room and otherwise rotates over the children.
A token lives as long as its job is in a ring or in a work map. The children
report on stdout pipes, the supervisors ask for resends on resend pipes, the
kernel reports their deaths by SIGCHLD, clients report with completed packets,
and losses of connections turn work maps into overspill.

What is hard: yields in the middle of `next_job` and of the resend loop; losses
of a connection at any moment; answers to earlier copies of a job; crashes of a
worker that has read ahead, or read half a line; writes that wait for room in a
pipe; the end (closing pipes from the main thread while the control reactor goes
on); descriptors that every child inherits; signals that are merged or interrupt
the main thread; two writers and a lagging reader on one pipe; the
order of version packets, executes and broadcasts; timers of one reactor reset
by another. `PROJECT.json` lists these hazards one by one, at their lines.

## 2. Modules

| Module | What it is |
|---|---|
| `JobService` | abstract: lines are read, printed as often as they were read, and then the helper finishes |
| `Capacity` | the manager; implements `JobService` |
| `CapacityProofs` | theorems about `Capacity` |
| `ChildQueue` | abstract: what `Capacity` takes a child for, a bounded queue that reports its front |
| `Ring` | `boost::circular_buffer` with its slots, which iterators point to |
| `ChildLink` | one child in detail, line by line; implements `ChildQueue` |
| `JobPipe` | the stdin pipe of one child, byte by byte, when it can be full |
| `JobPipeProofs` | theorems about `JobPipe` |
| `Matching` | `Among`: jobs found, in order, among the lines on their way |
| `ChildLinkProofs` | theorems about `ChildLink` |
| `BackChannel` | the resend pipe of one child, byte by byte |
| `BackChannelProofs` | theorems about `BackChannel` |
| `Counting` | how often a value occurs in a sequence, or in some sequences |
| `RemoteQueue` | abstract: what `Capacity` takes a connection for |
| `Network` | one connection, its two ends and the client manager; implements `RemoteQueue` |
| `NetworkProofs` | theorems about `Network` |
| `Watchdog` | the two watchdogs, with discrete time, and exceptions |
| `WatchdogProofs` | theorems about `Watchdog` |
| `Pool` | all processes of a manager with their descriptors, from `child_pool` to `close` |
| `PoolProofs` | theorems about `Pool` |
| `SequenceLemmas` | lemmas about sequences, `Among`, `Copies` and finite sums that the proofs share |
| `MCCapacity`, `MCChildLink`, `MCJobPipe`, `MCBackChannel`, `MCNetwork` | the instances TLC checks |

The composition is by contract. `Capacity` has a ring of jobs in place of each
child and a work map in place of each client; `ChildLink` and `Network` show
that the concurrent, failing parts behind them keep those contracts, under the
assumptions of section 4. `ChildLink` in turn takes for granted that its pipes
neither fill up nor hang up; `JobPipe` drops the first assumption, and `Pool`
shows the second.

### Capacity

One action per stretch of code between two yields. `pc` is the place of the
stdin coroutine: `ClearOverspill`, `OverspillCleared`, `ReadLine`,
`EndOfInput`, then `PlaceRemote` or `PlaceLocal` and `Push` (the two sides of
the yield in `childproc::write`), and `Finish`. `LocalDone` is `handle_stdout`
with a matching line, `Additional`, `RemoteDone` and `Lost` are the handlers of
a connection. `limit` and `outstanding` are the limiter, whose tokens are not
objects in the model: `outstanding` is changed exactly where the code creates
or destroys a token, including the two places where a token is destroyed as a
side effect (an equal key in the work map, a push to a full ring).
`executing[x][j]` is what is on its way at client `x`, including what the
server no longer counts. A connection that never sends its version packet is
unknown to `capacity` and does not appear. `read` and `printed` are history,
and so is `late`, the jobs given back after `input_complete`, by which
`Completes` and `Implements` can tell the cases of section 6 (`Excused`) from
all others: with a job given back too late, or a line read twice, they promise
that the helper ends but not that everything is printed, with an empty line
nothing, and everything otherwise.

### ChildLink

The control reactor is a queue `ready` of handlers, which its single thread
runs first come first served; `Queue` is the moment an event is noticed. The
order matters: that the resend loop never reads a destroyed job depends on it,
and the mutant with a second thread breaks it. `first` and `it` are the slots
of the `circular_buffer`, so that an iterator kept over a yield is as wrong in
the model as in the code; a destroyed job reads as any text at all (`Content`).
`Fork`, `WorkerGone` are the supervisor, `Worker*` the worker with its
read-ahead, `Reap` the signal reactor, `InputDone`, `Close` and `Waited` the
end. `outcome` tells how the manager process ended (`exit4`, `exit7`, `exit10`
are the `std::exit` codes). A worker may crash, be killed by a signal
("signalled") or not be started at all ("failed"); in the latter two `down` of
`ChildQueue` is set, and the queue may stop. Jobs are lines shorter than
`PIPE_BUF`, and pipes do not fill up.

### JobPipe

The same coroutines where `childproc::write` may have to wait. `writing` is what
asio has queued for the descriptor; one gathering write takes a whole line or,
with no room, nothing (a line is shorter than `PIPE_BUF`). The reactor goes on
meanwhile: the ring is popped, and an operation of the resend loop whose job is
gone is "dangling", for `write` was given a reference to it. The worker reads
any part of the pipe, and takes half a line with it when it crashes.

### BackChannel

`pipe` and `buffer` hold the same bytes the code sees. `ReadOne` is
`async_read` with `transfer_exactly(1)`, which reads one byte more from the
pipe even if the streambuf is not empty; `ReadMore` and `TakeMessage` are
`async_read_until`, which may read beyond the NUL. Byte `x` is in `ChildLink`.

### Network

`Live`, `Announce` and `Broadcast` separate the two statements of
`established()`; `Send` and the `Receive*` actions are the outbound and
inbound coroutines at each end; `Place`, `PlaceLocal` and `CloseAll` are the
server's manager; `Consume`, `Give`, `Done`, `ResendAfterClose`, `ClientClose`,
`ChildEnd` and `Panic` the client's. `placed`, `answered` and `returned` record what has
become of the jobs, and no action looks at them. Each child of the client is a queue, as
`ChildQueue` says; `closed` is how far `capacity::close` has come with them.
`Cut` loses any suffix of what is on the wire in each direction; `CloseAll`
may lose a suffix of what the server sent, as TCP does when the closing side
has input it has not read.

### Watchdog

`Tick` advances time when no free reactor has anything due. A stalled reactor
sees no timer. `Collect` is the moment an expired killer is moved to the queue
of its reactor: from there on a late `beat` cannot cancel it. `Throw` is a
coroutine that ends with an exception: with `exit_on_error` the process ends,
and with `rethrow` the control reactor stops for good, which it is then up to
the dog on the auxiliary one to notice; the auxiliary reactor goes on.

### Pool

A descriptor is a name the code has for it and the end of a pipe it refers to;
`fds` gives every process its set. `Fork` copies the set of the manager, `Exec`
is `dup2`, `tidy` and `execvp` in the child, `StartWorker` the copy a worker
gets. Ends of file follow from the sets (`Read`, `Written`): `WorkerEnd` needs
that no process at all can still write to the worker's stdin. `Deliver` is the
signal handler, on the main thread or on another one, and `Reactor` the
auxiliary reactor that acts on its byte. A supervisor that dies before SIGCHLD
is handled is "early". `main = "close"` and `"wait"` are the two statements of
the loop of `capacity::close`.

## 3. Runs

| Run | Instance | Shows |
|---|---|---|
| `capacity` | 2 children with 1 slot, connections of capacity 1 and 2; four distinct lines, every input of up to four lines over two texts, an empty line; losses at any time | `TypeOK`, `TokenFindsSlot`, `TokensAccounted`, `NeverOverCommitted`, `NothingForgotten`, `PrintedNoMoreThanRead`, `Completes`, `Implements` (JobService) |
| `child` | ring of 2, three jobs with a repeated line, 2 crashes or kills anywhere, a worker that crashes for ever when idle, `execvp` that fails | `TypeOK`, `Recoverable`, `ResendReadsLive`, `ReportedWasExecuted`, `NeverStranded`, `NoWriteAfterClose`, `ImplementsQueue`, `Ends` |
| `backchannel` | messages of 3 and 4 bytes, 3 crashes, reads of up to 5 bytes | `TypeOK`, `DecodedInOrder`, `ReadAheadBounded`, `PipeDrained` |
| `network` | client of 2 children with 1 slot each, announcing 4; 5 jobs; one broadcast; cut at any time | `TypeOK`, `WorkInFlight`, `BacklogFits`, `CleanClientEnd`, `PrintedOrReturned`, `ImplementsRemote`, `ClientEnds` |
| `watchdog` | heartbeat 3 ticks, killer 6 ticks | `TypeOK`, `NoFalseAlarm`, `Noticed`, `NeverShort` |
| `pool` | 2 children, up to 2 jobs, 1 supervisor killed, `fork` and `pipe` that fail | `TypeOK`, `NoHangup`, `Closes`, `NoOrphans`, `DeathNoticed` |
| `jobpipe` | ring of 3 as in the code, 4 jobs of one and two letters, a stdin pipe of 5 bytes, a stdout pipe of 1 line, 2 crashes | `TypeOK`, `NeverMerged`, `Recoverable`, `Drained` |
| `late_loss`, `repeated_lines`, `signalled_worker`, `stuck_resend` | | the disagreements of section 6 |
| `torn_line` | two jobs of which no end is a job, ring of 2, a stdin pipe of 4 bytes, 1 crash | the disagreement of section 6, `OnlyJobs` |

Why the bounds are enough. `Capacity`: four lines are more than the two ring
slots, and with the connections there are states in which everything is full,
states in which a connection is full and a ring is not, and losses with one and
two jobs out. Two connections allow a job to be redistributed from one to the
other and lost again. `ChildLink`: three jobs make the ring of two wrap while a
resend is under way, and the second crash may fall into the first resend; the
ring of three of the code, with four jobs, is that of `JobPipe`. There the pipe
holds two jobs at most, so that the resend loop and `next_job` both wait, and
the stdout pipe one line, so that the worker waits as well. `Pool`: with two
children there is one that inherits and one that is inherited from, and both may
die before one signal is handled; a looping child may be asked for twice
(`MaxAsks`).
`BackChannel`: five bytes reach from one message into the next, over a resend
byte. `Network`: five jobs are one more than the client announces, whose two
children end one after the other with the other one still at work; one log
message can be in front of, between or behind the version packets. `Watchdog`:
with a tick of a third of a second stalls both shorter and longer than the
critical second occur. Bounds inside modules: `MaxCrashes`, `MaxIdleBytes`
(how far a worker crashing for ever may run ahead of the manager), `MaxLogs`,
`MaxStall`, `MaxAsks`, `MaxKills`, `MaxJobs`.

Deadlock is checked in `backchannel`, `network` and `watchdog`. Elsewhere the
system really may stop: in `capacity` an empty line leaves the helper waiting for
ever (section 6), in `child` and `pool` so does a child whose supervisor is gone,
and `jobpipe` stops when all jobs are reported, for it has no end of input.

## 4. Fairness

Safety runs assume none (the runs that check both kinds together do, which
changes nothing for the invariants). The liveness runs assume weak fairness of

- every coroutine: the reactor resumes what can run;
- stdin: whoever writes it closes it some day;
- children (`LocalDone`): justified by `child`, where it follows from
  fairness of the processes and finitely many crashes while there is work;
- clients (`RemoteDone`): justified by `network`, where every job sent is
  answered or given back;
- processes and threads in `ChildLink`, `JobPipe` and `Pool`, both ends in
  `Network`, both writers and the reader in `BackChannel`;
- the passing of time and the timers in `Watchdog`, where handlers of the
  auxiliary reactor come back. A handler that is in the queue of a reactor gets
  its turn even if that reactor is stalled again and again: strong fairness of
  `Kill`.

Nothing obliges a connection to come, go or be cut, a worker or a supervisor to
crash or to be killed, a job to be given in `Pool`, a log message to be written,
a coroutine to throw, or a `fork` to fail. In `ChildLink` the reactor need not
reap; in `Pool` signals are delivered and their bytes read.

## 5. Proofs

Each module of proofs has one inductive invariant, whose parts are named for
what they say. TLC has checked each of them as an invariant of a run before it was
proved.

### CapacityProofs

For any set of jobs and inputs, any number of children and slots, any finite set
of connections with any capacities:

| Theorem | Statement |
|---|---|
| `Invariance` | `Spec => []IInv` |
| `Typing` | `Spec => []TypeOK`: the unsigned counters never wrap, no ring overflows |
| `TokensAreSlots` | `Spec => []TokensAccounted` |
| `Committed` | `Spec => []NeverOverCommitted` |
| `RotationEnds` | `Spec => []TokenFindsSlot`: the rotation of `next_job` terminates |
| `Remembered` | `Spec => []NothingForgotten` |
| `PrintedOnce` | `Spec => []PrintedNoMoreThanRead` |
| `Refinement` | the safety part of `Implements`: every step is one of `JobService`, or changes nothing of it |

Assumptions: there is a child, rings have a slot, the set of connections is
finite and apart from the children, the capacities are natural numbers.

The inductive invariant `IInv` has four parts: the shapes of the variables; no
work map exceeds the capacity of its connection; `limit` is the cardinality of
the set of all slots; `outstanding` is the cardinality of the set of slots in
use. None of the properties is inductive alone: `TokenFindsSlot` speaks about
numbers and queues, and what relates them is that every step changes a counter
by the cardinality of what it adds to or takes from the sets. Each kind of step
has a lemma that says so (`PlaceRemoteCounted` ... `LostCounted`). `Placement`
maps the jobs in use injectively into the slots, which gives
`NeverOverCommitted`; were every queue full the map would be onto, and the two
counters equal, which gives `TokenFindsSlot`. `Remembered` needs `IInv` and one
lemma about steps: a job that is held is held afterwards or has been printed.

`PrintedOnce` counts: for each text the copies still queued (in hand, in the
overspill, in the rings and work maps) and those printed are together no more
than were read (`NoSurplus`); it is an inequality, since the work map keeps only one
of two equal lines. `Refinement` needs all of these, and `Draining`: after
the input is complete the overspill holds only what was given back late.
`Finish` then finds nothing left to print, except in the `Excused` cases.

### ChildLinkProofs

For any ring size, any jobs with any repetitions, and any number of crashes, kills
and workers that cannot be started:

| Theorem | Statement |
|---|---|
| `LinkInvariance` | `Spec => []LinkInv` |
| `LinkTyping` | `Spec => []TypeOK`: the slot `next_job` chose is still free after its yield |
| `ReportsAreHonest` | `Spec => []ReportedWasExecuted` |
| `ResendIsSafe` | `Spec => []ResendReadsLive`: the iterator kept over the yields of the resend loop never reaches a destroyed job |
| `NobodyIsStranded` | `Spec => []NeverStranded` |
| `ClosedForGood` | `Spec => []NoWriteAfterClose` |
| `NothingIsLost` | `Spec => []Recoverable` |
| `ChildIsAQueue` | the safety part of `ImplementsQueue` |

Assumptions: the ring has a slot, the inputs are sequences of jobs, the bound on
crashes is a number, and neither what a destroyed string holds nor a line of noise
is the text of a job.

`LinkInv` says in `ReadyInv` who is in the queue of the reactor and what he will find
there: each handler waits at most once, with what it waits for still in place.
`LoopInv` is why the resend loop is safe: between two of its writes its job may be
popped, but only by a report that came in earlier, so that the loop goes on at
the new front, and only while the ring cannot fill up behind it (`PoppedUnderLoop`).
`PhaseInv` says what the end of the input, the close and the end of the supervisor
imply; `EchoInv` that what is on stdout has been executed.

`Recoverable` says that some lines on their way report the jobs left, in order;
the difficulty is that the worker may crash, a resend may be half done, and the
lines may be copies of earlier ones. `Among(jobs, lines)` is that the
matching of `handle_stdout` finds each job, oldest first; `RecoverInv` has the jobs
of the ring and the one in flight among the lines on their way and those the
resend loop has yet to write. The lemmas about `Among` (adding and dropping lines
at either end, reporting the front) are in `SequenceLemmas`. It is not inductive
where the job in flight is not yet in the ring: a line that the worker had read
ahead is lost by a crash whose resend the loop serves before the push. `FeedInv` says
that the request always comes after the push, or the line of the job is still there.
`GreedyReports`, an assumption TLC evaluates with `MCChildLink`, ties `Among` to a
step-by-step reading of the loop of `handle_stdout`.

### JobPipeProofs

For a ring and pipes of any size, jobs of any length, and any number of crashes:

| Theorem | Statement |
|---|---|
| `PipeInvariance` | `Spec => []PipeInv` |
| `PipeTyping` | `Spec => []TypeOK`: the ring has room for the job whose write waits |
| `LinesStayApart` | `Spec => []NeverMerged`: no line that is executed is made of two |
| `PipeRecovers` | `Spec => []Recoverable`: what is on its way reports every job of the ring and the one in flight |

Assumptions: a line of a job, newline included, fits into the pipe at once, no
job is empty or contains a newline, and the ring has a slot.

`NeverMerged` speaks about lines that are already executed; `PipeInv` adds what is
still to come. `LinesInv`: whatever follows a place in the bytes on their way (those
read ahead and those in the pipe), up to the next newline, is a job, the end of one,
or garbage, and the last byte is a newline. It is about any place, because a worker may
stop reading anywhere and take what it has read with it when it crashes
(`LinesDropped`); a new write goes behind a newline (`LinesJoined`). `WritingInv`:
there is at most one write of `next_job` and one of the resend loop, each of one whole
line, and the latter exists exactly while the loop is at a slot.

`Recoverable` is preserved together with `PipeInv` and `LoopInv` (`RecoverInv`).
`LoopInv` says with what the resend loop waits for room: with the job of its slot, or,
once that has been popped, with garbage, and then no job that is pushed before
the loop goes on comes to the slot, so that none is passed over. A pop may thus leave
the loop behind the front, where it writes what no ring holds, but it does not
cost a job. `LinesOf` gives each line at the place of its newline, so that a stream
cut at a newline has the lines of its two halves (`LinesOfConcat`), and no fold is
needed. `Rec` is `Recoverable` for any lines, queue of writes and ring, with a
lemma for each kind of step: a job is given (`RecGive`), a waiting write goes
into the pipe (`RecFeed`, `RecNext`, `RecEnd`), a resend begins (`RecStart`), a line
reports the front (`RecPop`) or nothing (`RecSkip`), bytes are lost (`RecDrop`). A crash
that tears a line preserves it, because the resend byte of the crash is counted in
`asks` before the next worker is up.

### BackChannelProofs

For messages of any length, reads of any size, and any number of crashes:

| Theorem | Statement |
|---|---|
| `ChannelInvariance` | `Spec => []ChannelInv` |
| `ChannelTyping` | `Spec => []TypeOK`: the reader meets no byte it does not know |
| `NothingGarbled` | `Spec => []DecodedInOrder` |
| `ReadAheadStaysBounded` | `Spec => []ReadAheadBounded` |

Assumptions: the lengths and the bound on crashes are numbers, and a read returns at
least one byte.

`DecodedInOrder` is that the unread bytes encode what has been sent and not acted
on: the `n`-th byte that completes something means the `n`-th of these (`Encode`, which
counts such bytes rather than parse recursively). It is not inductive alone, for
the reader tells a message from a request by its first byte only. `FrameInv` says which
bytes may be next to which, and that the reader is in `async_read_until` exactly if
the unread bytes begin inside a message. `BehindInv` says that what lies behind the end of
a message in the streambuf came with one read, which bounds it.

### NetworkProofs

For any number of children and slots, any announced overspill, any number of log
messages:

| Theorem | Statement |
|---|---|
| `NetTyping` | `Spec => []TypeOK` |
| `NetInvariance` | `Distinct` implies `Spec => []NetInv` |
| `JobsInFlight` | ... `Spec => []WorkInFlight` |
| `RoomIsKept` | ... `Spec => []BacklogFits` |
| `ClientEndsCleanly` | ... `Spec => []CleanClientEnd` |
| `PrintedOrGivenBack` | ... `Spec => []PrintedOrReturned`: each job placed is outstanding, printed or given back, one of these; none is outstanding at the end, all are printed if nothing was cut |
| `RemoteIsAQueue` | ... the safety part of `ImplementsRemote` |

`Distinct` is the hypothesis that no input has the same line twice. The theorems
are false without it: the work map and the packets know a job by its text only,
which is the finding `repeated_lines`. `NetTyping` does not need it.

`NetInv` consists of `StreamsInv` (on the way from one end are only packets which
that end sends), `VersionsInv` (an end has negotiated, or a version packet comes to it
in front of any job: this is why the race of `broadcast` with `established` is
harmless), `PhaseInv` (the phases of the connection and of the client),
`PlacedOnce` and `SettledInv`, `WorkInFlight` itself, `BacklogInv` and `CleanInv`.
`PlacedOnce` has the `Partition` of the jobs placed, and that none of them is still in the
input; `SettledInv` that a connection which is gone and not cut was ended by the
server with an empty work map. Both hold across a cut. `WorkInFlight` is
about a connection that is up; what a client still holds when it is gone is covered by a
work map the server once had (`BacklogInv`), and is nothing if the server ended by
itself (`CleanInv`), for then every job had been answered. Copies are counted
by the operators of `Counting`, so that one step moves one copy from one place to
another.

### WatchdogProofs

For any two settings with the heartbeat before the killer, stalls of any length:

| Theorem | Statement |
|---|---|
| `DogTyping` | `Spec => []TypeOK`: no heartbeat is due after its killer |
| `NoDogBarksInVain` | `Spec => []NoFalseAlarm` |
| `StallsNoticed` | `Spec => []Noticed` |

`MaxStall` bounds only the counters of the model, above the time of the killer.
`KillerFollows` ties the killer to the heartbeat as long as that is not due, and
to the length of the stall afterwards; it is what `NoFalseAlarm` lacks to be inductive.
`StallSeen` does the same for `Noticed`: while the other reactor is never held up a
stall and the time its killer has left are together no more than the killer's setting.

### PoolProofs

For any number of children, jobs and killed supervisors,
whether or not `fork` can fail:

| Theorem | Statement |
|---|---|
| `Invariance` | `Spec => []IInv` |
| `Typing` | `Spec => []TypeOK`: a supervisor or worker that runs has exactly its own pipes as standard streams |
| `PipesStayOpen` | `Spec => []NoHangup`: the manager meets the end of none of the pipes it reads |

Assumptions: there is a child, and the bounds are natural numbers. `NoHangup` is
not inductive: the processes it lets keep a pipe open may all die. `IInv` adds
why that does not matter. From `Fork` until its own end the manager holds the
`child_fd` of every pipe it reads (`Keeps`), since `close()` takes only the ends
of stdin. `TypeOK` needs that the jobs of a child and those to come are bounded
together, and that a worker that has crashed has its resend byte still to send
(`Bounds`). The streams of a supervisor are made by `Exec` (`ExecStandard`), those of
a worker copied from its supervisor; no other step starts a process or touches
the descriptors of one that runs.

### Only model-checked

Every safety invariant and action property of the passing runs has a theorem.
All liveness has only its runs: `Completes`, `Ends`,
`ClientEnds`, `NeverShort`, `Closes`, `NoOrphans`, `DeathNoticed`, `PipeDrained`,
`Drained`, and the fairness of the three abstract specifications. Liveness under fairness,
ENABLED and induction over recursive definitions are not within reach of the
provers used.

## 6. Where the code and its documentation disagree

- `late_loss`: a connection lost after `input_complete` is set returns its jobs
  to an overspill that is never read again (exec.capacity.cpp:99); the helper
  ends without printing them. The README (line 69) promises redistribution.
- `repeated_lines`: the work map is keyed by the text of the job
  (exec.capacity.cpp:47), so that of two equal lines at one client only one is
  printed.
- `signalled_worker`: `WEXITSTATUS` of a signalled worker is zero
  (exec.childproc.cpp:71); its supervisor ends instead of restarting it.
- `stuck_resend`: a resend byte that was read ahead with a log message waits for
  one more byte (exec.childproc.cpp:203).

- `torn_line`: a worker that crashes may have read half a line, the "a" of "ab"; the
  other half, "b" (`OnlyJobs` leaves the garbage of a dangling resend aside), is
  still in the pipe, what is resent comes behind it (exec.childproc.cpp:230), and
  the next worker executes it as a job. `NeverMerged` says that it is never worse
  than that: two jobs do not become one.

More follow from definitions of the models and have no run:

- an empty line hangs the helper (`LocalDone` never reports it, and `Completes`
  names it);
- the overspill is not looked at while stdin is open and silent
  (`ClearOverspill` needs `pc = "clear"`);
- a child that was reaped while idle is given jobs again (`Give` does not look
  at `sup`), and so is one that died before SIGCHLD was handled ("early" in
  `Pool`) until another signal comes;
- a resend that waits for room in the pipe writes a job that may have been
  popped and destroyed meanwhile ("dangling" in `JobPipe`; exec.childproc.cpp:230
  passes a reference to an element of the ring over a yield). No job is lost by
  it, but the worker executes whatever the memory holds;
- the handler of SIGCHLD has no `SA_RESTART` (exec.childproc.cpp:377), so that the
  death of one child ends the `waitpid` of `capacity::close` for another, and
  the helper may be done while a supervisor still runs, although
  exec.supervisor.cpp:173 says "Wait for children". It needs only an idle child
  whose worker loops: it is killed while the main thread waits for another one
  (`Interrupted` in `Pool`). `NoOrphans` shows that the one left ends by itself;
- two resend bytes of a looping worker make the manager kill the same pid twice,
  by then perhaps reaped (`Byte` in `Pool`);
- if `execvp` of the supervisor itself fails, `fork_exec` returns in the child
  (exec.childproc.hpp:83), which goes on as a second manager. Not in `Pool`.

## 7. Not modelled

- `drain_stderr` and job timing: pure output. Settings, the command line and the
  logging configuration: read once, no state afterwards.
- Packet encoding and fragments of lines on the stdin of the manager; lines
  longer than `PIPE_BUF`, whose writes are not atomic.
- Data races inside libraries: `close_all` closes sockets from the main thread
  (net.connection.cpp:81), `sigchild_reactor` reads a ring the control reactor
  changes (exec.childproc.cpp:405). The models take both as atomic.
- Process identifiers that are used again, and a failing `execvp` of a supervisor.
- Peers that do not follow the protocol, accepting of connections, and several
  connections at once below the level of `Capacity`.

External and taken from how the code uses them: the limiter and queues of
f5-threading, the reactor pool that stops or goes on after an exception, the
reads and writes of Boost.Asio, `boost::circular_buffer`, pipes, signals and
processes of the kernel, and in fost-hod that `established()` runs before its
end receives anything and that packets unknown to the negotiated version are
only logged.

## 8. Plan

Done, in this order: `Capacity` with `JobService` and its proofs, `ChildLink`
with `ChildQueue`, `BackChannel`, `Network` with `RemoteQueue`, `Watchdog`; then
`Pool`, `JobPipe`, exceptions in `Watchdog`, and a client with several children
in `Network`; the theorems about `Pool`; then those about `Watchdog`, `ChildLink` and
`Network`, the two about `Capacity` that count lines, and those about `BackChannel`
and `JobPipe`; last `Recoverable` of `JobPipe`, restated without folds, by the places
of the newlines and `Among`. No safety property is left to prove; what would
extend the models is listed in section 7.
