------------------------------ MODULE Capacity ------------------------------
(***************************************************************************)
(* The manager of wright-exec-helper: the coroutine that feeds jobs from    *)
(* stdin (exec.supervisor.cpp) and the wright::capacity object it shares    *)
(* with the coroutines of the children and of the network connections       *)
(* (exec.capacity.cpp).  All of them run on the one thread of the control   *)
(* reactor, so a step of this module is what one handler does between two   *)
(* yields, and the steps interleave in any order.                           *)
(*                                                                          *)
(* A child is a queue of at most BufferSize jobs that reports its front;    *)
(* how the pipes, the crashes and the resends keep that promise is the      *)
(* subject of module ChildLink.  A network client is the bag of jobs it has *)
(* been sent and has not answered.                                          *)
(***************************************************************************)
EXTENDS Integers, Sequences, SequencesExt, FiniteSets

CONSTANTS
  Jobs,             \* the texts of the lines that may appear on stdin
  Blank,            \* the text of an empty line
  Inputs,           \* the sequences of lines stdin may hold
  NumChildren,      \* pool.children.size()
  BufferSize,       \* wright::buffer_size, the ring of each child
  Conns,            \* the connections that may be accepted
  RemoteCap,        \* RemoteCap[x]: capacity in the version packet of x
  LossAfterInput    \* may a connection be lost after input_complete is set?

Children == 0 .. NumChildren - 1

ASSUME ChildrenAssumption == NumChildren \in Nat \ {0}
ASSUME BufferAssumption == BufferSize \in Nat \ {0}
ASSUME InputsAssumption == Inputs \subseteq Seq(Jobs)
ASSUME ConnsAssumption == IsFiniteSet(Conns) /\ Conns \cap Children = {}
ASSUME RemoteCapAssumption == RemoteCap \in [Conns -> Nat]
ASSUME LossAssumption == LossAfterInput \in BOOLEAN

VARIABLES
  input,            \* the lines still on stdin
  pc,               \* where the stdin coroutine is
  eof,              \* it has left its while loop
  hand,             \* the job it is placing (next_job's argument)
  inputComplete,    \* capacity::input_complete
  limit,            \* limiter: how many jobs may be outstanding
  outstanding,      \* limiter: how many limiter::job tokens exist
  childIndex,       \* capacity::child_index
  commands,         \* commands[c]: childproc::commands of child c
  conns,            \* the keys of capacity::connections
  gone,             \* the connections whose inbound loop has ended
  work,             \* work[x]: the keys of remote::work of connection x
  executing,        \* executing[x][j]: executes of j that x has to answer
  late,             \* the jobs given back after input_complete was set
  overspill,        \* capacity::overspill
  read,             \* read[j]: lines j taken from stdin so far
  printed           \* printed[j]: lines j printed on stdout so far

stdinVars == <<input, pc, eof, hand, inputComplete>>
limitVars == <<limit, outstanding>>
queueVars == <<childIndex, commands>>
netVars   == <<conns, gone, work, executing, late>>
vars == <<stdinVars, limitVars, queueVars, netVars, overspill, read, printed>>

NoJob == [j \in Jobs |-> 0]

Init ==
  /\ input \in Inputs
  /\ pc = "clear" /\ eof = FALSE /\ hand = <<>>
  /\ inputComplete = FALSE
  /\ limit = NumChildren * BufferSize
  /\ outstanding = 0
  /\ childIndex = 0
  /\ commands = [c \in Children |-> <<>>]
  /\ conns = {} /\ gone = {}
  /\ work = [x \in Conns |-> {}]
  /\ executing = [x \in Conns |-> NoJob]
  /\ late = {}
  /\ overspill = <<>>
  /\ read = NoJob
  /\ printed = NoJob

(***************************************************************************)
(* The stdin coroutine.  pc is "clear" (in clear_overspill), "read" (in     *)
(* async_read_until), "token" (in limiter::next_job), "push" (in the write  *)
(* to a child's pipe), "wait" (in wait_until_all_done) or "done" (blocker   *)
(* is set and the main thread closes everything).                           *)
(***************************************************************************)
Running == pc # "done"

ClearOverspill ==
  /\ pc = "clear"
  /\ overspill # <<>>
  /\ hand' = <<Head(overspill)>>
  /\ overspill' = Tail(overspill)
  /\ pc' = "token"
  /\ UNCHANGED <<input, eof, inputComplete, limitVars, queueVars, netVars,
                 read, printed>>

(* The overspill is found empty: back to stdin, or, when stdin has ended,   *)
(* input_complete is set in the same handler.                               *)
OverspillCleared ==
  /\ pc = "clear"
  /\ overspill = <<>>
  /\ pc' = IF eof THEN "wait" ELSE "read"
  /\ inputComplete' = eof
  /\ UNCHANGED <<input, eof, hand, limitVars, queueVars, netVars, overspill,
                 read, printed>>

ReadLine ==
  /\ pc = "read"
  /\ input # <<>>
  /\ hand' = <<Head(input)>>
  /\ input' = Tail(input)
  /\ read' = [read EXCEPT ![Head(input)] = @ + 1]
  /\ pc' = "token"
  /\ UNCHANGED <<eof, inputComplete, limitVars, queueVars, netVars,
                 overspill, printed>>

(* The loop is left for one more clear_overspill.                           *)
AfterInputNoClear(next) == next = "wait"
AfterInput(next) == next = "clear"
EndOfInput ==
  /\ pc = "read"
  /\ input = <<>>
  /\ eof' = TRUE
  /\ AfterInput(pc')
  /\ UNCHANGED <<input, hand, inputComplete, limitVars, queueVars, netVars,
                 overspill, read, printed>>

(* A connection with spare capacity, a child whose ring is full.            *)
HasRoom(x) == RemoteCap[x] > Cardinality(work[x])
Full(c) == Len(commands[c]) = BufferSize

(* limiter::next_job returns once there is a free slot.                     *)
TokenFree == outstanding < limit

(* next_job, the network half: `work[job] = move(task)` replaces, and so    *)
(* destroys, the token of an equal job already sent to that connection.     *)
TokensAfterSendNoReplace(x, j) == outstanding + 1
TokensAfterSend(x, j) == IF j \in work[x] THEN outstanding ELSE outstanding + 1
PlaceRemote(x) ==
  /\ pc = "token" /\ TokenFree
  /\ x \in conns /\ HasRoom(x)
  /\ work' = [work EXCEPT ![x] = @ \cup {hand[1]}]
  /\ outstanding' = TokensAfterSend(x, hand[1])
  /\ executing' = [executing EXCEPT ![x][hand[1]] = @ + 1]
  /\ hand' = <<>>
  /\ pc' = "clear"
  /\ UNCHANGED <<input, eof, inputComplete, limit, queueVars, conns, gone,
                 late, overspill, read, printed>>

(* The child the do-while rotation stops at: the first one after            *)
(* child_index whose ring is not full.  If there is none the loop never     *)
(* yields again: TokenFindsSlot says that this cannot happen.               *)
Rotated(k) == (childIndex + k) % NumChildren
NextFree(c) ==
  \E k \in 1 .. NumChildren :
    /\ c = Rotated(k)
    /\ ~Full(c)
    /\ \A i \in 1 .. k - 1 : Full(Rotated(i))

(* next_job, the local half, as far as the yield in childproc::write.       *)
PlaceLocal(c) ==
  /\ pc = "token" /\ TokenFree
  /\ \A x \in conns : ~HasRoom(x)
  /\ NextFree(c)
  /\ childIndex' = c
  /\ outstanding' = outstanding + 1
  /\ pc' = "push"
  /\ UNCHANGED <<input, eof, hand, inputComplete, limit, commands, netVars,
                 overspill, read, printed>>

(* commands.push_back: on a full circular_buffer it overwrites the oldest   *)
(* job, whose token is destroyed with it.                                   *)
Push ==
  LET q == commands[childIndex] IN
  /\ pc = "push"
  /\ commands' = [commands EXCEPT ![childIndex] =
                    Append(IF Full(childIndex) THEN Tail(q) ELSE q, hand[1])]
  /\ outstanding' = IF Full(childIndex) THEN outstanding - 1 ELSE outstanding
  /\ hand' = <<>>
  /\ pc' = "clear"
  /\ UNCHANGED <<input, eof, inputComplete, limit, childIndex, netVars,
                 overspill, read, printed>>

(* wait_until_all_done returns and the main thread is released.             *)
NoneOutstandingIgnored == inputComplete
NoneOutstanding == outstanding = 0
Finish ==
  /\ pc = "wait"
  /\ NoneOutstanding
  /\ pc' = "done"
  /\ UNCHANGED <<input, eof, hand, inputComplete, limitVars, queueVars,
                 netVars, overspill, read, printed>>

(***************************************************************************)
(* The coroutines of the children and of the connections.                   *)
(***************************************************************************)

(* handle_stdout reads the front job of the ring: pop, print, release.  An  *)
(* empty line never counts as the report of a job (`not ret.empty()`).      *)
PoppedNot(q) == q
Popped(q) == Tail(q)
LocalDone(c) ==
  /\ Running
  /\ commands[c] # <<>>
  /\ Head(commands[c]) # Blank
  /\ commands' = [commands EXCEPT ![c] = Popped(@)]
  /\ outstanding' = outstanding - 1
  /\ printed' = [printed EXCEPT ![Head(commands[c])] = @ + 1]
  /\ UNCHANGED <<stdinVars, limit, childIndex, netVars, overspill, read>>

(* in::version on the server side: capacity::additional.                    *)
Additional(x) ==
  /\ Running
  /\ x \notin conns \cup gone
  /\ conns' = conns \cup {x}
  /\ limit' = limit + RemoteCap[x]
  /\ UNCHANGED <<stdinVars, outstanding, queueVars, gone, work, executing,
                 late, overspill, read, printed>>

(* in::completed: capacity::job_done(cnx, job).  A job that is no longer in *)
(* the work map is only logged.  The client reads its own children with the *)
(* same handle_stdout, so it never answers an empty line.                   *)
Answer(x, j) ==
  /\ executing[x][j] > 0
  /\ j # Blank
  /\ executing' = [executing EXCEPT ![x][j] = @ - 1]
RemoteDone(x, j) ==
  /\ Running
  /\ x \in conns
  /\ Answer(x, j)
  /\ \/ /\ j \in work[x]
        /\ work' = [work EXCEPT ![x] = @ \ {j}]
        /\ outstanding' = outstanding - 1
        /\ printed' = [printed EXCEPT ![j] = @ + 1]
     \/ /\ j \notin work[x]
        /\ UNCHANGED <<work, outstanding, printed>>
  /\ UNCHANGED <<stdinVars, limit, queueVars, conns, gone, late, overspill,
                 read>>

(* process_inbound ends: capacity::overspill_work.  The work map is read in *)
(* the order of the job texts, which this module leaves open.               *)
RedistributedNothing(x) == {<<>>}
Redistributed(x) == SetToSeqs(work[x])
LimitWithoutUnchanged(x) == limit
LimitWithout(x) == limit - RemoteCap[x]
TokensWithoutLeak(x) == outstanding
TokensWithoutWholeCap(x) == outstanding - RemoteCap[x]
TokensWithout(x) == outstanding - Cardinality(work[x])
Lost(x) ==
  /\ Running
  /\ x \in conns
  /\ LossAfterInput \/ ~inputComplete
  /\ \E s \in Redistributed(x) : overspill' = overspill \o s
  /\ limit' = LimitWithout(x)
  /\ outstanding' = TokensWithout(x)
  /\ conns' = conns \ {x}
  /\ gone' = gone \cup {x}
  /\ work' = [work EXCEPT ![x] = {}]
  /\ executing' = [executing EXCEPT ![x] = NoJob]
  /\ late' = IF inputComplete THEN late \cup work[x] ELSE late
  /\ UNCHANGED <<stdinVars, queueVars, read, printed>>

(* The process has released its main thread and is about to close.          *)
Terminated == pc = "done" /\ UNCHANGED vars

Stdin ==
  \/ ClearOverspill \/ OverspillCleared \/ ReadLine \/ EndOfInput
  \/ \E x \in Conns : PlaceRemote(x)
  \/ \E c \in Children : PlaceLocal(c)
  \/ Push \/ Finish

Next ==
  \/ Stdin
  \/ \E c \in Children : LocalDone(c)
  \/ \E x \in Conns : Additional(x) \/ Lost(x)
  \/ \E x \in Conns, j \in Jobs : RemoteDone(x, j)
  \/ Terminated

Spec == Init /\ [][Next]_vars

(***************************************************************************)
(* Fairness.  A coroutine that can run is eventually resumed by the         *)
(* reactor; a child reports the job at its front (ChildLink says when that  *)
(* may be assumed); a client answers what it was sent or its connection is  *)
(* lost.  Nothing obliges a connection to come or to go.                    *)
(***************************************************************************)
WorkersFair ==
  /\ \A c \in Children : WF_vars(LocalDone(c))
  /\ \A x \in Conns, j \in Jobs : WF_vars(RemoteDone(x, j))

(* stdin ends: whoever writes to the pipe closes it some day.               *)
FairSpec == Spec /\ WF_vars(Stdin) /\ WorkersFair

-----------------------------------------------------------------------------
(* The places a job can be, and the slots of all the queues.                *)
Held(j) ==
  \/ hand = <<j>>
  \/ j \in ToSet(overspill)
  \/ \E c \in Children : j \in ToSet(commands[c])
  \/ \E x \in conns : j \in work[x]

LocalSlots == Children \X (1 .. BufferSize)
RemoteSlots(x) == {x} \X (1 .. RemoteCap[x])
Slots == LocalSlots \cup UNION {RemoteSlots(x) : x \in conns}

(* The slots in use; the child write in flight has been promised one.       *)
Promised(c) == IF pc = "push" /\ c = childIndex THEN 1 ELSE 0
InRing == {s \in LocalSlots : s[2] <= Len(commands[s[1]]) + Promised(s[1])}
InWork == {s \in conns \X Jobs : s[2] \in work[s[1]]}
Occupied == InRing \cup InWork

(* The shape of every variable; no ring holds more than it has room for.    *)
ShapesOK ==
  /\ input \in Seq(Jobs)
  /\ pc \in {"clear", "read", "token", "push", "wait", "done"}
  /\ eof \in BOOLEAN /\ inputComplete \in BOOLEAN
  /\ hand \in Seq(Jobs)
  /\ Len(hand) = IF pc \in {"token", "push"} THEN 1 ELSE 0
  /\ limit \in Int /\ outstanding \in Int
  /\ childIndex \in Children
  /\ commands \in [Children -> Seq(Jobs)]
  /\ \A c \in Children : Len(commands[c]) + Promised(c) <= BufferSize
  /\ conns \in SUBSET Conns /\ gone \in SUBSET Conns
  /\ work \in [Conns -> SUBSET Jobs]
  /\ executing \in [Conns -> [Jobs -> Nat]]
  /\ overspill \in Seq(Jobs)
  /\ late \in SUBSET Jobs
  /\ read \in [Jobs -> Nat] /\ printed \in [Jobs -> Nat]

(* The two counters of the limiter are unsigned: neither ever wraps below   *)
(* zero, although every loss of a connection subtracts from both.           *)
TypeOK == ShapesOK /\ limit \in Nat /\ outstanding \in Nat

(* exec.capacity.cpp:37-39, "The limit capacity must exactly equal the      *)
(* total slot capacity in all queues": whenever next_job gets a token, some *)
(* connection or some ring can take the job, so that the rotation over the  *)
(* children (lines 52-60) ends, whatever connections came and went.         *)
TokenFindsSlot ==
  pc = "token" /\ TokenFree =>
    (\E x \in conns : HasRoom(x)) \/ (\E c \in Children : ~Full(c))

(* The limiter counts exactly the queued jobs: a token is released when,    *)
(* and only when, its job leaves a ring or a work map (pop, erase, an equal *)
(* job sent to the same connection, the loss of the connection).            *)
TokensAccounted == outstanding = Cardinality(Occupied)

(* The loss of a connection shrinks the limit and the count together: the   *)
(* manager never has more jobs out than it has slots for.                   *)
NeverOverCommitted == outstanding <= limit

(* A line read from stdin has been printed or is still somewhere in the     *)
(* manager: no order of placing, losing connections and redistributing      *)
(* makes it disappear.                                                      *)
NothingForgotten == \A j \in Jobs : read[j] > 0 => printed[j] > 0 \/ Held(j)

(* However often a job is sent again after a loss, and although a client    *)
(* that was cut off may have done it, it is printed once per line read.     *)
PrintedNoMoreThanRead == \A j \in Jobs : printed[j] <= read[j]

AllPrinted == printed = read

(* The two ways of losing a line, each with a run of its own: a connection  *)
(* is lost too late for its jobs to be placed again, and equal lines share  *)
(* a key of a work map.                                                     *)
Excused == late # {} \/ \E j \in Jobs : read[j] > 1

(* The helper ends, and by then it has printed every line of its input,     *)
(* unless it is excused; nothing but an empty line makes it hang            *)
(* (exec.supervisor.cpp:162-165, exec.childproc.cpp:313).                   *)
Completes ==
  <>[](\/ pc = "done" /\ input = <<>> /\ (AllPrinted \/ Excused)
       \/ Held(Blank))

(* exec.capacity.hpp:74, "Wait until all of the outstanding work is done":  *)
(* when the main thread is released every line read has been printed.       *)
DoneMeansPrinted == pc = "done" => AllPrinted

Promise == INSTANCE JobService WITH finished <- pc = "done" /\ ~Excused

(* The manager implements the promise of module JobService: a line is       *)
(* printed only for a line read, and a helper that is not excused finishes  *)
(* with everything printed.                                                 *)
Implements == Promise!Spec

=============================================================================
