------------------------------- MODULE Network -------------------------------
(***************************************************************************)
(* One client connected to one server (net.connection.cpp, net.packets.cpp, *)
(* net.server.cpp, exec.netvisor.cpp), from the connection's establishment  *)
(* to its end.                                                              *)
(*                                                                          *)
(* Actors: at each end the thread that establishes the connection, the      *)
(* inbound and outbound coroutines and the manager on the control reactor;  *)
(* at the client also the log thread, which broadcasts, the main thread,    *)
(* which waits for the connection to end, and its children, each a queue as *)
(* in ChildQueue.  The server manager is reduced to the jobs it has for     *)
(* this connection; Capacity has the rest of it.                            *)
(*                                                                          *)
(* External (fost-hod): established() runs before the coroutines of its end *)
(* receive anything; a packet that the negotiated version has no handler    *)
(* for goes to the handler of unknown control bytes.                        *)
(***************************************************************************)
EXTENDS Integers, Sequences, SequencesExt, FiniteSets, Counting

CONSTANTS
  Jobs,             \* the texts of the jobs
  Inputs,           \* the sequences of jobs the server may have for the client
  NumChildren,      \* children of the client
  BufferSize,       \* wright::buffer_size
  OverspillCap,     \* c_overspill_cap_per_worker
  MaxLogs,          \* bound on the messages the client's log thread broadcasts
  MayCut            \* may the connection be cut?

ASSUME NetChildrenAssumption == NumChildren \in Nat \ {0}
ASSUME NetBufferAssumption == BufferSize \in Nat \ {0}
ASSUME NetOverspillAssumption == OverspillCap \in Nat
ASSUME NetInputsAssumption == Inputs \subseteq Seq(Jobs)
ASSUME NetLogsAssumption == MaxLogs \in Nat /\ MayCut \in BOOLEAN

Children == 1 .. NumChildren
Ends == {"server", "client"}
Other(e) == IF e = "server" THEN "client" ELSE "server"

VARIABLES
  input,            \* the jobs the server has still to place
  cap,              \* remote::cap: <<>> before the version packet, or <<n>>
  work,             \* the keys of remote::work
  placed,           \* the jobs that next_job has put there, now or earlier
  answered,         \* the jobs the server has printed for this connection
  returned,         \* the jobs overspill_work has given back
  stage,            \* stage[e]: "new", "live", "open" or "ended"
  queue,            \* queue[e]: the packets for process_outbound of e
  wire,             \* wire[e]: the packets sent by e and not received
  version,          \* version[e]: the protocol version e has negotiated
  up,               \* both sockets are open
  cut,              \* the connection was cut by neither end
  overspill,        \* capacity::overspill of the client
  hand,             \* the job the client's next_job holds
  commands,         \* the rings of the client's children
  closed,           \* how many of them capacity::close has closed the stdin of
  main,             \* client main thread: "wait", "close", or how the process
                    \* has ended: "ended", "exit4" or "exit7"
  logs              \* log messages broadcast so far

serverVars == <<input, cap, work, placed, answered, returned>>
linkVars   == <<stage, queue, wire, version, up, cut>>
clientVars == <<overspill, hand, commands, closed, main>>
vars == <<serverVars, linkVars, clientVars, logs>>

(* The client's rings, and what its version packet announces.               *)
Slots == NumChildren * BufferSize
Announced == Slots + OverspillCap * NumChildren

Init ==
  /\ input \in Inputs /\ cap = <<>> /\ work = {}
  /\ placed = {} /\ answered = {} /\ returned = {}
  /\ stage = [e \in Ends |-> "new"]
  /\ queue = [e \in Ends |-> <<>>] /\ wire = [e \in Ends |-> <<>>]
  /\ version = [e \in Ends |-> 0]
  /\ up = TRUE /\ cut = FALSE
  /\ overspill = <<>> /\ hand = <<>>
  /\ commands = [c \in Children |-> <<>>] /\ closed = 0
  /\ main = "wait" /\ logs = 0

Packet(type, content) == [type |-> type, content |-> content]
Produce(e, p) == queue' = [queue EXCEPT ![e] = Append(@, p)]

(***************************************************************************)
(* established(): the connection is in g_connections before its version     *)
(* packet is in the queue, and a broadcast may come between.                *)
(***************************************************************************)
Live(e) ==
  /\ stage[e] = "new"
  /\ stage' = [stage EXCEPT ![e] = "live"]
  /\ UNCHANGED <<serverVars, queue, wire, version, up, cut, clientVars, logs>>

AnnouncedBy(e) == IF e = "client" THEN Announced ELSE 0
Announce(e) ==
  /\ stage[e] = "live"
  /\ stage' = [stage EXCEPT ![e] = "open"]
  /\ Produce(e, Packet("version", AnnouncedBy(e)))
  /\ UNCHANGED <<serverVars, wire, version, up, cut, clientVars, logs>>

(* Only the client's logging has the network sink.                          *)
Broadcast ==
  /\ logs < MaxLogs
  /\ stage["client"] \in {"live", "open"}
  /\ logs' = logs + 1
  /\ Produce("client", Packet("log", 0))
  /\ UNCHANGED <<serverVars, stage, wire, version, up, cut, clientVars>>

(* process_outbound, while the socket is open.                              *)
Send(e) ==
  /\ up /\ stage[e] \in {"live", "open"}
  /\ queue[e] # <<>>
  /\ wire' = [wire EXCEPT ![e] = Append(@, Head(queue[e]))]
  /\ queue' = [queue EXCEPT ![e] = Tail(@)]
  /\ UNCHANGED <<serverVars, stage, version, up, cut, clientVars, logs>>

(***************************************************************************)
(* process_inbound: g_proto.dispatch(version(), control, ...).              *)
(***************************************************************************)
MaxVersion == 1
Understood(e, p) == p.type = "version" \/ version[e] >= 1
Arrives(e) == stage[e] = "open" /\ wire[Other(e)] # <<>>
Arriving(e) == Head(wire[Other(e)])
Received(e) == wire' = [wire EXCEPT ![Other(e)] = Tail(@)]

(* in::version: both ends have the same g_proto; the server adds capacity.  *)
NegotiateNothing(e) == version[e]
Negotiate(e) == MaxVersion
ReceiveVersion(e) ==
  /\ Arrives(e) /\ Arriving(e).type = "version"
  /\ version' = [version EXCEPT ![e] = Negotiate(e)]
  /\ cap' = IF e = "server" THEN <<Arriving(e).content>> ELSE cap
  /\ Received(e)
  /\ UNCHANGED <<input, work, placed, answered, returned, stage, queue, up, cut,
                 clientVars, logs>>

(* in::execute, at the client.                                              *)
ReceiveExecute ==
  LET p == Arriving("client") IN
  /\ Arrives("client") /\ p.type = "execute" /\ Understood("client", p)
  /\ overspill' = Append(overspill, p.content)
  /\ Received("client")
  /\ UNCHANGED <<serverVars, stage, queue, version, up, cut, hand, commands,
                 closed, main, logs>>

(* in::completed, at the server: capacity::job_done.                        *)
ErasedNot(j) == work
Erased(j) == work \ {j}
ReceiveCompleted ==
  LET p == Arriving("server") IN
  /\ Arrives("server") /\ p.type = "completed" /\ Understood("server", p)
  /\ work' = Erased(p.content)
  /\ answered' = IF p.content \in work THEN answered \cup {p.content} ELSE answered
  /\ Received("server")
  /\ UNCHANGED <<input, cap, placed, returned, stage, queue, version, up, cut,
                 clientVars, logs>>

(* in::log_message only logs, and so does the unknown control byte.         *)
ReceiveOther(e) ==
  /\ Arrives(e)
  /\ Arriving(e).type = "log" \/ ~Understood(e, Arriving(e))
  /\ Received(e)
  /\ UNCHANGED <<serverVars, stage, queue, version, up, cut, clientVars, logs>>

(***************************************************************************)
(* The server manager.                                                      *)
(***************************************************************************)
HasRoomOffByOne == cap # <<>> /\ cap[1] >= Cardinality(work)
HasRoom == cap # <<>> /\ cap[1] > Cardinality(work)
Place ==
  /\ stage["server"] = "open"
  /\ input # <<>> /\ HasRoom
  /\ input' = Tail(input)
  /\ work' = work \cup {Head(input)} /\ placed' = placed \cup {Head(input)}
  /\ Produce("server", Packet("execute", Head(input)))
  /\ UNCHANGED <<cap, answered, returned, stage, wire, version, up, cut,
                 clientVars, logs>>

(* A job that finds no room at the client goes to a child of the server.    *)
PlaceLocal ==
  /\ stage["server"] # "ended"
  /\ input # <<>> /\ ~HasRoom
  /\ input' = Tail(input)
  /\ UNCHANGED <<cap, work, placed, answered, returned, linkVars, clientVars, logs>>

(* Everything is done: the server closes the socket, whatever is queued, at *)
(* any stage of the connection, and exits.  Packets of the client that it   *)
(* has not read may cost the client the last ones of its own.               *)
ServerDoneEarly == input = <<>>
ServerDone == input = <<>> /\ work = {}
CloseAll ==
  /\ up
  /\ ServerDone
  /\ up' = FALSE
  /\ stage' = [stage EXCEPT !["server"] = "ended"]
  /\ \E m \in 0 .. Len(wire["server"]) :
       wire' = [wire EXCEPT !["server"] = SubSeq(@, 1, m)]
  /\ UNCHANGED <<serverVars, queue, version, cut, clientVars, logs>>

(* The connection is cut, and what is on the wire is lost from some packet  *)
(* on.                                                                      *)
Cut ==
  /\ MayCut /\ up
  /\ up' = FALSE /\ cut' = TRUE
  /\ \E m \in 0 .. Len(wire["server"]), n \in 0 .. Len(wire["client"]) :
       wire' = [wire EXCEPT !["server"] = SubSeq(@, 1, m),
                            !["client"] = SubSeq(@, 1, n)]
  /\ UNCHANGED <<serverVars, stage, queue, version, clientVars, logs>>

(* process_inbound ends at the server: overspill_work, if the connection    *)
(* ever had a version packet.                                               *)
Redistribute ==
  /\ ~up /\ wire["client"] = <<>>
  /\ stage["server"] = "open"
  /\ stage' = [stage EXCEPT !["server"] = "ended"]
  /\ returned' = returned \cup work
  /\ work' = {} /\ cap' = <<>>
  /\ UNCHANGED <<input, placed, answered, queue, wire, version, up, cut, clientVars,
                 logs>>

(***************************************************************************)
(* The client manager (exec.netvisor.cpp).                                  *)
(***************************************************************************)
Serving == main \in {"wait", "close"}

(* The overspill loop takes a job, and waits in next_job for a token.       *)
Consume ==
  /\ Serving
  /\ overspill # <<>> /\ hand = <<>>
  /\ hand' = <<Head(overspill)>>
  /\ overspill' = Tail(overspill)
  /\ UNCHANGED <<serverVars, linkVars, commands, closed, main, logs>>

(* next_job: the write to the stdin of the child whose turn it is; if that  *)
(* is closed, exit(7).                                                      *)
SlotFreeOffByOne(c) == Len(commands[c]) <= BufferSize
SlotFree(c) == Len(commands[c]) < BufferSize
Give(c) ==
  /\ Serving
  /\ hand # <<>> /\ SlotFree(c)
  /\ \/ /\ c > closed
        /\ commands' = [commands EXCEPT ![c] = Append(@, hand[1])]
        /\ hand' = <<>>
        /\ UNCHANGED main
     \/ /\ c <= closed
        /\ main' = "exit7"
        /\ UNCHANGED <<commands, hand>>
  /\ UNCHANGED <<serverVars, linkVars, overspill, closed, logs>>

(* A child reports a job: the completed packet is queued.                   *)
ReportLost(job) == UNCHANGED queue
ReportOf(job) == Produce("client", Packet("completed", job))
Done(c) ==
  /\ Serving
  /\ commands[c] # <<>>
  /\ commands' = [commands EXCEPT ![c] = Tail(@)]
  /\ ReportOf(Head(commands[c]))
  /\ UNCHANGED <<serverVars, stage, wire, version, up, cut, overspill, hand,
                 closed, main, logs>>

(* A worker crashes: its jobs are written to it again.  That changes        *)
(* nothing, unless its stdin has been closed.                               *)
ResendAfterClose(c) ==
  /\ main = "close" /\ c <= closed /\ commands[c] # <<>>
  /\ main' = "exit7"
  /\ UNCHANGED <<serverVars, linkVars, overspill, hand, commands, closed, logs>>

(* process_inbound ends at the client, which releases its main thread.      *)
ReleaseNever == FALSE
Release == ~up /\ wire["server"] = <<>>
ClientClose ==
  /\ Release
  /\ stage["client"] = "open" /\ main = "wait"
  /\ stage' = [stage EXCEPT !["client"] = "ended"]
  /\ main' = "close" /\ closed' = 1
  /\ UNCHANGED <<serverVars, queue, wire, version, up, cut, overspill, hand,
                 commands, logs>>

(* capacity::close: a child whose stdin is closed ends when it is through   *)
(* with its jobs, whether or not their reports have been read; then it is   *)
(* the turn of the next one.                                                *)
ChildEnd ==
  /\ main = "close"
  /\ \/ closed < NumChildren /\ closed' = closed + 1 /\ UNCHANGED main
     \/ closed = NumChildren /\ main' = "ended" /\ UNCHANGED closed
  /\ UNCHANGED <<serverVars, linkVars, overspill, hand, commands, logs>>

(* sigchild_reactor may come before the waitpid of the main thread, and     *)
(* panics if it finds the reports unread.                                   *)
Panic ==
  /\ main = "close" /\ commands[closed] # <<>>
  /\ main' = "exit4"
  /\ UNCHANGED <<serverVars, linkVars, overspill, hand, commands, closed, logs>>

(* The server is through with the connection.                               *)
Terminated ==
  /\ stage["server"] = "ended"
  /\ UNCHANGED vars

Next ==
  \/ \E e \in Ends : Live(e) \/ Announce(e) \/ Send(e)
  \/ \E e \in Ends : ReceiveVersion(e) \/ ReceiveOther(e)
  \/ ReceiveExecute \/ ReceiveCompleted
  \/ Broadcast \/ Place \/ PlaceLocal \/ CloseAll \/ Cut \/ Redistribute
  \/ Consume \/ ClientClose \/ ChildEnd \/ Panic
  \/ \E c \in Children : Give(c) \/ Done(c) \/ ResendAfterClose(c)
  \/ Terminated

Spec == Init /\ [][Next]_vars

(***************************************************************************)
(* Fairness: every coroutine and thread that can go on does, and workers    *)
(* report.  Nothing has to be logged or cut, and no worker has to crash.    *)
(***************************************************************************)
FairSpec ==
  /\ Spec
  /\ \A e \in Ends :
       /\ WF_vars(Live(e)) /\ WF_vars(Announce(e)) /\ WF_vars(Send(e))
       /\ WF_vars(ReceiveVersion(e)) /\ WF_vars(ReceiveOther(e))
  /\ WF_vars(ReceiveExecute) /\ WF_vars(ReceiveCompleted)
  /\ WF_vars(Place) /\ WF_vars(PlaceLocal) /\ WF_vars(CloseAll) /\ WF_vars(Redistribute)
  /\ WF_vars(Consume) /\ WF_vars(\E c \in Children : Give(c))
  /\ \A c \in Children : WF_vars(Done(c))
  /\ WF_vars(ClientClose) /\ WF_vars(ChildEnd)

-----------------------------------------------------------------------------
Packets ==
  [type : {"version"}, content : {0, Announced}]
    \cup [type : {"execute", "completed"}, content : Jobs]
    \cup [type : {"log"}, content : {0}]

(* The shape of every variable.                                             *)
TypeOK ==
  /\ input \in Seq(Jobs) /\ cap \in {<<>>, <<Announced>>}
  /\ work \subseteq Jobs /\ placed \subseteq Jobs
  /\ answered \subseteq Jobs /\ returned \subseteq Jobs
  /\ stage \in [Ends -> {"new", "live", "open", "ended"}]
  /\ queue \in [Ends -> Seq(Packets)] /\ wire \in [Ends -> Seq(Packets)]
  /\ version \in [Ends -> {0, 1}] /\ up \in BOOLEAN /\ cut \in BOOLEAN
  /\ overspill \in Seq(Jobs) /\ hand \in Seq(Jobs) /\ Len(hand) <= 1
  /\ commands \in [Children -> Seq(Jobs)]
  /\ \A c \in Children : Len(commands[c]) <= BufferSize
  /\ closed \in 0 .. NumChildren
  /\ main \in {"wait", "close", "ended", "exit4", "exit7"}
  /\ logs \in 0 .. MaxLogs

(* The copies of job j between the server and its answer.                   *)
Count(j) ==
  LET Execute == Packet("execute", j)
      Completed == Packet("completed", j)
  IN Copies(queue["server"], Execute) + Copies(wire["server"], Execute)
       + Copies(overspill, j) + Copies(hand, j) + TotalCopies(commands, Children, j)
       + Copies(queue["client"], Completed) + Copies(wire["client"], Completed)

(* net.packets.cpp, net.server.cpp:14-25: while the connection is up, each  *)
(* job in the server's work map is under way exactly once, and no other job *)
(* is: no execute or completed packet meets an end that has not yet         *)
(* negotiated a version that knows it, in whatever order the two version    *)
(* packets and the logs broadcast in front of them travel.                  *)
WorkInFlight ==
  up => \A j \in Jobs : Count(j) = IF j \in work THEN 1 ELSE 0

(* exec.capacity.cpp:45: a client is never sent more than it announced, so  *)
(* that its overspill holds at most OverspillCap jobs per child beyond its  *)
(* rings.                                                                   *)
InRings == Cardinality(UNION {{c} \X DOMAIN commands[c] : c \in Children})
BacklogFits == Len(overspill) + Len(hand) + InRings <= Announced

(* exec.netvisor.cpp:88-91: a client dies of a write to a child it has      *)
(* closed, or of one that ends with its jobs unreported, only if its        *)
(* connection was cut: a server that ends by itself leaves it no work.      *)
CleanClientEnd == main \in {"exit4", "exit7"} => cut

(* exec.capacity.cpp:71-107: every job ever placed at the connection, and   *)
(* no other, is outstanding, printed or given back, and only one of these,  *)
(* whatever is cut off while it is on its way.  When the server is through  *)
(* with the connection none is outstanding, and if that was not cut, all of *)
(* them have been printed.                                                  *)
Partition ==
  /\ placed = work \cup answered \cup returned
  /\ work \cap answered = {} /\ work \cap returned = {} /\ answered \cap returned = {}
PrintedOrReturned ==
  /\ Partition
  /\ stage["server"] = "ended" => work = {}
  /\ returned # {} => cut

Remote == INSTANCE RemoteQueue WITH Room <- Announced

(* The connection is what Capacity takes it for; above all, every job sent  *)
(* is answered or given back, though the version packets and the executes   *)
(* race and the wire may be cut.                                            *)
ImplementsRemote == Remote!Spec

(* When the connection is closed or cut the client process ends.            *)
ClientEnds == ~up ~> ~Serving

=============================================================================
