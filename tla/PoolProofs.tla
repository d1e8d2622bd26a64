------------------------------ MODULE PoolProofs ------------------------------
(***************************************************************************)
(* Theorems about Pool for any number of children, jobs and killed          *)
(* supervisors.                                                             *)
(***************************************************************************)
EXTENDS Pool, TLAPS

(* What TypeOK needs to be inductive: descriptors are a function on the     *)
(* processes, the jobs of a child and those still to come are bounded       *)
(* together, and a worker that has crashed has still its byte to send.      *)
Bounds ==
  /\ DOMAIN fds = Processes
  /\ \A k \in Children : work[k] + left <= MaxJobs
  /\ \A k \in Children : worker[k] = "crashed" => asks[k] < MaxAsks

(* The manager holds an end to write to of every pipe it reads, as soon as  *)
(* that is made and until it ends.                                          *)
Made == IF main = "pool" THEN 1 .. at ELSE Children
KeptEnd(k, kind) == Fd(k, kind, "child_fd", ChildEnd(k, kind))
Keeps ==
  main = "pool" \/ Handling =>
    \A k \in Made, kind \in Kinds \ {"stdin"} : KeptEnd(k, kind) \in fds[Manager]

IInv == TypeOK /\ Bounds /\ Keeps

-----------------------------------------------------------------------------
(* No two processes have the same name.                                     *)
LEMMA Distinct ==
  /\ Manager \in Processes
  /\ \A k \in Children : Sup(k) \in Processes /\ Wrk(k) \in Processes
  /\ \A k \in Children : Sup(k) # Manager /\ Wrk(k) # Manager
  /\ \A k, l \in Children : Sup(k) # Wrk(l)
  /\ \A k, l \in Children : (Sup(k) = Sup(l) => k = l) /\ (Wrk(k) = Wrk(l) => k = l)
BY DEF Manager, Sup, Wrk, Processes

(* Closing a child's pipes on all sides leaves the other names alone.       *)
LEMMA WithoutFacts ==
  ASSUME NEW open, NEW ks, NEW kinds
  PROVE  /\ Without(open, ks, kinds) \subseteq open
         /\ \A d \in open : d.name \notin PipeFds => d \in Without(open, ks, kinds)
         /\ \A d \in open : d.kind \notin kinds => d \in Without(open, ks, kinds)
BY DEF Without

(* fork_exec: the child ends up with its own pipes as standard streams.     *)
LEMMA ExecStandard ==
  ASSUME NEW k, NEW open
  PROVE  {d \in Tidy(k, Dup2(k, open)) : d.name = "standard"} = StandardOf(k)
<1> DEFINE dup == Dup2(k, open)
<1>1. {d \in dup : d.name = "standard"} = StandardOf(k)
  BY DEF Dup2, StandardOf, Fd
<1>2. "standard" \notin PipeFds
  BY DEF PipeFds
<1>3. \A d \in dup : d.name = "standard" => d \in Tidy(k, dup)
  BY <1>2, WithoutFacts DEF Tidy
<1>4. Tidy(k, dup) \subseteq dup
  BY WithoutFacts DEF Tidy
<1>5. QED BY <1>1, <1>3, <1>4

-----------------------------------------------------------------------------
(* Nobody runs yet, and nothing is open but the streams of the manager.     *)
LEMMA Initially == Init => IInv
<1> SUFFICES ASSUME Init PROVE IInv
  OBVIOUS
<1>1. ShapesOK
  BY PoolChildrenAssumption, PoolBoundsAssumption DEF Init, ShapesOK, MaxAsks
<1>2. StreamsOK
  BY DEF Init, StreamsOK
<1>3. Bounds
  BY PoolBoundsAssumption DEF Init, Bounds
<1>4. Keeps
  BY DEF Init, Keeps, Made
<1>5. QED BY <1>1, <1>2, <1>3, <1>4 DEF IInv, TypeOK

(* The death of a supervisor disturbs no shape.                             *)
LEMMA DiesShapes ==
  ASSUME IInv, NEW k \in Children, Dies(k)
  PROVE  /\ sup' \in [Children -> {"none", "forked", "up", "early", "dead", "reaped"}]
         /\ pending' \in {"no", "main", "other"}
         /\ DOMAIN fds' = Processes
<1>1. sup' \in [Children -> {"none", "forked", "up", "early", "dead", "reaped"}]
  BY DEF IInv, TypeOK, ShapesOK, Dies
<1>2. pending' \in {"no", "main", "other"}
  BY DEF IInv, TypeOK, ShapesOK, Dies
<1>3. QED BY <1>1, <1>2 DEF IInv, Bounds, Dies

(* The ranges of the counters and the states, and what bounds them.         *)
LEMMA StepShapes ==
  ASSUME IInv, [Next]_vars
  PROVE  ShapesOK' /\ Bounds'
<1> USE PoolChildrenAssumption, PoolBoundsAssumption
     DEF IInv, TypeOK, ShapesOK, Bounds, MaxAsks, managerVars, signalVars, Children
<1>1. CASE UNCHANGED vars
  BY <1>1 DEF vars
<1>2. CASE Fork
  BY <1>2 DEF Fork
<1>3. CASE Throw
  BY <1>3 DEF Throw
<1>4. CASE Start
  BY <1>4 DEF Start
<1>5. CASE Release
  BY <1>5 DEF Release
<1>6. CASE CloseStdin
  BY <1>6 DEF CloseStdin
<1>7. CASE Waited
  <2>1. at' \in 0 .. NumChildren /\ main' \in {"close", "done"} /\ DOMAIN fds' = Processes
    BY <1>7 DEF Waited, NextChild
  <2>2. sup' \in [Children -> {"none", "forked", "up", "early", "dead", "reaped"}]
    BY <1>7 DEF Waited
  <2>3. QED BY <1>7, <2>1, <2>2 DEF Waited
<1>8. CASE Deliver
  BY <1>8 DEF Deliver, NextChild, Interrupted
<1>9. CASE Reactor
  BY <1>9 DEF Reactor
<1>10. ASSUME NEW k \in Children, Give(k) PROVE ShapesOK' /\ Bounds'
  BY <1>10, SMTT(30) DEF Give, InputComplete
<1>11. ASSUME NEW k \in Children, Byte(k) PROVE ShapesOK' /\ Bounds'
  <2>1. /\ sup' \in [Children -> {"none", "forked", "up", "early", "dead", "reaped"}]
        /\ pending' \in {"no", "main", "other"}
        /\ DOMAIN fds' = Processes
    BY <1>11, DiesShapes DEF Byte
  <2>2. QED BY <1>11, <2>1, SMTT(30) DEF Byte
<1>12. ASSUME NEW k \in Children, Exec(k) PROVE ShapesOK' /\ Bounds'
  BY <1>12 DEF Exec
<1>13. ASSUME NEW k \in Children, StartWorker(k) PROVE ShapesOK' /\ Bounds'
  BY <1>13 DEF StartWorker
<1>14. ASSUME NEW k \in Children, WorkerGone(k) PROVE ShapesOK' /\ Bounds'
  <2>1. CASE Dies(k) /\ UNCHANGED <<worker, asks>>
    BY <1>14, <2>1, DiesShapes DEF WorkerGone
  <2>2. CASE /\ worker[k] = "crashed"
             /\ worker' = [worker EXCEPT ![k] = "none"]
             /\ asks' = [asks EXCEPT ![k] = @ + 1]
             /\ UNCHANGED <<sup, pending, fds>>
    <3>1. asks' \in [Children -> 0 .. MaxAsks]
      BY <2>2, SMTT(30)
    <3>2. QED BY <1>14, <2>2, <3>1 DEF WorkerGone
  <2>3. QED BY <1>14, <2>1, <2>2 DEF WorkerGone
<1>15. ASSUME NEW k \in Children, SupervisorKilled(k) PROVE ShapesOK' /\ Bounds'
  BY <1>15, DiesShapes DEF SupervisorKilled
<1>16. ASSUME NEW k \in Children, Work(k) PROVE ShapesOK' /\ Bounds'
  <2>1. CASE work' = [work EXCEPT ![k] = @ - 1] /\ UNCHANGED <<worker, fds>>
    <3>1. work' \in [Children -> 0 .. MaxJobs]
      BY <1>16, <2>1, SMTT(30) DEF Work
    <3>2. \A l \in Children : work'[l] <= work[l]
      BY <2>1
    <3>3. \A l \in Children : work'[l] + left' <= MaxJobs
      BY <1>16, <3>1, <3>2, SMTT(30) DEF Work
    <3>4. QED BY <1>16, <2>1, <3>1, <3>3 DEF Work
  <2>2. CASE WorkerStops(k, "ended") /\ UNCHANGED work
    BY <1>16, <2>2 DEF Work, WorkerStops
  <2>3. QED BY <1>16, <2>1, <2>2 DEF Work
<1>17. ASSUME NEW k \in Children, WorkerCrash(k) PROVE ShapesOK' /\ Bounds'
  BY <1>17 DEF WorkerCrash, WorkerStops
<1>18. ASSUME NEW k \in Children, WorkerEnd(k) PROVE ShapesOK' /\ Bounds'
  BY <1>18 DEF WorkerEnd, WorkerStops
<1>19. CASE Terminated
  BY <1>19 DEF Terminated, vars
<1>20. QED
  BY <1>1, <1>2, <1>3, <1>4, <1>5, <1>6, <1>7, <1>8, <1>9, <1>10, <1>11, <1>12,
     <1>13, <1>14, <1>15, <1>16, <1>17, <1>18, <1>19 DEF Next

-----------------------------------------------------------------------------
(* A step that leaves the descriptors of the supervisors and workers as     *)
(* they are, and starts none, leaves their streams alone.                   *)
LEMMA SameStreams ==
  ASSUME StreamsOK,
         \A k \in Children : fds'[Sup(k)] = fds[Sup(k)] /\ fds'[Wrk(k)] = fds[Wrk(k)],
         \A k \in Children : sup'[k] = "up" => sup[k] = "up",
         \A k \in Children : worker'[k] = "up" => worker[k] = "up"
  PROVE  StreamsOK'
BY DEF StreamsOK, Standards

(* The streams of a process, as a function of what it has open.             *)
Streams(open) == {d \in open : d.name = "standard"}

(* StreamsOK in these terms.                                                *)
LEMMA StreamsOf ==
  ASSUME StreamsOK
  PROVE  \A k \in Children :
           /\ sup[k] = "up" => Streams(fds[Sup(k)]) = StandardOf(k)
           /\ worker[k] = "up" => Streams(fds[Wrk(k)]) = StandardOf(k)
BY DEF StreamsOK, Standards, Streams

(* A step by which at most child k gets new streams, the right ones.        *)
LEMMA OneChildStreams ==
  ASSUME StreamsOK, NEW k \in Children,
         \A l \in Children \ {k} :
           /\ sup'[l] = "up" => sup[l] = "up" /\ fds'[Sup(l)] = fds[Sup(l)]
           /\ worker'[l] = "up" => worker[l] = "up" /\ fds'[Wrk(l)] = fds[Wrk(l)],
         sup'[k] = "up" => Streams(fds'[Sup(k)]) = StandardOf(k),
         worker'[k] = "up" => Streams(fds'[Wrk(k)]) = StandardOf(k)
  PROVE  StreamsOK'
<1>1. ASSUME NEW l \in Children \ {k}
      PROVE  /\ sup'[l] = "up" => Streams(fds'[Sup(l)]) = StandardOf(l)
             /\ worker'[l] = "up" => Streams(fds'[Wrk(l)]) = StandardOf(l)
  BY StreamsOf
<1>2. \A l \in Children :
        /\ sup'[l] = "up" => Streams(fds'[Sup(l)]) = StandardOf(l)
        /\ worker'[l] = "up" => Streams(fds'[Wrk(l)]) = StandardOf(l)
  BY <1>1
<1>3. QED BY <1>2 DEF StreamsOK, Standards, Streams

(* So does one that changes those of the manager only.                      *)
LEMMA ManagerStreams ==
  ASSUME IInv, NEW open,
         fds' = fds \/ fds' = [fds EXCEPT ![Manager] = open],
         \A k \in Children : sup'[k] = "up" => sup[k] = "up",
         \A k \in Children : worker'[k] = "up" => worker[k] = "up"
  PROVE  StreamsOK'
<1>1. \A k \in Children : fds'[Sup(k)] = fds[Sup(k)] /\ fds'[Wrk(k)] = fds[Wrk(k)]
  BY Distinct DEF IInv, Bounds
<1>2. QED BY <1>1, SameStreams DEF IInv, TypeOK

(* And so does the end of a supervisor or a worker.                         *)
LEMMA DiesStreams ==
  ASSUME IInv, NEW k \in Children, Dies(k),
         worker' = worker \/ worker' = [worker EXCEPT ![k] = "none"]
  PROVE  StreamsOK'
<1>1. \A l \in Children : fds'[Wrk(l)] = fds[Wrk(l)] /\ (l # k => fds'[Sup(l)] = fds[Sup(l)])
  BY Distinct DEF IInv, Bounds, Dies
<1>2. \A l \in Children : sup'[l] = "up" => l # k /\ sup[l] = "up"
  BY DEF IInv, TypeOK, ShapesOK, Dies
<1>3. \A l \in Children : worker'[l] = "up" => worker[l] = "up"
  BY DEF IInv, TypeOK, ShapesOK
<1>4. QED BY <1>1, <1>2, <1>3 DEF IInv, TypeOK, StreamsOK, Standards

(* The end of a worker, however it ends, is one of these steps, too.        *)
LEMMA StopsStreams ==
  ASSUME IInv, NEW k \in Children, NEW how \in {"ended", "crashed"},
         WorkerStops(k, how), sup' = sup
  PROVE  StreamsOK'
<1>1. \A l \in Children : fds'[Sup(l)] = fds[Sup(l)] /\ (l # k => fds'[Wrk(l)] = fds[Wrk(l)])
  BY Distinct DEF IInv, Bounds, WorkerStops
<1>2. \A l \in Children : worker'[l] = "up" => l # k /\ worker[l] = "up"
  BY DEF IInv, TypeOK, ShapesOK, WorkerStops
<1>3. QED BY <1>1, <1>2 DEF IInv, TypeOK, StreamsOK, Standards

(* A child gets its streams by exec, a worker its supervisor's by fork; no  *)
(* other step makes one run or touches the streams of one that does.        *)
LEMMA StepStreams ==
  ASSUME IInv, [Next]_vars
  PROVE  StreamsOK'
<1> USE DEF managerVars, signalVars
<1>0. ShapesOK /\ StreamsOK /\ Bounds
  BY DEF IInv, TypeOK
<1>1. CASE UNCHANGED vars
  BY <1>1, ManagerStreams DEF vars
<1>2. CASE Fork
  <2>1. PICK k \in Children : k = at + 1
    BY <1>0, <1>2, PoolChildrenAssumption DEF Fork, Children, ShapesOK
  <2>2. \A l \in Children : /\ fds'[Wrk(l)] = fds[Wrk(l)]
                            /\ l # k => fds'[Sup(l)] = fds[Sup(l)]
    BY <1>0, <1>2, <2>1, Distinct DEF Fork, Bounds
  <2>3. \A l \in Children : sup'[l] = "up" => l # k /\ sup[l] = "up"
    BY <1>0, <1>2, <2>1 DEF Fork, ShapesOK
  <2>4. worker' = worker
    BY <1>2 DEF Fork
  <2>5. sup'[k] # "up" /\ (worker'[k] = "up" => Streams(fds'[Wrk(k)]) = StandardOf(k))
    BY <1>0, <2>2, <2>3, <2>4, StreamsOf
  <2>6. \A l \in Children \ {k} :
          /\ sup'[l] = "up" => sup[l] = "up" /\ fds'[Sup(l)] = fds[Sup(l)]
          /\ worker'[l] = "up" => worker[l] = "up" /\ fds'[Wrk(l)] = fds[Wrk(l)]
    BY <2>2, <2>3, <2>4
  <2>7. StreamsOK
    BY <1>0
  <2>8. QED BY <2>5, <2>6, <2>7, OneChildStreams
<1>3. CASE Throw
  BY <1>3, ManagerStreams DEF Throw
<1>4. CASE Start
  <2> DEFINE open == fds[Manager] \cup
               {Parent(k, kind) : k \in Children, kind \in Kinds \ {"stdin"}}
  <2>1. fds' = [fds EXCEPT ![Manager] = open]
    BY <1>4 DEF Start
  <2>2. sup' = sup /\ worker' = worker
    BY <1>4 DEF Start
  <2>3. QED BY <2>1, <2>2, ManagerStreams
<1>5. CASE Release
  BY <1>5, ManagerStreams DEF Release
<1>6. CASE CloseStdin
  BY <1>6, ManagerStreams DEF CloseStdin
<1>7. CASE Waited
  <2>1. \A l \in Children : sup'[l] = "up" => sup[l] = "up"
    BY <1>7 DEF Waited
  <2>2. QED BY <1>7, <2>1, ManagerStreams DEF Waited, NextChild
<1>8. CASE Deliver
  BY <1>8, ManagerStreams DEF Deliver, NextChild
<1>9. CASE Reactor
  <2>1. \A l \in Children : sup'[l] = "up" => sup[l] = "up"
    BY <1>9 DEF Reactor
  <2>2. QED BY <1>9, <2>1, ManagerStreams DEF Reactor
<1>10. ASSUME NEW k \in Children, Give(k) PROVE StreamsOK'
  BY <1>10, ManagerStreams DEF Give
<1>11. ASSUME NEW k \in Children, Byte(k) PROVE StreamsOK'
  <2>1. CASE Dies(k)
    BY <1>11, <2>1, DiesStreams DEF Byte
  <2>2. CASE UNCHANGED <<sup, pending, fds>>
    BY <1>11, <2>2, ManagerStreams DEF Byte
  <2>3. QED BY <1>11, <2>1, <2>2 DEF Byte
<1>12. ASSUME NEW k \in Children, Exec(k) PROVE StreamsOK'
  <2>1. \A l \in Children : /\ fds'[Wrk(l)] = fds[Wrk(l)]
                            /\ l # k => fds'[Sup(l)] = fds[Sup(l)] /\ sup'[l] = sup[l]
    BY <1>0, <1>12, Distinct DEF Exec, Bounds
  <2>2. fds'[Sup(k)] = Tidy(k, Dup2(k, fds[Sup(k)]))
    BY <1>0, <1>12, Distinct DEF Exec, Bounds
  <2>3. Streams(fds'[Sup(k)]) = StandardOf(k)
    BY <2>2, ExecStandard DEF Streams
  <2>4. worker' = worker
    BY <1>12 DEF Exec
  <2>5. worker'[k] = "up" => Streams(fds'[Wrk(k)]) = StandardOf(k)
    BY <1>0, <2>1, <2>4, StreamsOf
  <2>6. \A l \in Children \ {k} :
          /\ sup'[l] = "up" => sup[l] = "up" /\ fds'[Sup(l)] = fds[Sup(l)]
          /\ worker'[l] = "up" => worker[l] = "up" /\ fds'[Wrk(l)] = fds[Wrk(l)]
    BY <2>1, <2>4
  <2>7. StreamsOK
    BY <1>0
  <2>8. QED BY <2>3, <2>5, <2>6, <2>7, OneChildStreams
<1>13. ASSUME NEW k \in Children, StartWorker(k) PROVE StreamsOK'
  <2>1. \A l \in Children : /\ fds'[Sup(l)] = fds[Sup(l)]
                            /\ l # k => fds'[Wrk(l)] = fds[Wrk(l)] /\ worker'[l] = worker[l]
    BY <1>0, <1>13, Distinct DEF StartWorker, Bounds
  <2>2. fds'[Wrk(k)] = fds[Sup(k)] /\ sup[k] = "up" /\ sup' = sup
    BY <1>0, <1>13, Distinct DEF StartWorker, Bounds
  <2>3. Streams(fds'[Sup(k)]) = StandardOf(k) /\ Streams(fds'[Wrk(k)]) = StandardOf(k)
    BY <1>0, <2>1, <2>2, StreamsOf
  <2>4. \A l \in Children \ {k} :
          /\ sup'[l] = "up" => sup[l] = "up" /\ fds'[Sup(l)] = fds[Sup(l)]
          /\ worker'[l] = "up" => worker[l] = "up" /\ fds'[Wrk(l)] = fds[Wrk(l)]
    BY <2>1, <2>2
  <2>5. StreamsOK
    BY <1>0
  <2>6. QED BY <2>3, <2>4, <2>5, OneChildStreams
<1>14. ASSUME NEW k \in Children, WorkerGone(k) PROVE StreamsOK'
  <2>1. CASE Dies(k) /\ UNCHANGED <<worker, asks>>
    BY <2>1, DiesStreams
  <2>2. CASE worker' = [worker EXCEPT ![k] = "none"] /\ UNCHANGED <<sup, pending, fds>>
    <3>1. \A l \in Children : worker'[l] = "up" => worker[l] = "up"
      BY <2>2
    <3>2. QED BY <2>2, <3>1, ManagerStreams
  <2>3. QED BY <1>14, <2>1, <2>2 DEF WorkerGone
<1>15. ASSUME NEW k \in Children, SupervisorKilled(k) PROVE StreamsOK'
  BY <1>15, DiesStreams DEF SupervisorKilled
<1>16. ASSUME NEW k \in Children, Work(k) PROVE StreamsOK'
  <2>1. CASE UNCHANGED <<worker, fds>>
    BY <1>16, <2>1, ManagerStreams DEF Work
  <2>2. CASE WorkerStops(k, "ended")
    BY <1>16, <2>2, StopsStreams DEF Work
  <2>3. QED BY <1>16, <2>1, <2>2 DEF Work
<1>17. ASSUME NEW k \in Children, WorkerCrash(k) PROVE StreamsOK'
  BY <1>17, StopsStreams DEF WorkerCrash
<1>18. ASSUME NEW k \in Children, WorkerEnd(k) PROVE StreamsOK'
  BY <1>18, StopsStreams DEF WorkerEnd
<1>19. CASE Terminated
  BY <1>19, ManagerStreams DEF Terminated, vars
<1>20. QED
  BY <1>1, <1>2, <1>3, <1>4, <1>5, <1>6, <1>7, <1>8, <1>9, <1>10, <1>11, <1>12,
     <1>13, <1>14, <1>15, <1>16, <1>17, <1>18, <1>19 DEF Next

-----------------------------------------------------------------------------
(* The manager keeps what it holds if a step does not take anything from it *)
(* and makes no pipes.                                                      *)
LEMMA NothingTaken ==
  ASSUME IInv, fds[Manager] \subseteq fds'[Manager], at' = at,
         main' = "pool" \/ Handling' => main' = main
  PROVE  Keeps'
BY DEF IInv, Keeps, Made, Handling

(* The descriptors of the others are not those of the manager.              *)
LEMMA OthersDescriptors ==
  ASSUME IInv, NEW p \in Processes, p # Manager, NEW open,
         fds' = [fds EXCEPT ![p] = open]
  PROVE  fds'[Manager] = fds[Manager]
BY Distinct DEF IInv, Bounds

(* Fork brings the ends of another child, close() takes only the pipes for  *)
(* stdin, and no other step takes anything while the manager lives.         *)
LEMMA StepKeeps ==
  ASSUME IInv, [Next]_vars
  PROVE  Keeps'
<1> USE DEF managerVars, signalVars, Handling
<1>1. CASE UNCHANGED vars
  BY <1>1, NothingTaken DEF vars
<1>2. CASE Fork
  <2>1. at \in Nat /\ at' = at + 1 /\ main = "pool" /\ main' = "pool"
    BY <1>2 DEF Fork, IInv, TypeOK, ShapesOK
  <2>2. fds'[Manager] = fds[Manager] \cup Constructed(at + 1)
    <3>1. Sup(at + 1) # Manager
      BY DEF Sup, Manager
    <3>2. QED BY <1>2, <3>1, Distinct DEF Fork, KeptByParent, IInv, Bounds
  <2>3. \A kind \in Kinds : KeptEnd(at + 1, kind) \in Constructed(at + 1)
    BY DEF KeptEnd, Constructed
  <2>4. \A k \in 1 .. at, kind \in Kinds \ {"stdin"} : KeptEnd(k, kind) \in fds[Manager]
    BY <2>1 DEF IInv, Keeps, Made
  <2>5. \A k \in 1 .. at + 1 : k \in 1 .. at \/ k = at + 1
    BY <2>1
  <2>6. QED BY <2>1, <2>2, <2>3, <2>4, <2>5 DEF Keeps, Made, KeptEnd
<1>3. CASE Throw
  BY <1>3 DEF Throw, Keeps
<1>4. CASE Start
  <2>1. fds[Manager] \subseteq fds'[Manager]
    BY <1>4, Distinct DEF Start, IInv, Bounds
  <2>2. Made = Children /\ main = "pool" /\ main' = "run"
    BY <1>4 DEF Start, Made, Children
  <2>3. QED BY <2>1, <2>2 DEF IInv, Keeps, Made, KeptEnd
<1>5. CASE Release
  BY <1>5 DEF Release, IInv, Keeps, Made, KeptEnd
<1>6. CASE CloseStdin
  <2>1. fds'[Manager] = Without(fds[Manager], {at}, {"stdin"})
    BY <1>6, Distinct DEF CloseStdin, IInv, Bounds
  <2>2. \A k, kind : KeptEnd(k, kind).kind = kind
    BY DEF KeptEnd, Fd
  <2>3. \A k \in Children, kind \in Kinds \ {"stdin"} : KeptEnd(k, kind) \in fds[Manager]
    BY <1>6 DEF CloseStdin, IInv, Keeps, Made
  <2>4. \A k \in Children, kind \in Kinds \ {"stdin"} : KeptEnd(k, kind) \in fds'[Manager]
    BY <2>1, <2>2, <2>3, WithoutFacts
  <2>5. QED BY <1>6, <2>4 DEF CloseStdin, Keeps, Made, KeptEnd
<1>7. CASE Waited
  BY <1>7 DEF Waited, NextChild, IInv, Keeps, Made, KeptEnd
<1>8. CASE Deliver
  BY <1>8 DEF Deliver, Interrupted, NextChild, IInv, Keeps, Made, KeptEnd
<1>9. CASE Reactor
  <2>1. CASE UNCHANGED <<main, fds>>
    BY <1>9, <2>1, NothingTaken DEF Reactor
  <2>2. CASE main' = "exit4"
    BY <2>2 DEF Keeps
  <2>3. QED BY <1>9, <2>1, <2>2 DEF Reactor
<1>10. ASSUME NEW k \in Children, Give(k) PROVE Keeps'
  <2>1. fds[Manager] \subseteq fds'[Manager]
    BY <1>10, Distinct DEF Give, IInv, Bounds
  <2>2. QED BY <1>10, <2>1, NothingTaken DEF Give
<1>11. ASSUME NEW k \in Children, Byte(k) PROVE Keeps'
  <2>1. fds'[Manager] = fds[Manager]
    BY <1>11, Distinct, OthersDescriptors DEF Byte, Dies
  <2>2. QED BY <1>11, <2>1, NothingTaken DEF Byte
<1>12. ASSUME NEW k \in Children, Exec(k) PROVE Keeps'
  <2>1. fds'[Manager] = fds[Manager]
    BY <1>12, Distinct, OthersDescriptors DEF Exec
  <2>2. QED BY <1>12, <2>1, NothingTaken DEF Exec
<1>13. ASSUME NEW k \in Children, StartWorker(k) PROVE Keeps'
  <2>1. fds'[Manager] = fds[Manager]
    BY <1>13, Distinct, OthersDescriptors DEF StartWorker
  <2>2. QED BY <1>13, <2>1, NothingTaken DEF StartWorker
<1>14. ASSUME NEW k \in Children, WorkerGone(k) PROVE Keeps'
  <2>1. fds'[Manager] = fds[Manager]
    BY <1>14, Distinct, OthersDescriptors DEF WorkerGone, Dies
  <2>2. QED BY <1>14, <2>1, NothingTaken DEF WorkerGone
<1>15. ASSUME NEW k \in Children, SupervisorKilled(k) PROVE Keeps'
  <2>1. fds'[Manager] = fds[Manager]
    BY <1>15, Distinct, OthersDescriptors DEF SupervisorKilled, Dies
  <2>2. QED BY <1>15, <2>1, NothingTaken DEF SupervisorKilled
<1>16. ASSUME NEW k \in Children, Work(k) PROVE Keeps'
  <2>1. fds'[Manager] = fds[Manager]
    BY <1>16, Distinct, OthersDescriptors DEF Work, WorkerStops
  <2>2. QED BY <1>16, <2>1, NothingTaken DEF Work
<1>17. ASSUME NEW k \in Children, WorkerCrash(k) PROVE Keeps'
  <2>1. fds'[Manager] = fds[Manager]
    BY <1>17, Distinct, OthersDescriptors DEF WorkerCrash, WorkerStops
  <2>2. QED BY <1>17, <2>1, NothingTaken DEF WorkerCrash
<1>18. ASSUME NEW k \in Children, WorkerEnd(k) PROVE Keeps'
  <2>1. fds'[Manager] = fds[Manager]
    BY <1>18, Distinct, OthersDescriptors DEF WorkerEnd, WorkerStops
  <2>2. QED BY <1>18, <2>1, NothingTaken DEF WorkerEnd
<1>19. CASE Terminated
  BY <1>19, NothingTaken DEF Terminated, vars
<1>20. QED
  BY <1>1, <1>2, <1>3, <1>4, <1>5, <1>6, <1>7, <1>8, <1>9, <1>10, <1>11, <1>12,
     <1>13, <1>14, <1>15, <1>16, <1>17, <1>18, <1>19 DEF Next

-----------------------------------------------------------------------------
(* The inductive invariant: shapes, their bounds, the streams of processes  *)
(* that run, and the ends the manager keeps.                                *)
THEOREM Invariance == Spec => []IInv
<1>1. IInv /\ [Next]_vars => IInv'
  BY StepShapes, StepStreams, StepKeeps DEF IInv, TypeOK
<1>2. QED BY <1>1, Initially, PTL DEF Spec

(* Every variable keeps its shape, and whatever is inherited, closed and    *)
(* duplicated, a supervisor or worker that runs has exactly its own pipes   *)
(* as stdin, stdout and stderr (exec.childproc.hpp:74-85).                  *)
THEOREM Typing == Spec => []TypeOK
<1>1. IInv => TypeOK
  BY DEF IInv
<1>2. QED BY <1>1, Invariance, PTL

(* For any number of children, whichever processes have died, the manager   *)
(* never meets the end of a pipe it reads (exec.childproc.cpp:266-281).     *)
THEOREM PipesStayOpen == Spec => []NoHangup
<1>1. IInv => NoHangup
  <2> SUFFICES ASSUME IInv, Handling,
                      NEW k \in Children, NEW kind \in {"stdout", "stderr", "resend"}
               PROVE  Written(k, kind)
    BY DEF NoHangup
  <2>1. KeptEnd(k, kind) \in fds[Manager]
    <3>1. Made = Children /\ kind \in Kinds \ {"stdin"}
      BY DEF Made, Handling, Kinds
    <3>2. QED BY <3>1 DEF IInv, Keeps
  <2>2. KeptEnd(k, kind).end = <<k, kind, "write">>
    BY DEF KeptEnd, Fd, ChildEnd
  <2>3. QED BY <2>1, <2>2, Distinct DEF Written, Holds
<1>2. QED BY <1>1, Invariance, PTL

=============================================================================
