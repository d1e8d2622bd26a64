--------------------------- MODULE CapacityProofs ---------------------------
(***************************************************************************)
(* Theorems about Capacity for any number of children, any ring size, any   *)
(* connections with any capacities, and any input.                          *)
(***************************************************************************)
EXTENDS Capacity, SequenceLemmas, FiniteSetTheorems, FunctionTheorems,
        SequenceTheorems, TLAPS

(* What the connections contribute: a connection that is not registered     *)
(* holds no work, one that is holds no more than it announced.              *)
WorkBounded ==
  \A x \in Conns :
    /\ IsFiniteSet(work[x])
    /\ Cardinality(work[x]) <= RemoteCap[x]
    /\ x \notin conns => work[x] = {}

(* The limiter: the limit is the number of slots, the count the number of   *)
(* slots in use.                                                            *)
LimitIsSlots == IsFiniteSet(Slots) /\ limit = Cardinality(Slots)
CountIsUse == IsFiniteSet(Occupied) /\ outstanding = Cardinality(Occupied)

IInv == ShapesOK /\ WorkBounded /\ LimitIsSlots /\ CountIsUse

-----------------------------------------------------------------------------
(* The pool is not empty, and its first child is number 0.                  *)
LEMMA ChildrenFacts ==
  /\ NumChildren \in Nat \ {0} /\ BufferSize \in Nat \ {0}
  /\ Children \subseteq Int /\ 0 \in Children
  BY ChildrenAssumption, BufferAssumption DEF Children

(* The rings have NumChildren * BufferSize slots.                           *)
LEMMA LocalSlotsCount ==
  /\ IsFiniteSet(LocalSlots)
  /\ Cardinality(LocalSlots) = NumChildren * BufferSize
<1>1. IsFiniteSet(Children) /\ Cardinality(Children) = NumChildren
  BY FS_Interval, ChildrenAssumption DEF Children
<1>2. IsFiniteSet(1 .. BufferSize) /\ Cardinality(1 .. BufferSize) = BufferSize
  BY FS_Interval, BufferAssumption
<1>3. QED BY <1>1, <1>2, FS_Product DEF LocalSlots

(* A connection has as many slots as its version packet said.               *)
LEMMA RemoteSlotsCount ==
  ASSUME NEW x \in Conns
  PROVE  /\ IsFiniteSet(RemoteSlots(x))
         /\ Cardinality(RemoteSlots(x)) = RemoteCap[x]
<1>1. RemoteCap[x] \in Nat
  BY RemoteCapAssumption
<1>2. IsFiniteSet(1 .. RemoteCap[x]) /\ Cardinality(1 .. RemoteCap[x]) = RemoteCap[x]
  BY <1>1, FS_Interval, SMTT(30)
<1>3. QED BY <1>2, TaggedCount DEF RemoteSlots

-----------------------------------------------------------------------------
(* The jobs in use fit into the slots: every job in a ring is its own slot, *)
(* the jobs of a connection are numbered, and a connection with no room     *)
(* left uses all of its numbers.                                            *)
LEMMA Placement ==
  ASSUME IInv
  PROVE  \E f \in Injection(Occupied, Slots) :
           /\ \A s \in InRing : f[s] = s
           /\ \A x \in conns : ~HasRoom(x) =>
                \A i \in 1 .. RemoteCap[x] : \E s \in Occupied : f[s] = <<x, i>>
<1> DEFINE Num(x) == CHOOSE g \in Injection(work[x], 1 .. RemoteCap[x]) : TRUE
           F == [s \in Occupied |->
                   IF s[1] \in Children THEN s ELSE <<s[1], Num(s[1])[s[2]]>>]
<1>1. ASSUME NEW x \in Conns
      PROVE  /\ Num(x) \in Injection(work[x], 1 .. RemoteCap[x])
             /\ ~HasRoom(x) => Num(x) \in Surjection(work[x], 1 .. RemoteCap[x])
  <2> DEFINE n == Cardinality(work[x])
  <2>1. RemoteCap[x] \in Nat /\ IsFiniteSet(work[x]) /\ n <= RemoteCap[x]
    BY RemoteCapAssumption DEF IInv, WorkBounded
  <2>2. n \in Nat /\ ExistsBijection(1 .. n, work[x])
    BY <2>1, FS_CardinalityType
  <2>3. PICK g : g \in Bijection(work[x], 1 .. n)
    BY <2>2, Fun_ExistsBijSymmetric, Fun_ExistsBij
  <2>4. g \in [work[x] -> 1 .. n] /\ \A a, b \in work[x] : g[a] = g[b] => a = b
    BY <2>3 DEF Bijection, Injection, IsInjective
  <2>5. g \in [work[x] -> 1 .. RemoteCap[x]]
    BY <2>1, <2>2, <2>4
  <2>6. g \in Injection(work[x], 1 .. RemoteCap[x])
    BY <2>4, <2>5 DEF Injection, IsInjective
  <2>7. Num(x) \in Injection(work[x], 1 .. RemoteCap[x])
    BY <2>6
  <2>8. IsFiniteSet(1 .. RemoteCap[x]) /\ Cardinality(1 .. RemoteCap[x]) = RemoteCap[x]
    BY <2>1, FS_Interval
  <2>9. ~HasRoom(x) => n = Cardinality(1 .. RemoteCap[x])
    BY <2>1, <2>2, <2>8 DEF HasRoom
  <2>10. QED
    BY <2>7, <2>8, <2>9, FS_Injection
<1>2. ASSUME NEW s \in Occupied
      PROVE  \/ /\ s \in LocalSlots /\ s \in InRing
                /\ s[1] \in Children
             \/ /\ s \in InWork /\ s[1] \in conns /\ s[1] \in Conns
                /\ s[1] \notin Children /\ s[2] \in work[s[1]]
                /\ s = <<s[1], s[2]>>
                /\ Num(s[1])[s[2]] \in 1 .. RemoteCap[s[1]]
  <2>1. CASE s \in InRing
    BY <2>1 DEF InRing, LocalSlots
  <2>2. CASE s \in InWork
    <3>1. s[1] \in conns /\ s[2] \in work[s[1]] /\ s = <<s[1], s[2]>>
      BY <2>2 DEF InWork
    <3>2. s[1] \in Conns /\ s[1] \notin Children
      BY <3>1, ConnsAssumption DEF IInv, ShapesOK
    <3>3. Num(s[1]) \in [work[s[1]] -> 1 .. RemoteCap[s[1]]]
      BY <1>1, <3>2 DEF Injection
    <3>4. QED BY <2>2, <3>1, <3>2, <3>3
  <2>3. QED BY <2>1, <2>2 DEF Occupied
<1>3. F \in [Occupied -> Slots]
  <2> SUFFICES ASSUME NEW s \in Occupied PROVE F[s] \in Slots
    OBVIOUS
  <2>1. CASE s[1] \in Children
    BY <1>2, <2>1 DEF Slots
  <2>2. CASE s[1] \notin Children
    <3>1. F[s] = <<s[1], Num(s[1])[s[2]]>> /\ s[1] \in conns
      BY <1>2, <2>2
    <3>2. F[s] \in RemoteSlots(s[1])
      BY <1>2, <2>2, <3>1 DEF RemoteSlots
    <3>3. QED BY <3>1, <3>2 DEF Slots
  <2>3. QED BY <2>1, <2>2
<1>4. ASSUME NEW s \in Occupied, NEW t \in Occupied, F[s] = F[t]
      PROVE  s = t
  <2>1. CASE s[1] \in Children /\ t[1] \in Children
    BY <1>4, <2>1
  <2>2. CASE s[1] \in Children /\ t[1] \notin Children
    <3>1. F[s] = s /\ F[t] = <<t[1], Num(t[1])[t[2]]>>
      BY <2>2
    <3>2. s[1] = t[1]
      BY <1>4, <3>1
    <3>3. QED BY <2>2, <3>2
  <2>3. CASE s[1] \notin Children /\ t[1] \in Children
    <3>1. F[t] = t /\ F[s] = <<s[1], Num(s[1])[s[2]]>>
      BY <2>3
    <3>2. s[1] = t[1]
      BY <1>4, <3>1
    <3>3. QED BY <2>3, <3>2
  <2>4. CASE s[1] \notin Children /\ t[1] \notin Children
    <3>1. /\ F[s] = <<s[1], Num(s[1])[s[2]]>>
          /\ F[t] = <<t[1], Num(t[1])[t[2]]>>
      BY <2>4
    <3>2. <<s[1], Num(s[1])[s[2]]>> = <<t[1], Num(t[1])[t[2]]>>
      BY <1>4, <3>1
    <3>3. s[1] = t[1] /\ Num(s[1])[s[2]] = Num(t[1])[t[2]]
      <4> HIDE DEF Num
      <4> QED BY <3>2
    <3>4. s[1] = t[1] /\ Num(s[1])[s[2]] = Num(s[1])[t[2]]
      BY <3>3
    <3>5. s[1] \in Conns /\ s[2] \in work[s[1]] /\ t[2] \in work[s[1]]
      BY <1>2, <2>4, <3>4
    <3>6. Num(s[1]) \in Injection(work[s[1]], 1 .. RemoteCap[s[1]])
      BY <1>1, <3>5
    <3>7. s[2] = t[2]
      BY <3>6, <3>4, <3>5 DEF Injection, IsInjective
    <3>8. QED BY <1>2, <2>4, <3>4, <3>7
  <2>5. QED BY <2>1, <2>2, <2>3, <2>4
<1>5. F \in Injection(Occupied, Slots)
  BY <1>3, <1>4 DEF Injection, IsInjective
<1>6. \A s \in InRing : F[s] = s
  BY DEF InRing, LocalSlots, Occupied
<1>7. ASSUME NEW x \in conns, ~HasRoom(x), NEW i \in 1 .. RemoteCap[x]
      PROVE  \E s \in Occupied : F[s] = <<x, i>>
  <2>1. x \in Conns /\ x \notin Children
    BY ConnsAssumption DEF IInv, ShapesOK
  <2>2. PICK j \in work[x] : Num(x)[j] = i
    BY <1>1, <1>7, <2>1 DEF Surjection
  <2>3. j \in Jobs
    BY <2>1, <2>2 DEF IInv, ShapesOK
  <2>4. <<x, j>> \in Occupied
    BY <2>2, <2>3 DEF Occupied, InWork
  <2>5. F[<<x, j>>] = <<x, i>>
    BY <2>1, <2>2, <2>4
  <2>6. QED BY <2>4, <2>5
<1>8. QED BY <1>5, <1>6, <1>7

-----------------------------------------------------------------------------
(* What SetToSeqs gives for the work of a lost connection: sequences of     *)
(* exactly its jobs.                                                        *)
LEMMA RedistributedFacts ==
  ASSUME NEW x \in Conns, IsFiniteSet(work[x]), NEW s \in Redistributed(x)
  PROVE  /\ s \in Seq(work[x])
         /\ ToSet(s) = work[x]
         /\ \A i, k \in 1 .. Len(s) : s[i] = s[k] => i = k
<1> DEFINE n == Cardinality(work[x])
<1>1. n \in Nat
  BY FS_CardinalityType
<1>2. /\ s \in [1 .. n -> work[x]]
      /\ \A i, k \in 1 .. n : i # k => s[i] # s[k]
  BY DEF Redistributed, SetToSeqs
<1>3. s \in Seq(work[x]) /\ Len(s) = n /\ DOMAIN s = 1 .. n
  BY <1>1, <1>2
<1>4. s \in Injection(1 .. n, work[x])
  BY <1>2 DEF Injection, IsInjective
<1>5. IsFiniteSet(1 .. n) /\ Cardinality(1 .. n) = n
  BY <1>1, FS_Interval
<1>6. s \in Surjection(1 .. n, work[x])
  BY <1>4, <1>5, FS_Injection
<1>7. \A j \in work[x] : \E i \in 1 .. n : s[i] = j
  BY <1>6 DEF Surjection
<1>8. QED
  BY <1>2, <1>3, <1>7 DEF ToSet

(* A coroutine inside next_job holds exactly one job.                       *)
LEMMA HandIsJob ==
  ASSUME ShapesOK, pc \in {"token", "push"}
  PROVE  hand[1] \in Jobs /\ hand = <<hand[1]>>
<1>1. hand \in Seq(Jobs) /\ Len(hand) = 1
  BY DEF ShapesOK
<1>2. QED BY <1>1

(* Popping the front of one ring: the others are as they were.              *)
LEMMA PopRing ==
  ASSUME ShapesOK, NEW c \in Children, LocalDone(c)
  PROVE  /\ commands' \in [Children -> Seq(Jobs)]
         /\ Len(commands[c]) \in Nat \ {0}
         /\ Len(commands'[c]) = Len(commands[c]) - 1
         /\ \A d \in Children \ {c} : commands'[d] = commands[d]
         /\ commands'[c] = Tail(commands[c])
         /\ Head(commands[c]) \in Jobs
<1>1. commands \in [Children -> Seq(Jobs)]
  BY DEF ShapesOK
<1>2. /\ commands' = [commands EXCEPT ![c] = Tail(@)]
      /\ commands[c] # <<>>
  BY DEF LocalDone, Popped
<1>3. /\ Tail(commands[c]) \in Seq(Jobs)
      /\ Len(commands[c]) \in Nat \ {0}
      /\ Len(Tail(commands[c])) = Len(commands[c]) - 1
      /\ Head(commands[c]) \in Jobs
  BY <1>1, <1>2
<1>4. /\ commands' \in [Children -> Seq(Jobs)]
      /\ commands'[c] = Tail(commands[c])
      /\ \A d \in Children \ {c} : commands'[d] = commands[d]
  BY <1>1, <1>2, <1>3
<1>5. QED BY <1>3, <1>4

(* Popping the front of a ring keeps the shapes (handle_stdout).            *)
LEMMA LocalDoneShapes ==
  ASSUME ShapesOK, NEW c \in Children, LocalDone(c)
  PROVE  ShapesOK'
<1>1. UNCHANGED <<input, pc, eof, hand, inputComplete, limit, childIndex,
                  conns, gone, work, executing, late, overspill, read>>
  BY DEF LocalDone, stdinVars, netVars
<1>2. outstanding' \in Int
  BY DEF LocalDone, ShapesOK
<1>3. printed' \in [Jobs -> Nat]
  <2>1. printed \in [Jobs -> Nat]
    BY DEF ShapesOK
  <2>2. printed' = [printed EXCEPT ![Head(commands[c])] = @ + 1]
    BY DEF LocalDone
  <2>3. ASSUME NEW f \in [Jobs -> Nat], NEW k \in Jobs
        PROVE  [f EXCEPT ![k] = @ + 1] \in [Jobs -> Nat]
    OBVIOUS
  <2>4. QED BY <2>1, <2>2, <2>3, PopRing
<1>4. ASSUME NEW d \in Children
      PROVE  Len(commands'[d]) + Promised(d)' <= BufferSize
  <2>1. Promised(d)' = Promised(d) /\ Promised(d) \in Nat
    BY <1>1 DEF Promised
  <2>2. /\ Len(commands[d]) + Promised(d) <= BufferSize
        /\ Len(commands[d]) \in Nat /\ BufferSize \in Nat
    BY BufferAssumption DEF ShapesOK
  <2>3. Len(commands'[d]) \in {Len(commands[d]), Len(commands[d]) - 1}
    BY PopRing
  <2>4. QED BY <2>1, <2>2, <2>3
<1>5. commands' \in [Children -> Seq(Jobs)]
  BY PopRing
<1>6. QED
  BY <1>1, <1>2, <1>3, <1>4, <1>5 DEF ShapesOK

(* An answer of a client keeps the shapes (capacity::job_done).             *)
LEMMA RemoteDoneShapes ==
  ASSUME ShapesOK, NEW x \in Conns, NEW j \in Jobs, RemoteDone(x, j)
  PROVE  ShapesOK'
<1>1. UNCHANGED <<input, pc, eof, hand, inputComplete, limit, childIndex,
                  commands, conns, gone, late, overspill, read>>
  BY DEF RemoteDone, stdinVars, queueVars
<1>2. executing' \in [Conns -> [Jobs -> Nat]]
  BY SMTT(30) DEF RemoteDone, Answer, ShapesOK
<1>3. CASE /\ work' = [work EXCEPT ![x] = @ \ {j}]
           /\ outstanding' = outstanding - 1
           /\ printed' = [printed EXCEPT ![j] = @ + 1]
  <2>1. work' \in [Conns -> SUBSET Jobs]
    BY <1>3 DEF ShapesOK
  <2>2. printed' \in [Jobs -> Nat]
    BY <1>3 DEF ShapesOK
  <2>3. outstanding' \in Int
    BY <1>3 DEF ShapesOK
  <2>4. QED
    BY <1>1, <1>2, <2>1, <2>2, <2>3 DEF ShapesOK, Promised
<1>4. CASE UNCHANGED <<work, outstanding, printed>>
  BY <1>1, <1>2, <1>4 DEF ShapesOK, Promised
<1>5. QED
  BY <1>3, <1>4 DEF RemoteDone

(* Redistribution keeps the shapes (capacity::overspill_work).              *)
LEMMA LostShapes ==
  ASSUME IInv, NEW x \in Conns, Lost(x)
  PROVE  ShapesOK'
<1>1. UNCHANGED <<input, pc, eof, hand, inputComplete, childIndex,
                  commands, read, printed>>
  BY DEF Lost, stdinVars, queueVars
<1>2. ShapesOK /\ IsFiniteSet(work[x]) /\ Cardinality(work[x]) \in Nat
  BY FS_CardinalityType DEF IInv, WorkBounded
<1>3. overspill' \in Seq(Jobs)
  <2>1. PICK s \in Redistributed(x) : overspill' = overspill \o s
    BY DEF Lost
  <2>2. s \in Seq(work[x]) /\ work[x] \subseteq Jobs
    BY <1>2, <2>1, RedistributedFacts DEF ShapesOK
  <2>3. s \in Seq(Jobs)
    BY <2>2
  <2>4. overspill \in Seq(Jobs)
    BY <1>2 DEF ShapesOK
  <2>5. QED BY <2>1, <2>3, <2>4
<1>4. RemoteCap[x] \in Nat /\ limit \in Int /\ outstanding \in Int
  BY <1>2, RemoteCapAssumption DEF ShapesOK
<1>5. limit' \in Int /\ outstanding' \in Int
  BY <1>2, <1>4 DEF Lost, LimitWithout, TokensWithout
<1>6. work' \in [Conns -> SUBSET Jobs]
  BY <1>2 DEF Lost, ShapesOK
<1>7. executing' \in [Conns -> [Jobs -> Nat]]
  BY <1>2 DEF Lost, NoJob, ShapesOK
<1>8. /\ conns' \in SUBSET Conns /\ gone' \in SUBSET Conns
      /\ late' \in SUBSET Jobs
  BY <1>2 DEF Lost, ShapesOK
<1>9. QED
  BY <1>1, <1>2, <1>3, <1>5, <1>6, <1>7, <1>8 DEF ShapesOK, Promised

(* Every step keeps the shapes of the variables.                            *)
LEMMA ShapesStep ==
  ASSUME IInv, [Next]_vars
  PROVE  ShapesOK'
<1> USE ChildrenFacts DEF IInv, ShapesOK, Promised, vars, stdinVars,
        limitVars, queueVars, netVars
<1>1. CASE ClearOverspill
  BY <1>1, SMTT(30) DEF ClearOverspill
<1>2. CASE OverspillCleared
  BY <1>2 DEF OverspillCleared
<1>3. CASE ReadLine
  <2>1. Head(input) \in Jobs /\ Tail(input) \in Seq(Jobs)
    BY <1>3 DEF ReadLine
  <2>2. read' \in [Jobs -> Nat]
    BY <1>3, <2>1, SMTT(30) DEF ReadLine
  <2>3. hand' \in Seq(Jobs) /\ Len(hand') = 1
    BY <1>3, <2>1 DEF ReadLine
  <2>4. QED BY <1>3, <2>1, <2>2, <2>3 DEF ReadLine
<1>4. CASE EndOfInput
  BY <1>4 DEF EndOfInput, AfterInput
<1>5. ASSUME NEW x \in Conns, PlaceRemote(x) PROVE ShapesOK'
  <2>1. hand[1] \in Jobs
    BY <1>5, HandIsJob DEF PlaceRemote
  <2>2. work' \in [Conns -> SUBSET Jobs]
    BY <1>5, <2>1 DEF PlaceRemote
  <2>3. executing' \in [Conns -> [Jobs -> Nat]]
    BY <1>5, <2>1 DEF PlaceRemote
  <2>4. outstanding' \in Int
    BY <1>5 DEF PlaceRemote, TokensAfterSend
  <2>5. QED BY <1>5, <2>2, <2>3, <2>4, SMTT(30) DEF PlaceRemote
<1>6. ASSUME NEW c \in Children, PlaceLocal(c) PROVE ShapesOK'
  <2>1. Len(commands[c]) < BufferSize
    BY <1>6 DEF PlaceLocal, NextFree, Full
  <2>2. QED BY <1>6, <2>1, SMTT(30) DEF PlaceLocal
<1>7. CASE Push
  <2>1. ~Full(childIndex)
    BY <1>7 DEF Push, Full
  <2>2. commands' = [commands EXCEPT ![childIndex] = Append(@, hand[1])]
    BY <1>7, <2>1 DEF Push
  <2>3. hand[1] \in Jobs
    BY <1>7, HandIsJob DEF Push
  <2>4. QED BY <1>7, <2>1, <2>2, <2>3, SMTT(30) DEF Push
<1>8. CASE Finish
  BY <1>8 DEF Finish
<1>9. ASSUME NEW c \in Children, LocalDone(c) PROVE ShapesOK'
  BY <1>9, LocalDoneShapes
<1>10. ASSUME NEW x \in Conns, Additional(x) PROVE ShapesOK'
  <2>1. limit' \in Int
    BY <1>10, RemoteCapAssumption DEF Additional
  <2>2. conns' \in SUBSET Conns
    BY <1>10 DEF Additional
  <2>3. QED BY <1>10, <2>1, <2>2 DEF Additional
<1>11. ASSUME NEW x \in Conns, NEW j \in Jobs, RemoteDone(x, j) PROVE ShapesOK'
  BY <1>11, RemoteDoneShapes
<1>12. ASSUME NEW x \in Conns, Lost(x) PROVE ShapesOK'
  BY <1>12, LostShapes
<1>13. CASE UNCHANGED vars
  BY <1>13
<1>14. QED
  BY <1>1, <1>2, <1>3, <1>4, <1>5, <1>6, <1>7, <1>8, <1>9, <1>10, <1>11,
     <1>12, <1>13 DEF Next, Stdin, Terminated

-----------------------------------------------------------------------------
(* The counters.  One lemma per kind of step says how it changes the slots, *)
(* the jobs in use and the numbers the limiter keeps for them.              *)
Counted == WorkBounded /\ LimitIsSlots /\ CountIsUse

(* A slot or a job belongs to a child or to a connection, not to both.      *)
LEMMA Apart ==
  ASSUME ShapesOK
  PROVE  /\ \A s \in InRing : s[1] \in Children /\ s[1] \notin Conns
         /\ \A s \in InWork : s[1] \in conns /\ s[1] \in Conns /\ s[1] \notin Children
         /\ conns \subseteq Conns
  BY ConnsAssumption DEF ShapesOK, InRing, InWork, LocalSlots

(* A step that touches neither the queues nor the limiter keeps the counts. *)
LEMMA SameQueues ==
  ASSUME Counted,
         UNCHANGED <<limit, outstanding, commands, conns, work>>,
         \A c \in Children : Promised(c)' = Promised(c)
  PROVE  Counted'
<1>1. InRing' = InRing
  BY DEF InRing, LocalSlots
<1>2. InWork' = InWork
  BY DEF InWork
<1>3. Slots' = Slots
  BY DEF Slots, LocalSlots, RemoteSlots
<1>4. WorkBounded'
  BY DEF Counted, WorkBounded
<1>5. QED
  BY <1>1, <1>2, <1>3, <1>4 DEF Counted, LimitIsSlots, CountIsUse, Occupied

(* next_job on a connection: one token more and one job more, unless an     *)
(* equal job is replaced.                                                   *)
LEMMA PlaceRemoteCounted ==
  ASSUME ShapesOK, Counted, NEW x \in Conns, PlaceRemote(x)
  PROVE  Counted'
<1> DEFINE j == hand[1]
<1>1. j \in Jobs
  BY HandIsJob DEF PlaceRemote
<1>2. /\ UNCHANGED <<limit, commands, conns>>
      /\ \A c \in Children : Promised(c)' = Promised(c)
      /\ x \in conns
      /\ outstanding' = IF j \in work[x] THEN outstanding ELSE outstanding + 1
  BY DEF PlaceRemote, TokensAfterSend, queueVars, Promised
<1>3. /\ work'[x] = work[x] \cup {j}
      /\ \A y \in Conns \ {x} : work'[y] = work[y]
  BY DEF PlaceRemote, ShapesOK
<1>4. /\ IsFiniteSet(work[x] \cup {j})
      /\ Cardinality(work[x] \cup {j}) <= RemoteCap[x]
  <2>1. /\ IsFiniteSet(work[x]) /\ Cardinality(work[x]) \in Nat
        /\ RemoteCap[x] \in Nat /\ RemoteCap[x] > Cardinality(work[x])
    BY FS_CardinalityType, RemoteCapAssumption
    DEF Counted, WorkBounded, PlaceRemote, HasRoom
  <2>2. /\ IsFiniteSet(work[x] \cup {j})
        /\ Cardinality(work[x] \cup {j}) =
             IF j \in work[x] THEN Cardinality(work[x]) ELSE Cardinality(work[x]) + 1
    BY <2>1, FS_AddElement
  <2>3. QED BY <2>1, <2>2
<1>5. WorkBounded'
  BY <1>2, <1>3, <1>4 DEF Counted, WorkBounded
<1>6. LimitIsSlots'
  BY <1>2 DEF Counted, LimitIsSlots, Slots, LocalSlots, RemoteSlots
<1>7. InRing' = InRing
  BY <1>2 DEF InRing, LocalSlots
<1>8. InWork' = InWork \cup {<<x, j>>}
  <2>1. ASSUME NEW s \in InWork' PROVE s \in InWork \cup {<<x, j>>}
    BY <1>2, <1>3, Apart, <2>1 DEF InWork
  <2>2. ASSUME NEW s \in InWork PROVE s \in InWork'
    BY <1>2, <1>3, Apart, <2>2 DEF InWork
  <2>3. <<x, j>> \in InWork'
    BY <1>1, <1>2, <1>3 DEF InWork
  <2>4. QED BY <2>1, <2>2, <2>3
<1>9. Occupied' = Occupied \cup {<<x, j>>}
  BY <1>7, <1>8 DEF Occupied
<1>10. <<x, j>> \in Occupied <=> j \in work[x]
  BY <1>1, <1>2, Apart DEF Occupied, InWork
<1>11. CountIsUse'
  BY <1>2, <1>9, <1>10, FS_AddElement DEF Counted, CountIsUse
<1>12. QED BY <1>5, <1>6, <1>11 DEF Counted

(* next_job on a child: the token counts the slot promised to the write in  *)
(* flight.                                                                  *)
LEMMA PlaceLocalCounted ==
  ASSUME ShapesOK, Counted, NEW c \in Children, PlaceLocal(c)
  PROVE  Counted'
<1> DEFINE new == <<c, Len(commands[c]) + 1>>
<1>1. /\ UNCHANGED <<limit, commands, conns, work>>
      /\ outstanding' = outstanding + 1
      /\ pc = "token" /\ pc' = "push" /\ childIndex' = c
      /\ ~Full(c)
  BY DEF PlaceLocal, netVars, NextFree
<1>2. /\ \A d \in Children : Promised(d) = 0
      /\ Promised(c)' = 1
      /\ \A d \in Children \ {c} : Promised(d)' = 0
  BY <1>1 DEF Promised
<1>3. \A d \in Children : Len(commands[d]) \in Nat
  BY DEF ShapesOK
<1>4. Len(commands[c]) < BufferSize /\ BufferSize \in Nat
  BY <1>1, <1>2, <1>3, BufferAssumption DEF ShapesOK, Full
<1>5. new \in LocalSlots /\ new \notin InRing
  BY <1>2, <1>3, <1>4 DEF LocalSlots, InRing
<1>6. InRing' = InRing \cup {new}
  <2>1. ASSUME NEW s \in InRing' PROVE s \in InRing \cup {new}
    <3>1. s \in LocalSlots /\ s[1] \in Children /\ s[2] \in Nat /\ s = <<s[1], s[2]>>
      BY <2>1 DEF InRing, LocalSlots
    <3>2. s[2] <= Len(commands[s[1]]) + Promised(s[1])'
      BY <1>1, <2>1 DEF InRing
    <3>3. CASE s[1] = c
      <4>1. s[2] <= Len(commands[c]) \/ s[2] = Len(commands[c]) + 1
        BY <1>2, <1>3, <3>1, <3>2, <3>3
      <4>2. QED BY <1>2, <1>3, <3>1, <3>3, <4>1 DEF InRing
    <3>4. CASE s[1] # c
      BY <1>2, <1>3, <3>1, <3>2, <3>4 DEF InRing
    <3>5. QED BY <3>3, <3>4
  <2>2. ASSUME NEW s \in InRing PROVE s \in InRing'
    <3>1. s \in LocalSlots /\ s[1] \in Children /\ s[2] \in Nat
      BY <2>2 DEF InRing, LocalSlots
    <3>2. s[2] <= Len(commands[s[1]])
      BY <1>2, <1>3, <2>2, <3>1 DEF InRing
    <3>3. s[2] <= Len(commands'[s[1]]) + Promised(s[1])'
      BY <1>1, <1>2, <1>3, <3>1, <3>2
    <3>4. QED BY <3>1, <3>3 DEF InRing, LocalSlots
  <2>3. new \in InRing'
    BY <1>1, <1>2, <1>3, <1>5 DEF InRing, LocalSlots
  <2>4. QED BY <2>1, <2>2, <2>3
<1>7. Occupied' = Occupied \cup {new}
  BY <1>1, <1>6 DEF Occupied, InWork
<1>8. new \notin Occupied
  BY <1>5, Apart DEF Occupied
<1>9. CountIsUse'
  BY <1>1, <1>7, <1>8, FS_AddElement DEF Counted, CountIsUse
<1>10. LimitIsSlots' /\ WorkBounded'
  BY <1>1 DEF Counted, LimitIsSlots, Slots, LocalSlots, RemoteSlots, WorkBounded
<1>11. QED BY <1>9, <1>10 DEF Counted

(* The push turns the promised slot into a queued job.                      *)
LEMMA PushCounted ==
  ASSUME ShapesOK, Counted, Push
  PROVE  Counted'
<1>1. ~Full(childIndex) /\ childIndex \in Children
  BY BufferAssumption DEF Push, ShapesOK, Full, Promised
<1>2. /\ UNCHANGED <<limit, childIndex, conns, work, outstanding>>
      /\ pc = "push" /\ pc' = "clear"
      /\ commands' = [commands EXCEPT ![childIndex] = Append(@, hand[1])]
  BY <1>1 DEF Push, netVars
<1>3. \A c \in Children : Len(commands'[c]) + Promised(c)'
                            = Len(commands[c]) + Promised(c)
  <2> SUFFICES ASSUME NEW c \in Children
               PROVE  Len(commands'[c]) + Promised(c)' = Len(commands[c]) + Promised(c)
    OBVIOUS
  <2>1. commands \in [Children -> Seq(Jobs)] /\ hand[1] \in Jobs
    BY <1>2, HandIsJob DEF ShapesOK
  <2>2. Promised(c)' = 0
    BY <1>2 DEF Promised
  <2>3. CASE c = childIndex
    <3>1. Len(Append(commands[c], hand[1])) = Len(commands[c]) + 1
      BY <2>1
    <3>2. commands'[c] = Append(commands[c], hand[1])
      BY <1>1, <1>2, <2>1, <2>3
    <3>3. Promised(c) = 1
      BY <1>2, <2>3 DEF Promised
    <3>4. Len(commands[c]) \in Nat
      BY <2>1
    <3>5. QED BY <2>2, <3>1, <3>2, <3>3, <3>4
  <2>4. CASE c # childIndex
    BY <1>2, <2>1, <2>2, <2>4 DEF Promised
  <2>5. QED BY <2>3, <2>4
<1>4. InRing' = InRing
  <2>1. ASSUME NEW s \in LocalSlots PROVE s[1] \in Children
    BY <2>1 DEF LocalSlots
  <2>2. LocalSlots' = LocalSlots
    BY DEF LocalSlots
  <2>3. QED BY <1>3, <2>1, <2>2 DEF InRing
<1>5. QED
  BY <1>2, <1>4
  DEF Counted, WorkBounded, LimitIsSlots, CountIsUse, Occupied, InWork, Slots,
      LocalSlots, RemoteSlots

(* A reported job leaves its ring together with its token.                  *)
LEMMA LocalDoneCounted ==
  ASSUME ShapesOK, Counted, NEW c \in Children, LocalDone(c)
  PROVE  Counted'
<1> DEFINE last == Len(commands[c]) + Promised(c)
           old == <<c, last>>
<1>1. /\ UNCHANGED <<limit, conns, work>>
      /\ outstanding' = outstanding - 1
      /\ \A d \in Children : Promised(d)' = Promised(d) /\ Promised(d) \in {0, 1}
  BY DEF LocalDone, stdinVars, netVars, Promised
<1>2. \A d \in Children : Len(commands[d]) \in Nat
  BY DEF ShapesOK
<1>3. /\ Len(commands[c]) >= 1 /\ last \in 1 .. BufferSize
      /\ Len(commands'[c]) = Len(commands[c]) - 1
      /\ \A d \in Children \ {c} : commands'[d] = commands[d]
  <2>1. /\ Len(commands[c]) \in Nat \ {0}
        /\ Len(commands'[c]) = Len(commands[c]) - 1
        /\ \A d \in Children \ {c} : commands'[d] = commands[d]
    BY PopRing
  <2>2. BufferSize \in Nat /\ Len(commands[c]) + Promised(c) <= BufferSize
    BY BufferAssumption DEF ShapesOK
  <2>3. QED BY <1>1, <2>1, <2>2
<1>4. old \in InRing
  BY <1>3 DEF InRing, LocalSlots
<1>5. InRing' = InRing \ {old}
  <2>1. ASSUME NEW s \in LocalSlots
        PROVE  (s[2] <= Len(commands'[s[1]]) + Promised(s[1])')
                 <=> (s[2] <= Len(commands[s[1]]) + Promised(s[1]) /\ s # old)
    <3>1. s[1] \in Children /\ s[2] \in Nat /\ s = <<s[1], s[2]>>
      BY <2>1 DEF LocalSlots
    <3>2. CASE s[1] = c
      <4>1. /\ Len(commands'[s[1]]) + Promised(s[1])' = last - 1
            /\ last \in Nat
        BY <1>1, <1>2, <1>3, <3>2
      <4>2. s = old <=> s[2] = last
        BY <3>1, <3>2
      <4>3. QED BY <3>1, <3>2, <4>1, <4>2
    <3>3. CASE s[1] # c
      BY <1>1, <1>3, <3>1, <3>3
    <3>4. QED BY <3>2, <3>3
  <2>2. LocalSlots' = LocalSlots
    BY DEF LocalSlots
  <2>3. QED BY <2>1, <2>2 DEF InRing
<1>6. Occupied' = Occupied \ {old}
  BY <1>1, <1>4, <1>5, Apart DEF Occupied, InWork
<1>7. old \in Occupied
  BY <1>4 DEF Occupied
<1>8. CountIsUse'
  BY <1>1, <1>6, <1>7, FS_RemoveElement DEF Counted, CountIsUse
<1>9. LimitIsSlots' /\ WorkBounded'
  BY <1>1 DEF Counted, LimitIsSlots, Slots, LocalSlots, RemoteSlots, WorkBounded
<1>10. QED BY <1>8, <1>9 DEF Counted

(* An answered job leaves the work map together with its token; an answer   *)
(* to a job that is no longer there changes nothing.                        *)
LEMMA RemoteDoneCounted ==
  ASSUME ShapesOK, Counted, NEW x \in Conns, NEW j \in Jobs, RemoteDone(x, j)
  PROVE  Counted'
<1>1. /\ UNCHANGED <<limit, commands, conns>>
      /\ \A c \in Children : Promised(c)' = Promised(c)
      /\ x \in conns
  BY DEF RemoteDone, stdinVars, queueVars, Promised
<1>2. CASE UNCHANGED <<work, outstanding, printed>>
  BY <1>1, <1>2, SameQueues
<1>3. CASE /\ j \in work[x]
           /\ work' = [work EXCEPT ![x] = @ \ {j}]
           /\ outstanding' = outstanding - 1
  <2>1. /\ work'[x] = work[x] \ {j}
        /\ \A y \in Conns \ {x} : work'[y] = work[y]
    BY <1>3 DEF ShapesOK
  <2>2. /\ IsFiniteSet(work[x] \ {j})
        /\ Cardinality(work[x] \ {j}) <= RemoteCap[x]
    <3>1. /\ IsFiniteSet(work[x]) /\ Cardinality(work[x]) \in Nat
          /\ RemoteCap[x] \in Nat /\ Cardinality(work[x]) <= RemoteCap[x]
      BY FS_CardinalityType, RemoteCapAssumption DEF Counted, WorkBounded
    <3>2. /\ IsFiniteSet(work[x] \ {j})
          /\ Cardinality(work[x] \ {j}) = Cardinality(work[x]) - 1
      BY <1>3, <3>1, FS_RemoveElement
    <3>3. QED BY <3>1, <3>2
  <2>3. WorkBounded'
    BY <1>1, <2>1, <2>2 DEF Counted, WorkBounded
  <2>4. InWork' = InWork \ {<<x, j>>}
    <3>1. ASSUME NEW s \in conns \X Jobs
          PROVE  s[2] \in work'[s[1]] <=> s[2] \in work[s[1]] /\ s # <<x, j>>
      BY <2>1, Apart, <3>1
    <3>2. QED BY <1>1, <3>1 DEF InWork
  <2>5. InRing' = InRing
    BY <1>1 DEF InRing, LocalSlots
  <2>6. <<x, j>> \in InWork /\ <<x, j>> \notin InRing
    BY <1>1, <1>3, Apart DEF InWork
  <2>7. Occupied' = Occupied \ {<<x, j>>} /\ <<x, j>> \in Occupied
    BY <2>4, <2>5, <2>6 DEF Occupied
  <2>8. CountIsUse'
    BY <1>3, <2>7, FS_RemoveElement DEF Counted, CountIsUse
  <2>9. LimitIsSlots'
    BY <1>1 DEF Counted, LimitIsSlots, Slots, LocalSlots, RemoteSlots
  <2>10. QED BY <2>3, <2>8, <2>9 DEF Counted
<1>4. QED BY <1>2, <1>3 DEF RemoteDone

(* A new connection adds its slots to the limit, and no job.                *)
LEMMA AdditionalCounted ==
  ASSUME ShapesOK, Counted, NEW x \in Conns, Additional(x)
  PROVE  Counted'
<1>1. /\ UNCHANGED <<outstanding, commands, work>>
      /\ \A c \in Children : Promised(c)' = Promised(c)
      /\ x \notin conns /\ conns' = conns \cup {x}
      /\ limit' = limit + RemoteCap[x]
      /\ work[x] = {}
  BY DEF Additional, stdinVars, queueVars, Promised, Counted, WorkBounded
<1>2. Slots' = Slots \cup RemoteSlots(x)
  BY <1>1 DEF Slots, LocalSlots, RemoteSlots
<1>3. Slots \cap RemoteSlots(x) = {}
  BY <1>1, ConnsAssumption DEF Slots, LocalSlots, RemoteSlots
<1>4. Cardinality({}) = 0 /\ Cardinality(Slots) \in Nat /\ RemoteCap[x] \in Nat
  BY FS_EmptySet, FS_CardinalityType, RemoteCapAssumption DEF Counted, LimitIsSlots
<1>5. /\ IsFiniteSet(Slots \cup RemoteSlots(x))
      /\ Cardinality(Slots \cup RemoteSlots(x)) = Cardinality(Slots) + RemoteCap[x]
  <2>1. IsFiniteSet(Slots) /\ IsFiniteSet(RemoteSlots(x))
    BY RemoteSlotsCount DEF Counted, LimitIsSlots
  <2>2. /\ IsFiniteSet(Slots \cup RemoteSlots(x))
        /\ Cardinality(Slots \cup RemoteSlots(x)) =
              Cardinality(Slots) + Cardinality(RemoteSlots(x)) - Cardinality({})
    BY <1>3, <2>1, FS_Union
  <2>3. Cardinality(RemoteSlots(x)) = RemoteCap[x]
    BY RemoteSlotsCount
  <2>4. QED BY <1>4, <2>2, <2>3
<1>6. LimitIsSlots'
  BY <1>1, <1>2, <1>5 DEF Counted, LimitIsSlots
<1>7. InRing' = InRing
  BY <1>1 DEF InRing, LocalSlots
<1>8. InWork' = InWork
  BY <1>1 DEF InWork
<1>9. CountIsUse'
  BY <1>1, <1>7, <1>8 DEF Counted, CountIsUse, Occupied
<1>10. WorkBounded'
  BY <1>1 DEF Counted, WorkBounded
<1>11. QED BY <1>6, <1>9, <1>10 DEF Counted

(* A lost connection takes its slots and its tokens away with it.           *)
LEMMA LostCounted ==
  ASSUME ShapesOK, Counted, NEW x \in Conns, Lost(x)
  PROVE  Counted'
<1>1. /\ UNCHANGED commands
      /\ \A c \in Children : Promised(c)' = Promised(c)
      /\ x \in conns /\ conns' = conns \ {x}
      /\ limit' = limit - RemoteCap[x]
      /\ outstanding' = outstanding - Cardinality(work[x])
  BY DEF Lost, stdinVars, queueVars, Promised, LimitWithout, TokensWithout
<1>2. work'[x] = {} /\ \A y \in Conns \ {x} : work'[y] = work[y]
  BY DEF Lost, ShapesOK
<1>3. /\ IsFiniteSet(work[x]) /\ Cardinality(work[x]) \in Nat
      /\ RemoteCap[x] \in Nat
      /\ Cardinality({}) = 0 /\ IsFiniteSet({})
  BY FS_CardinalityType, FS_EmptySet, RemoteCapAssumption DEF Counted, WorkBounded
<1>4. WorkBounded'
  <2>1. ASSUME NEW y \in Conns
        PROVE  /\ IsFiniteSet(work'[y])
               /\ Cardinality(work'[y]) <= RemoteCap[y]
               /\ y \notin conns' => work'[y] = {}
    <3>1. CASE y = x
      BY <1>2, <1>3, <3>1
    <3>2. CASE y # x
      BY <1>1, <1>2, <2>1, <3>2 DEF Counted, WorkBounded
    <3>3. QED BY <3>1, <3>2
  <2>2. QED BY <2>1 DEF WorkBounded
<1>5. Slots' = Slots \ RemoteSlots(x)
  BY <1>1, ConnsAssumption DEF Slots, LocalSlots, RemoteSlots
<1>6. Slots \cap RemoteSlots(x) = RemoteSlots(x)
  BY <1>1 DEF Slots
<1>7. LimitIsSlots'
  <2>1. IsFiniteSet(Slots) /\ limit = Cardinality(Slots)
    BY DEF Counted, LimitIsSlots
  <2>2. /\ IsFiniteSet(Slots \ RemoteSlots(x))
        /\ Cardinality(Slots \ RemoteSlots(x)) =
             Cardinality(Slots) - Cardinality(Slots \cap RemoteSlots(x))
    BY <2>1, FS_Difference
  <2>3. Cardinality(RemoteSlots(x)) = RemoteCap[x]
    BY RemoteSlotsCount
  <2>4. QED BY <1>1, <1>5, <1>6, <2>1, <2>2, <2>3 DEF LimitIsSlots
<1>8. InRing' = InRing
  BY <1>1 DEF InRing, LocalSlots
<1>9. InWork' = InWork \ ({x} \X work[x])
  <2>1. ASSUME NEW s \in conns \X Jobs
        PROVE  (s[1] # x /\ s[2] \in work'[s[1]])
                  <=> (s[2] \in work[s[1]] /\ s \notin {x} \X work[x])
    BY <1>2, Apart, <2>1
  <2>2. QED BY <1>1, <2>1 DEF InWork
<1>10. {x} \X work[x] \subseteq InWork /\ ({x} \X work[x]) \cap InRing = {}
  BY <1>1, Apart DEF InWork, ShapesOK
<1>11. /\ Occupied' = Occupied \ ({x} \X work[x])
       /\ Occupied \cap ({x} \X work[x]) = {x} \X work[x]
  BY <1>8, <1>9, <1>10 DEF Occupied
<1>12. CountIsUse'
  <2>1. IsFiniteSet(Occupied) /\ outstanding = Cardinality(Occupied)
    BY DEF Counted, CountIsUse
  <2>2. /\ IsFiniteSet(Occupied \ ({x} \X work[x]))
        /\ Cardinality(Occupied \ ({x} \X work[x])) =
             Cardinality(Occupied) - Cardinality(Occupied \cap ({x} \X work[x]))
    BY <2>1, FS_Difference
  <2>3. Cardinality({x} \X work[x]) = Cardinality(work[x])
    BY <1>3, TaggedCount
  <2>4. QED BY <1>1, <1>11, <2>1, <2>2, <2>3 DEF CountIsUse
<1>13. QED BY <1>4, <1>7, <1>12 DEF Counted

-----------------------------------------------------------------------------
(* Initially no job is out and the limit is what the rings can hold.        *)
LEMMA InitInv == Init => IInv
<1> SUFFICES ASSUME Init PROVE IInv
  OBVIOUS
<1>1. ShapesOK
  <2>1. /\ input \in Seq(Jobs) /\ hand = <<>> /\ overspill = <<>>
        /\ pc = "clear" /\ childIndex \in Children
    BY InputsAssumption, ChildrenFacts DEF Init
  <2>2. limit \in Int /\ outstanding \in Int
    BY ChildrenFacts, LocalSlotsCount, FS_CardinalityType DEF Init
  <2>3. /\ commands \in [Children -> Seq(Jobs)]
        /\ \A c \in Children : Len(commands[c]) + Promised(c) <= BufferSize
    BY BufferAssumption DEF Init, Promised
  <2>4. QED
    BY <2>1, <2>2, <2>3 DEF Init, ShapesOK, NoJob
<1>2. Slots = LocalSlots
  BY DEF Init, Slots
<1>3. Occupied = {}
  <2>1. InWork = {}
    BY DEF Init, InWork
  <2>2. \A s \in LocalSlots : ~(s[2] <= Len(commands[s[1]]) + Promised(s[1]))
    BY DEF Init, LocalSlots, Promised
  <2>3. QED BY <2>1, <2>2 DEF Occupied, InRing
<1>4. WorkBounded
  BY FS_EmptySet, RemoteCapAssumption DEF Init, WorkBounded
<1>5. LimitIsSlots /\ CountIsUse
  BY <1>2, <1>3, LocalSlotsCount, FS_EmptySet DEF Init, LimitIsSlots, CountIsUse
<1>6. QED BY <1>1, <1>4, <1>5 DEF IInv

(* Every step keeps the inductive invariant.                                *)
LEMMA NextInv == IInv /\ [Next]_vars => IInv'
<1> SUFFICES ASSUME IInv, [Next]_vars PROVE IInv'
  OBVIOUS
<1>1. ShapesOK /\ Counted
  BY DEF IInv, Counted
<1>2. ShapesOK'
  BY ShapesStep
<1>3. ASSUME pc # "push", pc' # "push", UNCHANGED <<limitVars, queueVars, netVars>>
      PROVE  Counted'
  BY <1>1, <1>3, SameQueues DEF limitVars, queueVars, netVars, Promised
<1>4. ASSUME ClearOverspill \/ OverspillCleared \/ ReadLine \/ EndOfInput \/ Finish
      PROVE  Counted'
  BY <1>3, <1>4
  DEF ClearOverspill, OverspillCleared, ReadLine, EndOfInput, AfterInput, Finish
<1>5. ASSUME NEW x \in Conns, PlaceRemote(x) PROVE Counted'
  BY <1>1, <1>5, PlaceRemoteCounted
<1>6. ASSUME NEW c \in Children, PlaceLocal(c) PROVE Counted'
  BY <1>1, <1>6, PlaceLocalCounted
<1>7. ASSUME Push PROVE Counted'
  BY <1>1, <1>7, PushCounted
<1>8. ASSUME NEW c \in Children, LocalDone(c) PROVE Counted'
  BY <1>1, <1>8, LocalDoneCounted
<1>9. ASSUME NEW x \in Conns, Additional(x) PROVE Counted'
  BY <1>1, <1>9, AdditionalCounted
<1>10. ASSUME NEW x \in Conns, NEW j \in Jobs, RemoteDone(x, j) PROVE Counted'
  BY <1>1, <1>10, RemoteDoneCounted
<1>11. ASSUME NEW x \in Conns, Lost(x) PROVE Counted'
  BY <1>1, <1>11, LostCounted
<1>12. ASSUME UNCHANGED vars PROVE Counted'
  BY <1>1, <1>12, SameQueues
  DEF vars, stdinVars, limitVars, queueVars, netVars, Promised
<1>13. Counted'
  BY <1>4, <1>5, <1>6, <1>7, <1>8, <1>9, <1>10, <1>11, <1>12
  DEF Next, Stdin, Terminated
<1>14. QED BY <1>2, <1>13 DEF IInv, Counted

(* The shapes, the bound on the work maps and the two accounts of the       *)
(* limiter hold in every reachable state (exec.capacity.cpp:29-130).        *)
THEOREM Invariance == Spec => []IInv
  BY InitInv, NextInv, PTL DEF Spec

(* The unsigned counters of the limiter never wrap (exec.capacity.cpp:104   *)
(* and the release of every token), and no ring is ever pushed to when it   *)
(* is full.                                                                 *)
THEOREM Typing == Spec => []TypeOK
<1>1. IInv => TypeOK
  BY FS_CardinalityType DEF IInv, LimitIsSlots, CountIsUse, TypeOK
<1>2. QED BY Invariance, <1>1, PTL

(* The count of the limiter is the number of jobs in the queues, however    *)
(* they leave them (exec.capacity.cpp:47, 80, 105, exec.childproc.cpp:317). *)
THEOREM TokensAreSlots == Spec => []TokensAccounted
<1>1. IInv => TokensAccounted
  BY DEF IInv, CountIsUse, TokensAccounted
<1>2. QED BY Invariance, <1>1, PTL

(* There are never more jobs out than slots (exec.capacity.cpp:99-105).     *)
THEOREM Committed == Spec => []NeverOverCommitted
<1>1. IInv => NeverOverCommitted
  <2> SUFFICES ASSUME IInv PROVE NeverOverCommitted
    OBVIOUS
  <2>1. IsFiniteSet(Slots)
    BY DEF IInv, LimitIsSlots
  <2>2. Cardinality(Occupied) <= Cardinality(Slots)
    BY <2>1, Placement, FS_Injection
  <2>3. QED
    BY <2>2 DEF IInv, LimitIsSlots, CountIsUse, NeverOverCommitted
<1>2. QED BY Invariance, <1>1, PTL

(* The comment at exec.capacity.cpp:37-39 is right to ask that the limit be *)
(* the number of slots, and it is: when next_job gets a token, a connection *)
(* or a ring has room, so that the rotation over the children terminates.   *)
(* Were all of them full, the placement of the jobs in the slots would be   *)
(* onto, and the count would equal the limit.                               *)
THEOREM RotationEnds == Spec => []TokenFindsSlot
<1>1. IInv => TokenFindsSlot
  <2> SUFFICES ASSUME IInv, pc = "token", TokenFree,
                      \A x \in conns : ~HasRoom(x),
                      \A c \in Children : Full(c)
               PROVE  FALSE
    BY DEF TokenFindsSlot
  <2>1. PICK f \in Injection(Occupied, Slots) :
           /\ \A s \in InRing : f[s] = s
           /\ \A x \in conns : ~HasRoom(x) =>
                \A i \in 1 .. RemoteCap[x] : \E s \in Occupied : f[s] = <<x, i>>
    BY Placement
  <2>2. LocalSlots \subseteq InRing
    <3>1. \A c \in Children : Len(commands[c]) + Promised(c) = BufferSize
      BY BufferAssumption DEF Promised, Full
    <3>2. QED BY <3>1, BufferAssumption DEF LocalSlots, InRing
  <2>3. ASSUME NEW t \in Slots PROVE \E s \in Occupied : f[s] = t
    <3>1. CASE t \in LocalSlots
      BY <2>1, <2>2, <3>1 DEF Occupied
    <3>2. CASE t \notin LocalSlots
      <4>1. PICK x \in conns : t \in RemoteSlots(x)
        BY <3>2 DEF Slots
      <4>2. PICK i \in 1 .. RemoteCap[x] : t = <<x, i>>
        BY <4>1 DEF RemoteSlots
      <4>3. QED BY <2>1, <4>2
    <3>3. QED BY <3>1, <3>2
  <2>4. f \in Surjection(Occupied, Slots)
    BY <2>1, <2>3 DEF Surjection, Injection
  <2>5. IsFiniteSet(Slots) /\ limit = Cardinality(Slots)
        /\ outstanding = Cardinality(Occupied)
    BY DEF IInv, LimitIsSlots, CountIsUse
  <2>6. Cardinality(Occupied) = Cardinality(Slots)
    BY <2>1, <2>4, <2>5, FS_Injection
  <2>7. Cardinality(Slots) \in Nat
    BY <2>5, FS_CardinalityType
  <2>8. QED BY <2>5, <2>6, <2>7 DEF TokenFree
<1>2. QED BY Invariance, <1>1, PTL

-----------------------------------------------------------------------------
(* No line is forgotten.  What a step has to show: a job that was held is   *)
(* held afterwards, or it has been printed.                                 *)
(* Taking the head off a sequence loses no other element.                   *)
LEMMA TailLoses ==
  ASSUME NEW s \in Seq(Jobs), s # <<>>, NEW j \in ToSet(s), j # Head(s)
  PROVE  j \in ToSet(Tail(s))
<1>1. PICK i \in 1 .. Len(s) : s[i] = j
  BY DEF ToSet
<1>2. i # 1
  BY <1>1
<1>3. /\ i - 1 \in 1 .. Len(Tail(s)) /\ Tail(s)[i - 1] = j
      /\ Tail(s) \in Seq(Jobs)
  BY <1>1, <1>2
<1>4. DOMAIN Tail(s) = 1 .. Len(Tail(s))
  BY <1>3
<1>5. QED BY <1>3, <1>4 DEF ToSet

(* Appending to a sequence loses no element and adds the new one.           *)
LEMMA AppendKeeps ==
  ASSUME NEW s \in Seq(Jobs), NEW j \in Jobs
  PROVE  ToSet(Append(s, j)) = ToSet(s) \cup {j}
<1>1. /\ Append(s, j) \in Seq(Jobs) /\ Len(Append(s, j)) = Len(s) + 1
      /\ \A i \in 1 .. Len(s) : Append(s, j)[i] = s[i]
      /\ Append(s, j)[Len(s) + 1] = j
  OBVIOUS
<1>2. /\ DOMAIN s = 1 .. Len(s) /\ Len(s) \in Nat
      /\ DOMAIN Append(s, j) = 1 .. Len(s) + 1
  BY <1>1
<1>3. ASSUME NEW k \in ToSet(Append(s, j)) PROVE k \in ToSet(s) \cup {j}
  <2>1. PICK i \in 1 .. Len(s) + 1 : Append(s, j)[i] = k
    BY <1>2 DEF ToSet
  <2>2. i \in 1 .. Len(s) \/ i = Len(s) + 1
    BY <1>2
  <2>3. QED BY <1>1, <1>2, <2>1, <2>2 DEF ToSet
<1>4. ASSUME NEW k \in ToSet(s) PROVE k \in ToSet(Append(s, j))
  <2>1. PICK i \in 1 .. Len(s) : s[i] = k
    BY <1>2 DEF ToSet
  <2>2. i \in 1 .. Len(s) + 1 /\ Append(s, j)[i] = k
    BY <1>1, <1>2, <2>1
  <2>3. QED BY <1>2, <2>2 DEF ToSet
<1>5. j \in ToSet(Append(s, j))
  BY <1>1, <1>2 DEF ToSet
<1>6. QED BY <1>3, <1>4, <1>5

(* Concatenation loses no element of either sequence.                       *)
LEMMA ConcatKeeps ==
  ASSUME NEW s \in Seq(Jobs), NEW t \in Seq(Jobs)
  PROVE  ToSet(s \o t) = ToSet(s) \cup ToSet(t)
<1>1. /\ s \o t \in Seq(Jobs) /\ Len(s \o t) = Len(s) + Len(t)
      /\ \A i \in 1 .. Len(s) : (s \o t)[i] = s[i]
      /\ \A i \in 1 .. Len(t) : (s \o t)[Len(s) + i] = t[i]
  OBVIOUS
<1>2. /\ Len(s) \in Nat /\ Len(t) \in Nat
      /\ DOMAIN s = 1 .. Len(s) /\ DOMAIN t = 1 .. Len(t)
      /\ DOMAIN (s \o t) = 1 .. Len(s) + Len(t)
  BY <1>1
<1>3. ASSUME NEW k \in ToSet(s \o t) PROVE k \in ToSet(s) \cup ToSet(t)
  <2>1. PICK i \in 1 .. Len(s) + Len(t) : (s \o t)[i] = k
    BY <1>2 DEF ToSet
  <2>2. CASE i \in 1 .. Len(s)
    BY <1>1, <1>2, <2>1, <2>2 DEF ToSet
  <2>3. CASE i \notin 1 .. Len(s)
    <3>1. i - Len(s) \in 1 .. Len(t) /\ i = Len(s) + (i - Len(s))
      BY <1>2, <2>3
    <3>2. t[i - Len(s)] = k
      BY <1>1, <2>1, <3>1
    <3>3. QED BY <1>2, <3>1, <3>2 DEF ToSet
  <2>4. QED BY <2>2, <2>3
<1>4. ASSUME NEW k \in ToSet(s) PROVE k \in ToSet(s \o t)
  <2>1. PICK i \in 1 .. Len(s) : s[i] = k
    BY <1>2 DEF ToSet
  <2>2. i \in 1 .. Len(s) + Len(t) /\ (s \o t)[i] = k
    BY <1>1, <1>2, <2>1
  <2>3. QED BY <1>2, <2>2 DEF ToSet
<1>5. ASSUME NEW k \in ToSet(t) PROVE k \in ToSet(s \o t)
  <2>1. PICK i \in 1 .. Len(t) : t[i] = k
    BY <1>2 DEF ToSet
  <2>2. Len(s) + i \in 1 .. Len(s) + Len(t) /\ (s \o t)[Len(s) + i] = k
    BY <1>1, <1>2, <2>1
  <2>3. QED BY <1>2, <2>2 DEF ToSet
<1>6. QED BY <1>3, <1>4, <1>5

(* A queued or held job stays held, unless the step prints it.              *)
LEMMA HeldStep ==
  ASSUME IInv, [Next]_vars, NEW j \in Jobs, Held(j)
  PROVE  Held(j)' \/ printed'[j] > 0
<1>1. ShapesOK /\ ShapesOK'
  BY ShapesStep DEF IInv
<1>2. /\ overspill \in Seq(Jobs) /\ hand \in Seq(Jobs)
      /\ commands \in [Children -> Seq(Jobs)]
      /\ work \in [Conns -> SUBSET Jobs] /\ conns \in SUBSET Conns
      /\ printed \in [Jobs -> Nat]
  BY <1>1 DEF ShapesOK
<1>3. hand # <<>> => pc \in {"token", "push"}
  BY <1>1 DEF ShapesOK
<1>4. ASSUME ClearOverspill PROVE Held(j)'
  <2>1. /\ hand' = <<Head(overspill)>> /\ overspill' = Tail(overspill)
        /\ overspill # <<>> /\ pc = "clear"
        /\ UNCHANGED <<commands, conns, work>>
    BY <1>4 DEF ClearOverspill, queueVars, netVars
  <2>2. hand # <<j>>
    <3>1. Len(hand) = 0 /\ Len(<<j>>) = 1
      BY <1>1, <2>1 DEF ShapesOK
    <3>2. QED BY <3>1
  <2>3. j \in ToSet(overspill) => Held(j)'
    BY <1>2, <2>1, TailLoses DEF Held
  <2>4. QED BY <2>1, <2>2, <2>3 DEF Held
<1>5. ASSUME OverspillCleared \/ EndOfInput \/ Finish PROVE Held(j)'
  BY <1>5
  DEF OverspillCleared, EndOfInput, Finish, Held, stdinVars, queueVars, netVars
<1>6. ASSUME ReadLine PROVE Held(j)'
  BY <1>3, <1>6 DEF ReadLine, Held, queueVars, netVars
<1>7. ASSUME NEW x \in Conns, PlaceRemote(x) PROVE Held(j)'
  <2>1. /\ hand = <<hand[1]>>
        /\ \A y \in conns : work[y] \subseteq work'[y]
        /\ hand[1] \in work'[x] /\ x \in conns
        /\ UNCHANGED <<commands, conns, overspill>>
    BY <1>1, <1>2, <1>7, HandIsJob DEF PlaceRemote, queueVars
  <2>2. hand = <<j>> => hand[1] = j
    OBVIOUS
  <2>3. QED BY <2>1, <2>2 DEF Held
<1>8. ASSUME NEW c \in Children, PlaceLocal(c) PROVE Held(j)'
  BY <1>8 DEF PlaceLocal, Held, netVars
<1>9. ASSUME Push PROVE Held(j)'
  <2>1. ~Full(childIndex) /\ childIndex \in Children
    BY <1>1, <1>9, BufferAssumption DEF Push, ShapesOK, Full, Promised
  <2>2. /\ commands' = [commands EXCEPT ![childIndex] = Append(@, hand[1])]
        /\ UNCHANGED <<conns, work, overspill>>
    BY <1>9, <2>1 DEF Push, netVars
  <2>3. hand[1] \in Jobs /\ (hand = <<j>> => hand[1] = j)
    BY <1>1, <1>9, HandIsJob DEF Push
  <2>4. /\ ToSet(commands'[childIndex]) = ToSet(commands[childIndex]) \cup {hand[1]}
        /\ \A c \in Children \ {childIndex} : commands'[c] = commands[c]
    BY <1>2, <2>1, <2>2, <2>3, AppendKeeps
  <2>5. \A c \in Children : ToSet(commands[c]) \subseteq ToSet(commands'[c])
    BY <2>4
  <2>6. QED BY <2>1, <2>2, <2>3, <2>4, <2>5 DEF Held
<1>10. ASSUME NEW c \in Children, LocalDone(c)
       PROVE  Held(j)' \/ printed'[j] > 0
  <2>1. /\ UNCHANGED <<hand, conns, work, overspill>>
        /\ commands[c] # <<>> /\ commands[c] \in Seq(Jobs)
        /\ commands'[c] = Tail(commands[c])
        /\ \A d \in Children \ {c} : commands'[d] = commands[d]
        /\ Head(commands[c]) \in Jobs
    BY <1>1, <1>2, <1>10, PopRing DEF LocalDone, stdinVars, netVars
  <2>2. CASE Head(commands[c]) = j
    BY <1>2, <1>10, <2>2 DEF LocalDone
  <2>3. CASE Head(commands[c]) # j
    <3>1. j \in ToSet(commands[c]) => j \in ToSet(commands'[c])
      BY <2>1, <2>3, TailLoses
    <3>2. QED BY <2>1, <3>1 DEF Held
  <2>4. QED BY <2>2, <2>3
<1>11. ASSUME NEW x \in Conns, Additional(x) PROVE Held(j)'
  BY <1>11 DEF Additional, Held, stdinVars, queueVars
<1>12. ASSUME NEW x \in Conns, NEW k \in Jobs, RemoteDone(x, k)
       PROVE  Held(j)' \/ printed'[j] > 0
  <2>1. UNCHANGED <<hand, commands, conns, overspill>>
    BY <1>12 DEF RemoteDone, stdinVars, queueVars
  <2>2. \/ /\ work' = [work EXCEPT ![x] = @ \ {k}]
           /\ printed' = [printed EXCEPT ![k] = @ + 1]
        \/ UNCHANGED work
    BY <1>12 DEF RemoteDone
  <2>3. CASE UNCHANGED work
    BY <2>1, <2>3 DEF Held
  <2>4. CASE /\ work' = [work EXCEPT ![x] = @ \ {k}]
             /\ printed' = [printed EXCEPT ![k] = @ + 1]
    <3>1. CASE j = k
      BY <1>2, <2>4, <3>1
    <3>2. CASE j # k
      <4>1. \A y \in conns : j \in work[y] => j \in work'[y]
        BY <1>2, <2>4, <3>2
      <4>2. QED BY <2>1, <4>1 DEF Held
    <3>3. QED BY <3>1, <3>2
  <2>5. QED BY <2>2, <2>3, <2>4
<1>13. ASSUME NEW x \in Conns, Lost(x) PROVE Held(j)'
  <2>1. /\ UNCHANGED <<hand, commands>>
        /\ conns' = conns \ {x}
        /\ \A y \in Conns \ {x} : work'[y] = work[y]
    BY <1>2, <1>13 DEF Lost, stdinVars, queueVars
  <2>2. PICK s \in Redistributed(x) : overspill' = overspill \o s
    BY <1>13 DEF Lost
  <2>3. s \in Seq(Jobs) /\ ToSet(s) = work[x]
    <3>1. s \in Seq(work[x]) /\ ToSet(s) = work[x]
      BY <2>2, RedistributedFacts DEF IInv, WorkBounded
    <3>2. work[x] \subseteq Jobs
      BY <1>2
    <3>3. QED BY <3>1, <3>2
  <2>4. ToSet(overspill') = ToSet(overspill) \cup work[x]
    BY <1>2, <2>2, <2>3, ConcatKeeps
  <2>5. QED BY <1>2, <2>1, <2>4 DEF Held
<1>14. ASSUME UNCHANGED vars PROVE Held(j)'
  BY <1>14 DEF vars, stdinVars, queueVars, netVars, Held
<1>15. QED
  BY <1>4, <1>5, <1>6, <1>7, <1>8, <1>9, <1>10, <1>11, <1>12, <1>13, <1>14
  DEF Next, Stdin, Terminated

(* A printed line stays printed; a line is counted as read when it is taken *)
(* into the hand of the stdin coroutine.                                    *)
LEMMA CountsStep ==
  ASSUME IInv, [Next]_vars, NEW j \in Jobs
  PROVE  /\ printed[j] > 0 => printed'[j] > 0
         /\ read'[j] # read[j] => Held(j)'
<1>1. /\ input \in Seq(Jobs)
      /\ read \in [Jobs -> Nat] /\ printed \in [Jobs -> Nat]
      /\ \A c \in Children : commands[c] \in Seq(Jobs)
  BY DEF IInv, ShapesOK
<1>2. ASSUME ReadLine PROVE UNCHANGED printed /\ (read'[j] # read[j] => Held(j)')
  <2>1. read' = [read EXCEPT ![Head(input)] = @ + 1] /\ hand' = <<Head(input)>>
    BY <1>2 DEF ReadLine
  <2>2. QED BY <1>1, <1>2, <2>1 DEF ReadLine, Held
<1>3. ASSUME ~ReadLine PROVE UNCHANGED read
  BY <1>3
  DEF Next, Stdin, Terminated, vars, ClearOverspill, OverspillCleared,
      EndOfInput, PlaceRemote, PlaceLocal, Push, Finish, LocalDone, Additional,
      RemoteDone, Lost
<1>4. ASSUME ~UNCHANGED printed
      PROVE  \E k \in Jobs : printed' = [printed EXCEPT ![k] = @ + 1]
  <2>1. \/ \E c \in Children : LocalDone(c)
        \/ \E x \in Conns, k \in Jobs : RemoteDone(x, k)
    BY <1>4
    DEF Next, Stdin, Terminated, vars, ClearOverspill, OverspillCleared,
        ReadLine, EndOfInput, PlaceRemote, PlaceLocal, Push, Finish,
        Additional, Lost
  <2>2. QED BY <1>1, <1>4, <2>1 DEF LocalDone, RemoteDone
<1>5. printed[j] > 0 => printed'[j] > 0
  BY <1>1, <1>4, SMTT(30)
<1>6. QED BY <1>2, <1>3, <1>5

(* A line read from stdin is printed or still held, however connections     *)
(* come and go and whatever is redistributed (exec.capacity.cpp:87-107,     *)
(* exec.supervisor.cpp:129-162).                                            *)
THEOREM Remembered == Spec => []NothingForgotten
<1>1. Init => NothingForgotten
  BY DEF Init, NoJob, NothingForgotten
<1>2. IInv /\ NothingForgotten /\ [Next]_vars => NothingForgotten'
  <2> SUFFICES ASSUME IInv, NothingForgotten, [Next]_vars,
                      NEW j \in Jobs, read'[j] > 0
               PROVE  printed'[j] > 0 \/ Held(j)'
    BY DEF NothingForgotten
  <2>1. CASE read'[j] # read[j]
    BY <2>1, CountsStep
  <2>2. CASE read'[j] = read[j]
    <3>1. printed[j] > 0 \/ Held(j)
      BY <2>2 DEF NothingForgotten
    <3>2. QED BY <3>1, CountsStep, HeldStep
  <2>3. QED BY <2>1, <2>2
<1>3. QED BY Invariance, <1>1, <1>2, PTL DEF Spec

-----------------------------------------------------------------------------
(* Nothing is printed twice: the copies of a line in the hand, the          *)
(* overspill, the rings and the work maps, and those already printed, are   *)
(* never more than were read.                                               *)
Senders(w, j) == {x \in Conns : j \in w[x]}
Queued(j) ==
  Copies(hand, j) + Copies(overspill, j) + TotalCopies(commands, Children, j)
    + Cardinality(Senders(work, j))

NoSurplus == \A j \in Jobs : Queued(j) + printed[j] <= read[j]

(* There are finitely many children and senders.                            *)
LEMMA FiniteQueues ==
  ASSUME NEW w, NEW j
  PROVE  IsFiniteSet(Children) /\ IsFiniteSet(Senders(w, j))
<1>1. IsFiniteSet(Children)
  BY FS_Interval, ChildrenAssumption DEF Children
<1>2. QED BY <1>1, FS_Subset, ConnsAssumption DEF Senders

(* All the parts of the account are natural numbers.                        *)
LEMMA AccountType ==
  ASSUME ShapesOK, NEW j \in Jobs
  PROVE  /\ Copies(hand, j) \in Nat /\ Copies(overspill, j) \in Nat
         /\ TotalCopies(commands, Children, j) \in Nat
         /\ Cardinality(Senders(work, j)) \in Nat
         /\ printed[j] \in Nat /\ read[j] \in Nat
<1>1. /\ hand \in Seq(Jobs) /\ overspill \in Seq(Jobs)
      /\ \A c \in Children : commands[c] \in Seq(Jobs)
      /\ printed[j] \in Nat /\ read[j] \in Nat
  BY DEF ShapesOK
<1>2. TotalCopies(commands, Children, j) \in Nat
  BY <1>1, FiniteQueues, TotalCopiesType
<1>3. Cardinality(Senders(work, j)) \in Nat
  BY FiniteQueues, FS_CardinalityType
<1>4. QED BY <1>1, <1>2, <1>3, CopiesType

(* A job is added to, or taken from, the work of one connection.            *)
LEMMA SendersChange ==
  ASSUME NEW w \in [Conns -> SUBSET Jobs], NEW x \in Conns, NEW j \in Jobs,
         NEW v \in [Conns -> SUBSET Jobs], \A y \in Conns \ {x} : v[y] = w[y]
  PROVE  Cardinality(Senders(v, j)) + (IF j \in w[x] THEN 1 ELSE 0)
           = Cardinality(Senders(w, j)) + IF j \in v[x] THEN 1 ELSE 0
<1>1. IsFiniteSet(Senders(w, j)) /\ Cardinality(Senders(w, j)) \in Nat
  BY FiniteQueues, FS_CardinalityType
<1>2. CASE j \in v[x] /\ j \notin w[x]
  <2>1. Senders(v, j) = Senders(w, j) \cup {x} /\ x \notin Senders(w, j)
    BY <1>2 DEF Senders
  <2>2. Cardinality(Senders(v, j)) = Cardinality(Senders(w, j)) + 1
    BY <1>1, <2>1, FS_AddElement
  <2>3. QED BY <1>1, <1>2, <2>2
<1>3. CASE j \notin v[x] /\ j \in w[x]
  <2>1. Senders(v, j) = Senders(w, j) \ {x} /\ x \in Senders(w, j)
    BY <1>3 DEF Senders
  <2>2. Cardinality(Senders(v, j)) = Cardinality(Senders(w, j)) - 1
    <3> DEFINE A == Senders(w, j)
    <3>1. IsFiniteSet(A) /\ x \in A /\ Senders(v, j) = A \ {x}
      BY <1>1, <2>1
    <3> HIDE DEF A
    <3>2. Cardinality(A \ {x}) = Cardinality(A) - 1
      BY <3>1, FS_RemoveElement
    <3>3. QED BY <3>1, <3>2 DEF A
  <2>3. QED BY <1>1, <1>3, <2>2
<1>4. CASE j \in v[x] <=> j \in w[x]
  <2>1. Senders(v, j) = Senders(w, j)
    BY <1>4 DEF Senders
  <2>2. QED BY <1>1, <1>4, <2>1
<1>5. QED BY <1>2, <1>3, <1>4

(* Every step keeps the account.                                            *)
LEMMA SurplusStep ==
  ASSUME IInv, NoSurplus, [Next]_vars
  PROVE  NoSurplus'
<1> SUFFICES ASSUME NEW j \in Jobs PROVE (Queued(j) + printed[j] <= read[j])'
  BY DEF NoSurplus
<1> DEFINE One(k) == IF k = j THEN 1 ELSE 0
           H == Copies(hand, j)
           O == Copies(overspill, j)
           R == TotalCopies(commands, Children, j)
           W == Cardinality(Senders(work, j))
<1>1. ShapesOK /\ ShapesOK'
  BY ShapesStep DEF IInv
<1>2. /\ H \in Nat /\ O \in Nat /\ R \in Nat /\ W \in Nat
      /\ printed[j] \in Nat /\ read[j] \in Nat
      /\ H + O + R + W + printed[j] <= read[j]
  BY <1>1, AccountType DEF NoSurplus, Queued
<1>3. /\ overspill \in Seq(Jobs) /\ hand \in Seq(Jobs) /\ input \in Seq(Jobs)
      /\ commands \in [Children -> Seq(Jobs)]
      /\ work \in [Conns -> SUBSET Jobs] /\ childIndex \in Children
      /\ printed \in [Jobs -> Nat] /\ read \in [Jobs -> Nat]
      /\ commands' \in [Children -> Seq(Jobs)]
      /\ work' \in [Conns -> SUBSET Jobs]
  BY <1>1 DEF ShapesOK
<1>4. ASSUME UNCHANGED <<commands, work, printed>>
      PROVE  Queued(j)' + printed[j]' = Copies(hand', j) + Copies(overspill', j) + R + W + printed[j]
  BY <1>4 DEF Queued
<1>5. ASSUME pc \notin {"token", "push"} PROVE hand = <<>> /\ H = 0
  <2>1. Len(hand) = 0
    BY <1>1, <1>5 DEF ShapesOK
  <2>2. hand = <<>>
    BY <1>3, <2>1
  <2>3. QED BY <2>2, CopiesEmpty
<1>6. ASSUME pc \in {"token", "push"} PROVE hand[1] \in Jobs /\ H = One(hand[1])
  BY <1>1, <1>6, HandIsJob, CopiesOne
<1>7. ASSUME ClearOverspill PROVE (Queued(j) + printed[j] <= read[j])'
  <2>1. /\ hand' = <<Head(overspill)>> /\ overspill' = Tail(overspill)
        /\ overspill # <<>> /\ pc = "clear"
        /\ UNCHANGED <<commands, work, printed, read>>
    BY <1>7 DEF ClearOverspill, queueVars, netVars
  <2>2. Copies(hand', j) = One(Head(overspill))
    BY <2>1, CopiesOne
  <2>3. Copies(overspill', j) = O - One(Head(overspill))
    BY <1>3, <2>1, CopiesTail
  <2>4. QED BY <1>2, <1>5, <2>1, <2>2, <2>3 DEF Queued
<1>8. ASSUME UNCHANGED <<hand, overspill, commands, work, printed, read>>
      PROVE  (Queued(j) + printed[j] <= read[j])'
  BY <1>2, <1>8 DEF Queued
<1>9. ASSUME ReadLine PROVE (Queued(j) + printed[j] <= read[j])'
  <2>1. /\ hand' = <<Head(input)>> /\ pc = "read" /\ Head(input) \in Jobs
        /\ read' = [read EXCEPT ![Head(input)] = @ + 1]
        /\ UNCHANGED <<overspill, commands, work, printed>>
    BY <1>3, <1>9 DEF ReadLine, queueVars, netVars
  <2>2. Copies(hand', j) = One(Head(input)) /\ H = 0
    BY <1>5, <2>1, CopiesOne
  <2>3. read'[j] = read[j] + One(Head(input))
    BY <1>3, <2>1
  <2>4. QED BY <1>2, <2>1, <2>2, <2>3 DEF Queued
<1>10. ASSUME NEW x \in Conns, PlaceRemote(x)
       PROVE  (Queued(j) + printed[j] <= read[j])'
  <2>1. /\ hand' = <<>> /\ pc = "token"
        /\ work' = [work EXCEPT ![x] = @ \cup {hand[1]}]
        /\ UNCHANGED <<overspill, commands, printed, read>>
    BY <1>10 DEF PlaceRemote, queueVars
  <2>2. Copies(hand', j) = 0 /\ H = One(hand[1])
    BY <1>6, <2>1, CopiesEmpty
  <2>3. /\ \A y \in Conns \ {x} : work'[y] = work[y]
        /\ j \in work'[x] <=> j \in work[x] \/ j = hand[1]
    BY <1>3, <2>1
  <2>4. Cardinality(Senders(work', j)) + (IF j \in work[x] THEN 1 ELSE 0)
           = W + IF j \in work'[x] THEN 1 ELSE 0
    BY <1>3, <2>3, SendersChange
  <2>5. Cardinality(Senders(work', j)) \in Nat
    BY FiniteQueues, FS_CardinalityType
  <2>6. Cardinality(Senders(work', j)) <= W + One(hand[1])
    BY <1>2, <2>3, <2>4, <2>5
  <2>7. QED BY <1>2, <2>1, <2>2, <2>5, <2>6, SMTT(30) DEF Queued
<1>11. ASSUME Push PROVE (Queued(j) + printed[j] <= read[j])'
  <2>1. ~Full(childIndex) /\ pc = "push"
    BY <1>1, <1>11, BufferAssumption DEF Push, ShapesOK, Full, Promised
  <2>2. /\ commands' = [commands EXCEPT ![childIndex] = Append(@, hand[1])]
        /\ hand' = <<>>
        /\ UNCHANGED <<work, overspill, printed, read>>
    BY <1>11, <2>1 DEF Push, netVars
  <2>3. Copies(hand', j) = 0 /\ H = One(hand[1]) /\ hand[1] \in Jobs
    BY <1>6, <2>1, <2>2, CopiesEmpty
  <2>4. /\ commands'[childIndex] = Append(commands[childIndex], hand[1])
        /\ \A c \in Children \ {childIndex} : commands'[c] = commands[c]
        /\ commands[childIndex] \in Seq(Jobs)
    BY <1>3, <2>2
  <2>5. Copies(commands'[childIndex], j) = Copies(commands[childIndex], j) + One(hand[1])
    BY <2>3, <2>4, CopiesAppend
  <2>6. TotalCopies(commands', Children, j)
          = R - Copies(commands[childIndex], j) + Copies(commands'[childIndex], j)
    <3>1. IsFiniteSet(Children) /\ childIndex \in Children
      BY <1>3, FiniteQueues
    <3>2. \A c \in Children : commands[c] \in Seq(Jobs)
      BY <1>3
    <3>3. \A c \in Children : commands'[c] \in Seq(Jobs)
      BY <1>3
    <3>4. \A c \in Children \ {childIndex} : commands'[c] = commands[c]
      BY <2>4
    <3>5. QED BY <3>1, <3>2, <3>3, <3>4, TotalCopiesUpdate
  <2>7. Copies(commands[childIndex], j) \in Nat
    BY <2>4, CopiesType
  <2>8. QED BY <1>2, <2>2, <2>3, <2>5, <2>6, <2>7 DEF Queued
<1>12. ASSUME NEW c \in Children, LocalDone(c)
       PROVE  (Queued(j) + printed[j] <= read[j])'
  <2>1. /\ commands[c] # <<>> /\ commands[c] \in Seq(Jobs)
        /\ commands'[c] = Tail(commands[c])
        /\ \A d \in Children \ {c} : commands'[d] = commands[d]
        /\ Head(commands[c]) \in Jobs
    BY <1>1, <1>3, <1>12, PopRing DEF LocalDone
  <2>2. /\ printed' = [printed EXCEPT ![Head(commands[c])] = @ + 1]
        /\ UNCHANGED <<hand, work, overspill, read>>
    BY <1>12 DEF LocalDone, stdinVars, netVars
  <2>3. Copies(commands'[c], j) = Copies(commands[c], j) - One(Head(commands[c]))
    BY <2>1, CopiesTail
  <2>4. TotalCopies(commands', Children, j)
          = R - Copies(commands[c], j) + Copies(commands'[c], j)
    <3>1. IsFiniteSet(Children)
      BY FiniteQueues
    <3>2. \A d \in Children : commands[d] \in Seq(Jobs)
      BY <1>3
    <3>3. \A d \in Children : commands'[d] \in Seq(Jobs)
      BY <1>3
    <3>4. QED BY <2>1, <3>1, <3>2, <3>3, TotalCopiesUpdate
  <2>5. Copies(commands[c], j) \in Nat
    BY <2>1, CopiesType
  <2>6. printed'[j] = printed[j] + One(Head(commands[c]))
    BY <1>3, <2>1, <2>2, SMTT(30)
  <2>7. QED BY <1>2, <2>2, <2>3, <2>4, <2>5, <2>6 DEF Queued
<1>13. ASSUME NEW x \in Conns, NEW k \in Jobs, RemoteDone(x, k)
       PROVE  (Queued(j) + printed[j] <= read[j])'
  <2>1. UNCHANGED <<hand, commands, overspill, read>>
    BY <1>13 DEF RemoteDone, stdinVars, queueVars
  <2>2. CASE k \notin work[x]
    BY <1>8, <1>13, <2>1, <2>2 DEF RemoteDone
  <2>3. CASE k \in work[x]
    <3>1. /\ work' = [work EXCEPT ![x] = @ \ {k}]
          /\ printed' = [printed EXCEPT ![k] = @ + 1]
      BY <1>13, <2>3 DEF RemoteDone
    <3>2. /\ \A y \in Conns \ {x} : work'[y] = work[y]
          /\ j \in work'[x] <=> j \in work[x] /\ j # k
          /\ printed'[j] = printed[j] + One(k)
      BY <1>3, <3>1
    <3>3. Cardinality(Senders(work', j)) + (IF j \in work[x] THEN 1 ELSE 0)
             = W + IF j \in work'[x] THEN 1 ELSE 0
      BY <1>3, <3>2, SendersChange
    <3>4. Cardinality(Senders(work', j)) \in Nat
      BY FiniteQueues, FS_CardinalityType
    <3>5. Cardinality(Senders(work', j)) = W - One(k)
      BY <1>2, <2>3, <3>2, <3>3, <3>4
    <3>6. QED BY <1>2, <2>1, <3>2, <3>5 DEF Queued
  <2>4. QED BY <2>2, <2>3
<1>14. ASSUME NEW x \in Conns, Lost(x)
       PROVE  (Queued(j) + printed[j] <= read[j])'
  <2>1. /\ UNCHANGED <<hand, commands, printed, read>>
        /\ \A y \in Conns \ {x} : work'[y] = work[y]
        /\ work'[x] = {}
    BY <1>3, <1>14 DEF Lost, stdinVars, queueVars
  <2>2. PICK s \in Redistributed(x) : overspill' = overspill \o s
    BY <1>14 DEF Lost
  <2>3. /\ s \in Seq(Jobs) /\ ToSet(s) = work[x]
        /\ \A i, k \in 1 .. Len(s) : s[i] = s[k] => i = k
    <3>1. /\ s \in Seq(work[x]) /\ ToSet(s) = work[x]
          /\ \A i, k \in 1 .. Len(s) : s[i] = s[k] => i = k
      BY <2>2, RedistributedFacts DEF IInv, WorkBounded
    <3>2. work[x] \subseteq Jobs
      BY <1>3
    <3>3. QED BY <3>1, <3>2
  <2>4. Copies(s, j) = IF j \in work[x] THEN 1 ELSE 0
    <3>1. j \in work[x] <=> \E i \in 1 .. Len(s) : s[i] = j
      BY <2>3 DEF ToSet
    <3>2. QED BY <2>3, <3>1, CopiesOnce
  <2>5. Copies(overspill', j) = O + Copies(s, j)
    BY <1>3, <2>2, <2>3, CopiesConcat
  <2>6. Cardinality(Senders(work', j)) + (IF j \in work[x] THEN 1 ELSE 0)
           = W + IF j \in work'[x] THEN 1 ELSE 0
    <3>1. \A y \in Conns \ {x} : work'[y] = work[y]
      BY <2>1
    <3>2. /\ work \in [Conns -> SUBSET Jobs]
          /\ work' \in [Conns -> SUBSET Jobs]
      BY <1>3
    <3>3. QED BY <3>1, <3>2, SendersChange
  <2>7. Cardinality(Senders(work', j)) \in Nat
    BY FiniteQueues, FS_CardinalityType
  <2>8. QED BY <1>2, <2>1, <2>4, <2>5, <2>6, <2>7 DEF Queued
<1>15. ASSUME \/ OverspillCleared \/ EndOfInput \/ Finish
              \/ \E c \in Children : PlaceLocal(c)
              \/ \E x \in Conns : Additional(x)
              \/ UNCHANGED vars
       PROVE  (Queued(j) + printed[j] <= read[j])'
  BY <1>8, <1>15
  DEF OverspillCleared, EndOfInput, Finish, PlaceLocal, Additional, stdinVars,
      queueVars, netVars, vars
<1>16. QED
  BY <1>7, <1>9, <1>10, <1>11, <1>12, <1>13, <1>14, <1>15
  DEF Next, Stdin, Terminated

(* At the start nothing has been read, and there is nothing anywhere.       *)
LEMMA SurplusInit ==
  ASSUME Init
  PROVE  NoSurplus
<1> SUFFICES ASSUME NEW j \in Jobs PROVE Queued(j) + printed[j] <= read[j]
  BY DEF NoSurplus
<1>1. Copies(hand, j) = 0 /\ Copies(overspill, j) = 0
  BY CopiesEmpty DEF Init
<1>2. TotalCopies(commands, Children, j) = 0
  <2>1. AtAny(commands, Children, j) = {}
    BY DEF Init, AtAny, At
  <2>2. QED BY <2>1, FS_EmptySet DEF TotalCopies
<1>3. Cardinality(Senders(work, j)) = 0
  <2>1. Senders(work, j) = {}
    BY DEF Init, Senders
  <2>2. QED BY <2>1, FS_EmptySet
<1>4. read[j] = 0 /\ printed[j] = 0
  BY DEF Init, NoJob
<1>5. QED BY <1>1, <1>2, <1>3, <1>4 DEF Queued

(* However often a line is sent again after the loss of a connection, it is *)
(* printed once per line read (exec.capacity.cpp:42-82, 95-107).            *)
THEOREM PrintedOnce == Spec => []PrintedNoMoreThanRead
<1>1. IInv /\ NoSurplus => PrintedNoMoreThanRead
  <2> SUFFICES ASSUME IInv, NoSurplus, NEW j \in Jobs PROVE printed[j] <= read[j]
    BY DEF PrintedNoMoreThanRead
  <2>1. Queued(j) + printed[j] <= read[j]
    BY DEF NoSurplus
  <2>2. QED BY <2>1, AccountType DEF IInv, Queued
<1>2. QED
  BY Invariance, SurplusInit, SurplusStep, <1>1, PTL DEF Spec

-----------------------------------------------------------------------------
(* The last phase: input_complete is set on the way into                    *)
(* wait_until_all_done, and what comes to the overspill later is late.      *)
Draining ==
  /\ pc \in {"wait", "done"} <=> inputComplete
  /\ inputComplete /\ late = {} => overspill = <<>>

(* Every step respects the phases.                                          *)
LEMMA DrainingStep ==
  ASSUME IInv, Draining, [Next]_vars
  PROVE  Draining'
<1> USE DEF Draining
<1>1. CASE OverspillCleared
  BY <1>1 DEF OverspillCleared, IInv, ShapesOK, netVars
<1>2. ASSUME NEW x \in Conns, Lost(x) PROVE Draining'
  <2>1. UNCHANGED <<pc, inputComplete>>
    BY <1>2 DEF Lost, stdinVars
  <2>2. PICK s \in Redistributed(x) : overspill' = overspill \o s
    BY <1>2 DEF Lost
  <2>3. ASSUME inputComplete, late' = {} PROVE overspill' = <<>>
    <3>1. late = {} /\ work[x] = {}
      BY <1>2, <2>3 DEF Lost
    <3>2. s \in Seq(work[x]) /\ ToSet(s) = work[x]
      BY <2>2, RedistributedFacts DEF IInv, WorkBounded
    <3>3. s = <<>>
      BY <3>1, <3>2 DEF ToSet
    <3>4. overspill = <<>>
      BY <2>3, <3>1
    <3>5. QED BY <2>2, <3>3, <3>4
  <2>4. QED BY <2>1, <2>3
<1>3. CASE ClearOverspill
  BY <1>3 DEF ClearOverspill, netVars
<1>4. CASE ReadLine \/ EndOfInput \/ Finish
  BY <1>4 DEF ReadLine, EndOfInput, AfterInput, Finish, netVars
<1>5. CASE (\E x \in Conns : PlaceRemote(x)) \/ (\E c \in Children : PlaceLocal(c))
  BY <1>5 DEF PlaceRemote, PlaceLocal, netVars
<1>6. CASE Push
  BY <1>6 DEF Push, netVars
<1>7. CASE UNCHANGED <<pc, inputComplete, late, overspill>>
  BY <1>7
<1>8. QED
  BY <1>1, <1>2, <1>3, <1>4, <1>5, <1>6, <1>7
  DEF Next, Stdin, LocalDone, Additional, RemoteDone, Terminated, vars,
      stdinVars, netVars

(* When nothing is outstanding no ring and no work map holds a job.         *)
LEMMA NothingQueued ==
  ASSUME IInv, outstanding = 0
  PROVE  /\ \A c \in Children : commands[c] = <<>>
         /\ \A x \in conns : work[x] = {}
<1>1. Occupied = {}
  BY FS_EmptySet DEF IInv, CountIsUse
<1>2. ASSUME NEW c \in Children, commands[c] # <<>> PROVE FALSE
  <2>1. /\ commands[c] \in Seq(Jobs) /\ Promised(c) \in Nat
        /\ Len(commands[c]) + Promised(c) <= BufferSize
    BY DEF IInv, ShapesOK, Promised
  <2>2. Len(commands[c]) \in Nat \ {0}
    BY <1>2, <2>1
  <2>3. <<c, 1>> \in InRing
    BY <2>1, <2>2, BufferAssumption DEF InRing, LocalSlots
  <2>4. QED BY <1>1, <2>3 DEF Occupied
<1>3. ASSUME NEW x \in conns, work[x] # {} PROVE FALSE
  <2>1. PICK j \in work[x] : j \in Jobs
    BY <1>3 DEF IInv, ShapesOK
  <2>2. <<x, j>> \in InWork
    BY <2>1 DEF InWork
  <2>3. QED BY <1>1, <2>2 DEF Occupied
<1>4. QED BY <1>2, <1>3

(* So a helper that is not excused has printed every line when it finishes. *)
LEMMA FinishedPrinted ==
  ASSUME IInv, NothingForgotten, NoSurplus, Draining, Finish, ~Excused
  PROVE  printed = read
<1>1. /\ pc = "wait" /\ outstanding = 0 /\ late = {}
      /\ hand \in Seq(Jobs) /\ Len(hand) = 0
      /\ printed \in [Jobs -> Nat] /\ read \in [Jobs -> Nat]
      /\ \A j \in Jobs : read[j] <= 1
  BY DEF Finish, NoneOutstanding, Excused, IInv, ShapesOK
<1>2. overspill = <<>> /\ hand = <<>>
  BY <1>1 DEF Draining
<1>3. ASSUME NEW j \in Jobs PROVE printed[j] = read[j]
  <2>1. printed[j] \in Nat /\ read[j] \in Nat /\ read[j] <= 1
    BY <1>1
  <2>2. printed[j] <= read[j]
    <3>1. Queued(j) + printed[j] <= read[j]
      BY DEF NoSurplus
    <3>2. QED BY <3>1, AccountType DEF IInv, Queued
  <2>3. ~Held(j)
    BY <1>1, <1>2, NothingQueued DEF Held, ToSet
  <2>4. read[j] > 0 => printed[j] > 0
    BY <2>3 DEF NothingForgotten
  <2>5. QED BY <2>1, <2>2, <2>4
<1>4. QED BY <1>1, <1>3

(* A step that prints a line is Report: a line that is printed had been     *)
(* read, and not yet been printed so often.                                 *)
LEMMA PrintingReports ==
  ASSUME IInv, NoSurplus, [Next]_vars, pc # "done", pc' = pc, UNCHANGED read,
         NEW j \in Jobs, printed' = [printed EXCEPT ![j] = @ + 1]
  PROVE  Promise!Report(j)
<1>1. printed[j] \in Nat /\ read[j] \in Nat /\ printed'[j] = printed[j] + 1
  BY DEF IInv, ShapesOK
<1>2. (Queued(j) + printed[j] <= read[j])'
  BY SurplusStep DEF NoSurplus
<1>3. Queued(j)' \in Nat
  <2>1. /\ hand' \in Seq(Jobs) /\ overspill' \in Seq(Jobs)
        /\ \A c \in Children : commands'[c] \in Seq(Jobs)
    BY ShapesStep DEF ShapesOK
  <2>2. TotalCopies(commands', Children, j) \in Nat
    BY <2>1, FiniteQueues, TotalCopiesType
  <2>3. Cardinality(Senders(work', j)) \in Nat
    BY FiniteQueues, FS_CardinalityType
  <2>4. Copies(hand', j) \in Nat /\ Copies(overspill', j) \in Nat
    BY <2>1, CopiesType
  <2>5. QED BY <2>2, <2>3, <2>4 DEF Queued
<1>4. printed[j] < read[j]
  BY <1>1, <1>2, <1>3
<1>5. QED BY <1>4 DEF Promise!Report

(* Every step of the manager is a step of the service, or invisible to it.  *)
LEMMA ServiceStep ==
  ASSUME IInv, NothingForgotten, NoSurplus, Draining, [Next]_vars
  PROVE  [Promise!Next]_(Promise!jobVars)
<1> USE DEF Promise!jobVars
<1>1. CASE ReadLine
  <2>1. Head(input) \in Jobs
    BY <1>1 DEF ReadLine, IInv, ShapesOK
  <2>2. Promise!Accept(Head(input))
    BY <1>1 DEF ReadLine, Promise!Accept
  <2>3. QED BY <2>1, <2>2 DEF Promise!Next
<1>2. ASSUME NEW c \in Children, LocalDone(c)
      PROVE  [Promise!Next]_(Promise!jobVars)
  <2>1. Head(commands[c]) \in Jobs
    BY <1>2, PopRing DEF IInv
  <2>2. Promise!Report(Head(commands[c]))
    BY <1>2, <2>1, PrintingReports DEF LocalDone, Running, stdinVars
  <2>3. QED BY <2>1, <2>2 DEF Promise!Next
<1>3. ASSUME NEW x \in Conns, NEW j \in Jobs, RemoteDone(x, j)
      PROVE  [Promise!Next]_(Promise!jobVars)
  <2>1. CASE UNCHANGED printed
    BY <1>3, <2>1 DEF RemoteDone, Running, stdinVars
  <2>2. CASE printed' = [printed EXCEPT ![j] = @ + 1]
    <3>1. Promise!Report(j)
      BY <1>3, <2>2, PrintingReports DEF RemoteDone, Running, stdinVars
    <3>2. QED BY <3>1 DEF Promise!Next
  <2>3. QED BY <1>3, <2>1, <2>2 DEF RemoteDone
<1>4. CASE Finish
  <2>1. Excused' <=> Excused
    BY <1>4 DEF Finish, Excused, netVars
  <2>2. CASE Excused
    BY <1>4, <2>1, <2>2 DEF Finish
  <2>3. CASE ~Excused
    <3>1. printed = read
      BY <1>4, <2>3, FinishedPrinted
    <3>2. Promise!Finish
      BY <1>4, <2>1, <2>3, <3>1 DEF Finish, Promise!Finish
    <3>3. QED BY <3>2 DEF Promise!Next
  <2>4. QED BY <2>2, <2>3
<1>5. CASE UNCHANGED vars
  BY <1>5 DEF vars, stdinVars, netVars, Excused
<1>6. ASSUME UNCHANGED <<read, printed>>, pc # "done", pc' # "done"
      PROVE  [Promise!Next]_(Promise!jobVars)
  BY <1>6
<1>7. CASE ClearOverspill \/ OverspillCleared \/ EndOfInput \/ Push
  BY <1>6, <1>7
  DEF ClearOverspill, OverspillCleared, EndOfInput, AfterInput, Push
<1>8. CASE \/ \E x \in Conns : PlaceRemote(x) \/ Additional(x) \/ Lost(x)
           \/ \E c \in Children : PlaceLocal(c)
  BY <1>6, <1>8
  DEF PlaceRemote, PlaceLocal, Additional, Lost, Running, stdinVars
<1>9. QED
  BY <1>1, <1>2, <1>3, <1>4, <1>5, <1>7, <1>8 DEF Next, Stdin, Terminated

(* The manager keeps the promise of wright-exec-helper to the pipeline it   *)
(* sits in: a line is printed only for a line read, and a helper that lost  *)
(* no connection after the end of its input and was given no line twice     *)
(* finishes with everything printed.                                        *)
THEOREM Refinement == Spec => Implements
<1>1. Init => Promise!Init
  BY DEF Init, NoJob, Promise!Init
<1>2. Init => Draining
  BY DEF Init, Draining
<1>3. QED
  BY <1>1, <1>2, Invariance, Remembered, SurplusInit, SurplusStep,
     DrainingStep, ServiceStep, PTL DEF Spec, Implements, Promise!Spec
=============================================================================
