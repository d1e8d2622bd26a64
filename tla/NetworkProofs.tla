---------------------------- MODULE NetworkProofs ----------------------------
(***************************************************************************)
(* Theorems about Network for any number of children, any ring size, any    *)
(* overspill and any sequences of different jobs.                           *)
(***************************************************************************)
EXTENDS Network, SequenceLemmas

(* The packets that each end sends.                                         *)
Execute(j) == Packet("execute", j)
Completed(j) == Packet("completed", j)
SentBy(e) ==
  {Packet("version", AnnouncedBy(e))}
    \cup (IF e = "server" THEN {Execute(j) : j \in Jobs}
                          ELSE {Completed(j) : j \in Jobs} \cup {Packet("log", 0)})

(* All that e has sent and the other end has not received, oldest first.    *)
Stream(e) == wire[e] \o queue[e]
Announces(s) == \E n \in DOMAIN s : s[n].type = "version"
Ordered(s) ==
  \A n \in DOMAIN s :
    s[n].type \in {"execute", "completed"} =>
      \E m \in DOMAIN s : m < n /\ s[m].type = "version"

StreamsInv == \A e \in Ends : queue[e] \in Seq(SentBy(e)) /\ wire[e] \in Seq(SentBy(e))

(* An end has negotiated a version, or what is on its way to it brings one  *)
(* before it brings a job.                                                  *)
Introduced(known, phase, packets) ==
  known = 1 \/ (Ordered(packets) /\ (phase = "open" => Announces(packets)))
VersionsInv == up => \A e \in Ends : Introduced(version[Other(e)], stage[e], Stream(e))

(* What the phases of a connection, and of the client, imply.               *)
PhaseInv ==
  /\ cap = <<>> => work = {}
  /\ IsFiniteSet(work) /\ Cardinality(work) <= Announced
  /\ up => \A e \in Ends : stage[e] # "ended"
  /\ stage["client"] \in {"new", "live"} =>
       overspill = <<>> /\ hand = <<>> /\ \A c \in Children : commands[c] = <<>>
  /\ closed # 0 => ~up
  /\ main = "close" <=> closed # 0 /\ Serving

(* The jobs of an input without repetitions are placed once, and none that  *)
(* was placed is forgotten.                                                 *)
Distinct == \A jobs \in Inputs : IsInjective(jobs)
PlacedOnce ==
  /\ IsInjective(input)
  /\ ToSet(input) \cap placed = {}
  /\ Partition

(* An end of the server that is no loss comes with nothing outstanding.     *)
SettledInv ==
  /\ stage["server"] = "ended" => work = {}
  /\ returned # {} => cut
  /\ ~up /\ ~cut => stage["server"] = "ended"

(* The copies that are at the client, or will still get there when the      *)
(* connection has gone.                                                     *)
AtClient(j) ==
  Copies(wire["server"], Execute(j)) + Copies(overspill, j) + Copies(hand, j)
    + TotalCopies(commands, Children, j)

(* They are those of a work map the server had.                             *)
Covers(W) ==
  /\ IsFiniteSet(W) /\ Cardinality(W) <= Announced
  /\ \A j \in Jobs : AtClient(j) <= IF j \in W THEN 1 ELSE 0
BacklogInv == ~up => \E W \in SUBSET Jobs : Covers(W)

(* A server that has ended by itself had been answered everything.          *)
CleanInv ==
  /\ ~up /\ ~cut => \A j \in Jobs : AtClient(j) = 0
  /\ CleanClientEnd

NetInv ==
  /\ TypeOK /\ StreamsInv /\ VersionsInv /\ PhaseInv /\ PlacedOnce /\ SettledInv
  /\ WorkInFlight /\ BacklogInv /\ CleanInv

-----------------------------------------------------------------------------
(* What an end sends: packets, its own version among them, and no log       *)
(* message unless it is the client.                                         *)
LEMMA SentTypes ==
  ASSUME NEW e \in Ends
  PROVE  /\ SentBy(e) \subseteq Packets
         /\ Packet("version", AnnouncedBy(e)) \in SentBy(e)
         /\ \A p \in SentBy(e) : p.type = "version" => p.content = AnnouncedBy(e)
         /\ \A p \in SentBy(e) :
              /\ e = "server" /\ p.type # "version" => \E j \in Jobs : p = Execute(j)
              /\ e = "client" /\ p.type \notin {"version", "log"} =>
                   \E j \in Jobs : p = Completed(j)
         /\ \A j \in Jobs : Execute(j) \in SentBy("server") /\ Completed(j) \in SentBy("client")
         /\ Packet("log", 0) \in SentBy("client")
<1>1. /\ SentBy("server") = {Packet("version", 0)} \cup {Execute(j) : j \in Jobs}
      /\ SentBy("client") = {Packet("version", Announced)} \cup {Completed(j) : j \in Jobs}
                                \cup {Packet("log", 0)}
      /\ AnnouncedBy("server") = 0 /\ AnnouncedBy("client") = Announced
  BY DEF SentBy, AnnouncedBy
<1>2. SentBy("server") \subseteq Packets /\ SentBy("client") \subseteq Packets
  BY <1>1 DEF Packets, Packet, Execute, Completed
<1>3. /\ \A p \in SentBy("server") : p.type # "version" => \E j \in Jobs : p = Execute(j)
      /\ \A p \in SentBy("client") :
           p.type \notin {"version", "log"} => \E j \in Jobs : p = Completed(j)
  BY <1>1 DEF Packet
<1>4. /\ \A p \in SentBy("server") : p.type = "version" => p.content = 0
      /\ \A p \in SentBy("client") : p.type = "version" => p.content = Announced
  BY <1>1 DEF Packet, Execute, Completed
<1>5. CASE e = "server"
  BY <1>1, <1>2, <1>3, <1>4, <1>5
<1>6. CASE e = "client"
  BY <1>1, <1>2, <1>3, <1>4, <1>6
<1>7. QED BY <1>5, <1>6 DEF Ends

(* A packet is what it is sent as.                                          *)
LEMMA PacketParts ==
  ASSUME NEW j, NEW k
  PROVE  /\ Execute(j).type = "execute" /\ Execute(j).content = j
         /\ Completed(j).type = "completed" /\ Completed(j).content = j
         /\ Execute(j) = Execute(k) => j = k
         /\ Completed(j) = Completed(k) => j = k
         /\ Packet("version", k).type = "version" /\ Packet("version", k).content = k
         /\ Packet("log", k).type = "log"
         /\ Packet("version", k) # Execute(j) /\ Packet("version", k) # Completed(j)
         /\ Packet("log", k) # Execute(j) /\ Packet("log", k) # Completed(j)
<1>1. Execute(j) = Execute(k) => Execute(j).content = Execute(k).content
  OBVIOUS
<1>2. Completed(j) = Completed(k) => Completed(j).content = Completed(k).content
  OBVIOUS
<1>3. /\ Packet("version", k) = Execute(j) => Packet("version", k).type = Execute(j).type
      /\ Packet("version", k) = Completed(j) => Packet("version", k).type = Completed(j).type
      /\ Packet("log", k) = Execute(j) => Packet("log", k).type = Execute(j).type
      /\ Packet("log", k) = Completed(j) => Packet("log", k).type = Completed(j).type
  OBVIOUS
<1>4. QED BY <1>1, <1>2, <1>3 DEF Execute, Completed, Packet

(* The numbers that are announced.                                          *)
LEMMA Announcements == Slots \in Nat /\ Announced \in Nat
<1>1. NumChildren \in Nat /\ BufferSize \in Nat /\ OverspillCap \in Nat
  BY NetChildrenAssumption, NetBufferAssumption, NetOverspillAssumption
<1>2. \A m, n \in Nat : m * n \in Nat
  OBVIOUS
<1>3. Slots \in Nat /\ OverspillCap * NumChildren \in Nat
  BY <1>1, <1>2 DEF Slots
<1>4. QED BY <1>3 DEF Announced

-----------------------------------------------------------------------------
(* Streams of packets.  Something is appended: ...                          *)
LEMMA OrderedAppend ==
  ASSUME NEW S, NEW s \in Seq(S), NEW p \in S
  PROVE  /\ Announces(Append(s, p)) <=> Announces(s) \/ p.type = "version"
         /\ Ordered(s) /\ (p.type \notin {"execute", "completed"} \/ Announces(s))
              => Ordered(Append(s, p))
<1> DEFINE t == Append(s, p)
           n == Len(s)
<1>1. /\ n \in Nat /\ DOMAIN s = 1 .. n /\ DOMAIN t = 1 .. n + 1
      /\ \A i \in 1 .. n : t[i] = s[i]
      /\ t[n + 1] = p
  OBVIOUS
<1> HIDE DEF t, n
<1>2. Announces(t) <=> Announces(s) \/ p.type = "version"
  BY <1>1 DEF Announces
<1>3. ASSUME Ordered(s), p.type \notin {"execute", "completed"} \/ Announces(s)
      PROVE  Ordered(t)
  <2> SUFFICES ASSUME NEW i \in 1 .. n + 1, t[i].type \in {"execute", "completed"}
               PROVE  \E m \in 1 .. n + 1 : m < i /\ t[m].type = "version"
    BY <1>1 DEF Ordered
  <2>1. CASE i = n + 1
    <3>1. PICK m \in 1 .. n : s[m].type = "version"
      BY <1>1, <1>3, <2>1 DEF Announces
    <3>2. QED BY <1>1, <2>1, <3>1
  <2>2. CASE i # n + 1
    <3>1. i \in 1 .. n
      BY <1>1, <2>2
    <3>2. PICK m \in 1 .. n : m < i /\ s[m].type = "version"
      BY <1>1, <1>3, <3>1 DEF Ordered
    <3>3. QED BY <1>1, <3>2
  <2>3. QED BY <2>1, <2>2
<1>4. QED BY <1>2, <1>3 DEF t

(* ... or the first packet is received, and it is not the version.          *)
LEMMA OrderedTail ==
  ASSUME NEW S, NEW s \in Seq(S), s # <<>>, Ordered(s), Head(s).type # "version"
  PROVE  /\ Ordered(Tail(s))
         /\ Announces(s) => Announces(Tail(s))
         /\ Head(s).type \notin {"execute", "completed"}
<1> DEFINE t == Tail(s)
           n == Len(s)
<1>1. /\ n \in Nat \ {0} /\ DOMAIN s = 1 .. n /\ DOMAIN t = 1 .. n - 1
      /\ \A i \in 1 .. n - 1 : t[i] = s[i + 1]
      /\ Head(s) = s[1]
  OBVIOUS
<1> HIDE DEF t, n
<1>2. \A m \in 1 .. n : s[m].type = "version" =>
        m - 1 \in 1 .. n - 1 /\ t[m - 1].type = "version"
  <2> TAKE m \in 1 .. n
  <2> HAVE s[m].type = "version"
  <2>1. m # 1
    BY <1>1
  <2>2. m - 1 \in 1 .. n - 1 /\ (m - 1) + 1 = m
    BY <1>1, <2>1
  <2>3. QED BY <1>1, <2>2
<1>3. Announces(s) => Announces(t)
  BY <1>1, <1>2 DEF Announces
<1>4. Ordered(t)
  <2> SUFFICES ASSUME NEW i \in 1 .. n - 1, t[i].type \in {"execute", "completed"}
               PROVE  \E m \in 1 .. n - 1 : m < i /\ t[m].type = "version"
    BY <1>1 DEF Ordered
  <2>1. i + 1 \in 1 .. n /\ s[i + 1].type \in {"execute", "completed"}
    BY <1>1
  <2>2. PICK m \in 1 .. n : m < i + 1 /\ s[m].type = "version"
    BY <1>1, <2>1 DEF Ordered
  <2>3. m - 1 \in 1 .. n - 1 /\ t[m - 1].type = "version" /\ m - 1 < i
    BY <1>1, <1>2, <2>2
  <2>4. QED BY <2>3
<1>5. Head(s).type \notin {"execute", "completed"}
  <2>1. 1 \in DOMAIN s /\ \A m \in DOMAIN s : ~(m < 1)
    BY <1>1
  <2>2. QED BY <1>1, <2>1 DEF Ordered
<1>6. QED BY <1>3, <1>4, <1>5 DEF t

(* Sending moves the border between what is sent and what is queued.        *)
LEMMA StreamMoves ==
  ASSUME NEW S, NEW w \in Seq(S), NEW q \in Seq(S)
  PROVE  /\ \A p \in S : w \o Append(q, p) = Append(w \o q, p)
         /\ q # <<>> => Append(w, Head(q)) \o Tail(q) = w \o q
         /\ w # <<>> => w \o q # <<>> /\ Tail(w) \o q = Tail(w \o q) /\ Head(w \o q) = Head(w)
<1>1. ASSUME NEW p \in S PROVE w \o Append(q, p) = Append(w \o q, p)
  OBVIOUS
<1>2. ASSUME q # <<>> PROVE Append(w, Head(q)) \o Tail(q) = w \o q
  <2> DEFINE x == Append(w, Head(q)) \o Tail(q)
             y == w \o q
  <2>1. Head(q) \in S /\ Tail(q) \in Seq(S)
    BY <1>2
  <2>2. x \in Seq(S) /\ y \in Seq(S) /\ Len(x) = Len(y)
    BY <1>2, <2>1
  <2>3. \A i \in 1 .. Len(x) : x[i] = y[i]
    BY <1>2, <2>1
  <2> HIDE DEF x, y
  <2>4. x = y
    BY <2>2, <2>3, SeqEqual
  <2>5. QED BY <2>4 DEF x, y
<1>3. ASSUME w # <<>>
      PROVE  w \o q # <<>> /\ Tail(w) \o q = Tail(w \o q) /\ Head(w \o q) = Head(w)
  BY <1>3, ConcatTail
<1>4. QED BY <1>1, <1>2, <1>3

-----------------------------------------------------------------------------
(* Every end sends its own packets only.                                    *)
Packed(s) == s \in [Ends -> Seq(Packets)] /\ \A e \in Ends : s[e] \in Seq(SentBy(e))

(* The two ends, and what arrives at each.                                  *)
LEMMA EndsFacts ==
  /\ "server" \in Ends /\ "client" \in Ends /\ "server" # "client"
  /\ Other("server") = "client" /\ Other("client") = "server"
  /\ \A e \in Ends : Other(e) \in Ends /\ Other(Other(e)) = e /\ Other(e) # e
BY DEF Ends, Other

(* A packet is queued, sent, received, ...                                  *)
LEMMA PackedMoves ==
  ASSUME NEW s, Packed(s), NEW e \in Ends
  PROVE  /\ \A p \in SentBy(e) : Packed([s EXCEPT ![e] = Append(@, p)])
         /\ s[e] # <<>> => Packed([s EXCEPT ![e] = Tail(@)]) /\ Head(s[e]) \in SentBy(e)
<1>1. SentBy(e) \subseteq Packets /\ s[e] \in Seq(SentBy(e)) /\ s[e] \in Seq(Packets)
  BY SentTypes DEF Packed
<1>2. ASSUME NEW p \in SentBy(e) PROVE Packed([s EXCEPT ![e] = Append(@, p)])
  <2>1. Append(s[e], p) \in Seq(SentBy(e)) /\ Append(s[e], p) \in Seq(Packets)
    BY <1>1
  <2>2. QED BY <2>1 DEF Packed
<1>3. ASSUME s[e] # <<>> PROVE Packed([s EXCEPT ![e] = Tail(@)]) /\ Head(s[e]) \in SentBy(e)
  <2>1. /\ Tail(s[e]) \in Seq(SentBy(e)) /\ Tail(s[e]) \in Seq(Packets)
        /\ Head(s[e]) \in SentBy(e)
    BY <1>1, <1>3
  <2>2. QED BY <2>1 DEF Packed
<1>4. QED BY <1>2, <1>3

(* ... or lost with all behind it.                                          *)
LEMMA PackedLoses ==
  ASSUME NEW s, Packed(s), NEW e \in Ends, NEW n \in 0 .. Len(s[e])
  PROVE  Packed([s EXCEPT ![e] = SubSeq(@, 1, n)])
<1>1. SentBy(e) \subseteq Packets /\ s[e] \in Seq(SentBy(e)) /\ s[e] \in Seq(Packets)
  BY SentTypes DEF Packed
<1>2. SubSeq(s[e], 1, n) \in Seq(SentBy(e)) /\ SubSeq(s[e], 1, n) \in Seq(Packets)
  BY <1>1
<1>3. QED BY <1>2 DEF Packed

(* No step puts a packet in the queue of an end that does not send such.    *)
LEMMA StreamsStep ==
  ASSUME TypeOK, StreamsInv, Next
  PROVE  Packed(queue') /\ Packed(wire')
<1>1. Packed(queue) /\ Packed(wire)
  BY DEF TypeOK, StreamsInv, Packed
<1>2. ASSUME NEW e \in Ends, NEW p \in SentBy(e), Produce(e, p) PROVE Packed(queue')
  BY <1>1, <1>2, PackedMoves DEF Produce
<1>3. ASSUME NEW e \in Ends, wire[Other(e)] # <<>>, Received(e) PROVE Packed(wire')
  BY <1>1, <1>3, PackedMoves, EndsFacts DEF Received
<1>4. ASSUME NEW e \in Ends, Live(e) PROVE Packed(queue') /\ Packed(wire')
  BY <1>1, <1>4 DEF Live
<1>5. ASSUME NEW e \in Ends, Announce(e) PROVE Packed(queue') /\ Packed(wire')
  BY <1>1, <1>2, <1>5, SentTypes DEF Announce
<1>6. ASSUME NEW e \in Ends, Send(e) PROVE Packed(queue') /\ Packed(wire')
  <2>1. /\ queue[e] # <<>>
        /\ queue' = [queue EXCEPT ![e] = Tail(@)]
        /\ wire' = [wire EXCEPT ![e] = Append(@, Head(queue[e]))]
    BY <1>6 DEF Send
  <2>2. Packed(queue') /\ Head(queue[e]) \in SentBy(e)
    BY <1>1, <2>1, PackedMoves
  <2>3. QED BY <1>1, <2>1, <2>2, PackedMoves
<1>7. ASSUME Broadcast PROVE Packed(queue') /\ Packed(wire')
  BY <1>1, <1>2, <1>7, SentTypes, EndsFacts DEF Broadcast
<1>8. ASSUME NEW e \in Ends, ReceiveVersion(e) \/ ReceiveOther(e)
      PROVE  Packed(queue') /\ Packed(wire')
  BY <1>1, <1>3, <1>8 DEF ReceiveVersion, ReceiveOther, Arrives
<1>9. ASSUME ReceiveExecute \/ ReceiveCompleted PROVE Packed(queue') /\ Packed(wire')
  BY <1>1, <1>3, <1>9, EndsFacts DEF ReceiveExecute, ReceiveCompleted, Arrives
<1>10. ASSUME Place PROVE Packed(queue') /\ Packed(wire')
  <2>1. Head(input) \in Jobs /\ Produce("server", Execute(Head(input))) /\ wire' = wire
    BY <1>10 DEF Place, TypeOK, Execute
  <2>2. QED BY <1>1, <1>2, <2>1, SentTypes, EndsFacts
<1>11. ASSUME NEW c \in Children, Done(c) PROVE Packed(queue') /\ Packed(wire')
  <2>1. /\ Produce("client", Completed(Head(commands[c]))) /\ wire' = wire
        /\ commands[c] # <<>> /\ commands[c] \in Seq(Jobs)
    BY <1>11 DEF Done, ReportOf, TypeOK, Completed
  <2>2. Head(commands[c]) \in Jobs
    BY <2>1
  <2>3. QED BY <1>1, <1>2, <2>1, <2>2, SentTypes, EndsFacts
<1>12. ASSUME CloseAll PROVE Packed(queue') /\ Packed(wire')
  <2>1. queue' = queue
    BY <1>12 DEF CloseAll
  <2>2. PICK m \in 0 .. Len(wire["server"]) :
          wire' = [wire EXCEPT !["server"] = SubSeq(@, 1, m)]
    BY <1>12 DEF CloseAll
  <2>3. QED BY <1>1, <2>1, <2>2, PackedLoses, EndsFacts
<1>13. ASSUME Cut PROVE Packed(queue') /\ Packed(wire')
  <2>1. queue' = queue
    BY <1>13 DEF Cut
  <2>2. PICK m \in 0 .. Len(wire["server"]), n \in 0 .. Len(wire["client"]) :
          wire' = [wire EXCEPT !["server"] = SubSeq(@, 1, m),
                               !["client"] = SubSeq(@, 1, n)]
    BY <1>13 DEF Cut
  <2> DEFINE w == [wire EXCEPT !["server"] = SubSeq(@, 1, m)]
  <2>3. Packed(w) /\ w["client"] = wire["client"]
    BY <1>1, PackedLoses, EndsFacts DEF Packed
  <2>4. wire' = [w EXCEPT !["client"] = SubSeq(@, 1, n)]
    BY <2>2
  <2> HIDE DEF w
  <2>5. Packed(wire')
    BY <2>3, <2>4, PackedLoses, EndsFacts
  <2>6. QED BY <1>1, <2>1, <2>5
<1>14. ASSUME PlaceLocal \/ Redistribute \/ Consume \/ ClientClose \/ ChildEnd \/ Panic \/ Terminated
       PROVE  Packed(queue') /\ Packed(wire')
  BY <1>1, <1>14 DEF PlaceLocal, Redistribute, Consume, ClientClose, ChildEnd, Panic, Terminated,
     vars, linkVars
<1>15. ASSUME NEW c \in Children, Give(c) \/ ResendAfterClose(c)
       PROVE  Packed(queue') /\ Packed(wire')
  BY <1>1, <1>15 DEF Give, ResendAfterClose, linkVars
<1>16. QED
  BY <1>4, <1>5, <1>6, <1>7, <1>8, <1>9, <1>10, <1>11, <1>12, <1>13, <1>14, <1>15 DEF Next

-----------------------------------------------------------------------------
(* What arrives is what the other end sends, ...                            *)
LEMMA ArrivalTypes ==
  ASSUME TypeOK, StreamsInv, NEW e \in Ends, Arrives(e)
  PROVE  /\ Arriving(e) \in SentBy(Other(e))
         /\ e = "server" /\ Arriving(e).type = "version" => Arriving(e).content = Announced
         /\ e = "client" /\ Arriving(e).type = "execute" =>
              Arriving(e).content \in Jobs /\ Arriving(e) = Execute(Arriving(e).content)
         /\ e = "server" /\ Arriving(e).type = "completed" =>
              Arriving(e).content \in Jobs /\ Arriving(e) = Completed(Arriving(e).content)
<1>1. Other(e) \in Ends /\ wire[Other(e)] \in Seq(SentBy(Other(e))) /\ wire[Other(e)] # <<>>
  BY EndsFacts DEF StreamsInv, Arrives
<1>2. Arriving(e) \in SentBy(Other(e))
  BY <1>1 DEF Arriving
<1>3. CASE e = "server"
  <2>1. Arriving(e) \in SentBy("client") /\ AnnouncedBy("client") = Announced
    BY <1>2, <1>3, EndsFacts DEF AnnouncedBy
  <2>2. Arriving(e).type = "version" => Arriving(e).content = Announced
    BY <2>1, SentTypes, EndsFacts
  <2>3. ASSUME Arriving(e).type = "completed"
        PROVE  Arriving(e).content \in Jobs /\ Arriving(e) = Completed(Arriving(e).content)
    <3>1. PICK j \in Jobs : Arriving(e) = Completed(j)
      BY <2>1, <2>3, SentTypes, EndsFacts
    <3>2. QED BY <3>1, PacketParts
  <2>4. QED BY <1>2, <1>3, <2>2, <2>3
<1>4. CASE e = "client"
  <2>1. Arriving(e) \in SentBy("server")
    BY <1>2, <1>4, EndsFacts
  <2>2. ASSUME Arriving(e).type = "execute"
        PROVE  Arriving(e).content \in Jobs /\ Arriving(e) = Execute(Arriving(e).content)
    <3>1. PICK j \in Jobs : Arriving(e) = Execute(j)
      BY <2>1, <2>2, SentTypes, EndsFacts
    <3>2. QED BY <3>1, PacketParts
  <2>3. QED BY <1>2, <1>4, <2>2
<1>5. QED BY <1>3, <1>4 DEF Ends

(* ... so that the server's variables keep their types, ...                 *)
LEMMA ServerTypeStep ==
  ASSUME TypeOK, StreamsInv, Next
  PROVE  /\ input' \in Seq(Jobs) /\ cap' \in {<<>>, <<Announced>>}
         /\ work' \subseteq Jobs /\ placed' \subseteq Jobs
         /\ answered' \subseteq Jobs /\ returned' \subseteq Jobs
<1> DEFINE Goal == /\ input' \in Seq(Jobs) /\ cap' \in {<<>>, <<Announced>>}
                   /\ work' \subseteq Jobs /\ placed' \subseteq Jobs
                   /\ answered' \subseteq Jobs /\ returned' \subseteq Jobs
<1>1. ASSUME UNCHANGED serverVars PROVE Goal
  BY <1>1 DEF TypeOK, serverVars
<1>2. ASSUME NEW e \in Ends, ReceiveVersion(e) PROVE Goal
  <2>1. cap' \in {<<>>, <<Announced>>}
    BY <1>2, ArrivalTypes DEF ReceiveVersion, TypeOK
  <2>2. QED BY <1>2, <2>1 DEF ReceiveVersion, TypeOK
<1>3. ASSUME ReceiveCompleted PROVE Goal
  BY <1>3 DEF ReceiveCompleted, Erased, TypeOK
<1>4. ASSUME Place \/ PlaceLocal PROVE Goal
  <2>1. input # <<>> /\ input \in Seq(Jobs)
    BY <1>4 DEF Place, PlaceLocal, TypeOK
  <2>2. Head(input) \in Jobs /\ Tail(input) \in Seq(Jobs)
    BY <2>1
  <2>3. QED BY <1>4, <2>2 DEF Place, PlaceLocal, TypeOK
<1>5. ASSUME Redistribute PROVE Goal
  BY <1>5 DEF Redistribute, TypeOK
<1> HIDE DEF Goal
<1>6. ASSUME NEW e \in Ends, Live(e) \/ Announce(e) \/ Send(e) \/ ReceiveOther(e) PROVE Goal
  BY <1>1, <1>6 DEF Live, Announce, Send, ReceiveOther
<1>7. ASSUME NEW c \in Children, Give(c) \/ Done(c) \/ ResendAfterClose(c) PROVE Goal
  BY <1>1, <1>7 DEF Give, Done, ResendAfterClose
<1>8. ASSUME ReceiveExecute \/ Broadcast \/ CloseAll \/ Cut PROVE Goal
  BY <1>1, <1>8 DEF ReceiveExecute, Broadcast, CloseAll, Cut
<1>9. ASSUME Consume \/ ClientClose \/ ChildEnd \/ Panic \/ Terminated PROVE Goal
  BY <1>1, <1>9 DEF Consume, ClientClose, ChildEnd, Panic, Terminated, vars
<1>10. Goal
  BY <1>2, <1>3, <1>4, <1>5, <1>6, <1>7, <1>8, <1>9 DEF Next
<1>11. QED BY <1>10 DEF Goal

(* ... and the client's, ...                                                *)
LEMMA ClientTypeStep ==
  ASSUME TypeOK, StreamsInv, Next
  PROVE  /\ overspill' \in Seq(Jobs) /\ hand' \in Seq(Jobs) /\ Len(hand') <= 1
         /\ commands' \in [Children -> Seq(Jobs)]
         /\ \A c \in Children : Len(commands'[c]) <= BufferSize
         /\ closed' \in 0 .. NumChildren
         /\ main' \in {"wait", "close", "ended", "exit4", "exit7"}
<1> DEFINE Goal == /\ overspill' \in Seq(Jobs) /\ hand' \in Seq(Jobs) /\ Len(hand') <= 1
                   /\ commands' \in [Children -> Seq(Jobs)]
                   /\ \A c \in Children : Len(commands'[c]) <= BufferSize
                   /\ closed' \in 0 .. NumChildren
                   /\ main' \in {"wait", "close", "ended", "exit4", "exit7"}
<1>1. NumChildren \in Nat \ {0} /\ BufferSize \in Nat
  BY NetChildrenAssumption, NetBufferAssumption
<1>2. ASSUME UNCHANGED clientVars PROVE Goal
  BY <1>2 DEF TypeOK, clientVars
<1>3. ASSUME ReceiveExecute PROVE Goal
  <2>1. Arriving("client").content \in Jobs /\ overspill \in Seq(Jobs)
    BY <1>3, ArrivalTypes, EndsFacts DEF ReceiveExecute, TypeOK
  <2>2. overspill' \in Seq(Jobs)
    BY <1>3, <2>1 DEF ReceiveExecute
  <2>3. QED BY <1>3, <2>2 DEF ReceiveExecute, TypeOK
<1>4. ASSUME Consume PROVE Goal
  <2>1. overspill # <<>> /\ overspill \in Seq(Jobs) /\ hand' = <<Head(overspill)>>
        /\ overspill' = Tail(overspill)
    BY <1>4 DEF Consume, TypeOK
  <2>2. overspill' \in Seq(Jobs) /\ hand' \in Seq(Jobs) /\ Len(hand') <= 1
    BY <2>1
  <2>3. QED BY <1>4, <2>2 DEF Consume, TypeOK
<1>5. ASSUME NEW c \in Children, Give(c) PROVE Goal
  <2>1. overspill' \in Seq(Jobs) /\ closed' \in 0 .. NumChildren
        /\ main' \in {"wait", "close", "ended", "exit4", "exit7"}
    BY <1>5 DEF Give, TypeOK
  <2>2. hand' \in Seq(Jobs) /\ Len(hand') <= 1
    <3>1. /\ <<>> \in Seq(Jobs) /\ Len(<<>>) = 0 /\ 0 <= 1
          /\ hand \in Seq(Jobs) /\ Len(hand) <= 1
      BY DEF TypeOK
    <3>2. CASE hand' = <<>>
      BY <3>1, <3>2
    <3>3. CASE hand' = hand
      BY <3>1, <3>3
    <3>4. QED BY <1>5, <3>2, <3>3 DEF Give
  <2>3. hand \in Seq(Jobs) /\ hand # <<>> /\ commands[c] \in Seq(Jobs) /\ Len(commands[c]) < BufferSize
    BY <1>5 DEF Give, SlotFree, TypeOK
  <2>4. Append(commands[c], hand[1]) \in Seq(Jobs) /\ Len(Append(commands[c], hand[1])) <= BufferSize
    BY <1>1, <2>3
  <2>5. commands' \in [Children -> Seq(Jobs)] /\ \A d \in Children : Len(commands'[d]) <= BufferSize
    BY <1>5, <2>4 DEF Give, TypeOK
  <2>6. QED BY <2>1, <2>2, <2>5
<1>6. ASSUME NEW c \in Children, Done(c) PROVE Goal
  <2>1. commands[c] # <<>> /\ commands[c] \in Seq(Jobs) /\ Len(commands[c]) <= BufferSize
    BY <1>6 DEF Done, TypeOK
  <2>2. Tail(commands[c]) \in Seq(Jobs) /\ Len(Tail(commands[c])) <= BufferSize
    BY <1>1, <2>1
  <2>3. commands' \in [Children -> Seq(Jobs)] /\ \A d \in Children : Len(commands'[d]) <= BufferSize
    BY <1>6, <2>2 DEF Done, TypeOK
  <2>4. QED BY <1>6, <2>3 DEF Done, TypeOK
<1>7. ASSUME ClientClose \/ ChildEnd PROVE Goal
  <2>1. closed' \in 0 .. NumChildren
    BY <1>1, <1>7 DEF ClientClose, ChildEnd, TypeOK
  <2>2. QED BY <1>7, <2>1 DEF ClientClose, ChildEnd, TypeOK
<1>8. ASSUME Panic PROVE Goal
  BY <1>8 DEF Panic, TypeOK
<1>9. ASSUME NEW c \in Children, ResendAfterClose(c) PROVE Goal
  BY <1>9 DEF ResendAfterClose, TypeOK
<1> HIDE DEF Goal
<1>10. ASSUME NEW e \in Ends,
              Live(e) \/ Announce(e) \/ Send(e) \/ ReceiveVersion(e) \/ ReceiveOther(e)
       PROVE  Goal
  BY <1>2, <1>10 DEF Live, Announce, Send, ReceiveVersion, ReceiveOther
<1>11. ASSUME ReceiveCompleted \/ Broadcast \/ Place \/ PlaceLocal \/ CloseAll \/ Cut
              \/ Redistribute \/ Terminated
       PROVE  Goal
  BY <1>2, <1>11 DEF ReceiveCompleted, Broadcast, Place, PlaceLocal, CloseAll, Cut, Redistribute,
     Terminated, vars
<1>12. Goal
  BY <1>3, <1>4, <1>5, <1>6, <1>7, <1>8, <1>9, <1>10, <1>11 DEF Next
<1>13. QED BY <1>12 DEF Goal

(* ... and the connection's.                                                *)
LEMMA TypeStep ==
  ASSUME TypeOK, StreamsInv, Next
  PROVE  TypeOK' /\ StreamsInv'
<1>1. /\ stage' \in [Ends -> {"new", "live", "open", "ended"}]
      /\ version' \in [Ends -> {0, 1}] /\ up' \in BOOLEAN /\ cut' \in BOOLEAN
      /\ logs' \in 0 .. MaxLogs
  <2> DEFINE Goal == /\ stage' \in [Ends -> {"new", "live", "open", "ended"}]
                     /\ version' \in [Ends -> {0, 1}] /\ up' \in BOOLEAN /\ cut' \in BOOLEAN
                     /\ logs' \in 0 .. MaxLogs
  <2>1. ASSUME UNCHANGED <<stage, version, up, cut, logs>> PROVE Goal
    BY <2>1 DEF TypeOK
  <2>2. ASSUME NEW e \in Ends, Live(e) \/ Announce(e) PROVE Goal
    BY <2>2 DEF TypeOK, Live, Announce
  <2>3. ASSUME NEW e \in Ends, ReceiveVersion(e) PROVE Goal
    BY <2>3 DEF TypeOK, ReceiveVersion, Negotiate, MaxVersion
  <2>4. ASSUME Broadcast PROVE Goal
    BY <2>4, NetLogsAssumption DEF TypeOK, Broadcast
  <2>5. ASSUME CloseAll \/ Cut \/ Redistribute \/ ClientClose PROVE Goal
    BY <2>5 DEF TypeOK, CloseAll, Cut, Redistribute, ClientClose
  <2> HIDE DEF Goal
  <2>6. ASSUME NEW e \in Ends, Send(e) \/ ReceiveOther(e) PROVE Goal
    BY <2>1, <2>6 DEF Send, ReceiveOther
  <2>7. ASSUME ReceiveExecute \/ ReceiveCompleted \/ Place \/ PlaceLocal \/ Consume \/ ChildEnd
               \/ Panic \/ Terminated
        PROVE  Goal
    BY <2>1, <2>7 DEF ReceiveExecute, ReceiveCompleted, Place, PlaceLocal, Consume, ChildEnd,
       Panic, Terminated, vars, linkVars
  <2>8. ASSUME NEW c \in Children, Give(c) \/ Done(c) \/ ResendAfterClose(c) PROVE Goal
    BY <2>1, <2>8 DEF Give, Done, ResendAfterClose, linkVars
  <2>9. Goal
    BY <2>2, <2>3, <2>4, <2>5, <2>6, <2>7, <2>8 DEF Next
  <2>10. QED BY <2>9 DEF Goal
<1>2. Packed(queue') /\ Packed(wire')
  BY StreamsStep
<1>3. StreamsInv'
  BY <1>2 DEF Packed, StreamsInv
<1>4. TypeOK'
  BY <1>1, <1>2, ServerTypeStep, ClientTypeStep DEF TypeOK, Packed
<1>5. QED BY <1>3, <1>4

-----------------------------------------------------------------------------
(* The phases of a connection.  No job is placed without an announcement,   *)
(* nor more than were announced, ...                                        *)
LEMMA RoomStep ==
  ASSUME TypeOK, PhaseInv, Next
  PROVE  (cap = <<>> => work = {})' /\ (IsFiniteSet(work) /\ Cardinality(work) <= Announced)'
<1> DEFINE Goal == /\ cap' = <<>> => work' = {}
                   /\ IsFiniteSet(work') /\ Cardinality(work') <= Announced
<1>1. /\ cap = <<>> => work = {}
      /\ IsFiniteSet(work) /\ Cardinality(work) <= Announced /\ Cardinality(work) \in Nat
      /\ cap \in {<<>>, <<Announced>>}
      /\ Announced \in Nat
  BY FS_CardinalityType, Announcements DEF PhaseInv, TypeOK
<1>2. ASSUME UNCHANGED <<cap, work>> PROVE Goal
  BY <1>1, <1>2
<1>3. ASSUME NEW e \in Ends, ReceiveVersion(e) PROVE Goal
  <2>1. work' = work /\ (cap' = cap \/ cap' = <<Arriving(e).content>>)
    BY <1>3 DEF ReceiveVersion
  <2>2. \A n : <<n>> # <<>>
    OBVIOUS
  <2>3. QED BY <1>1, <2>1, <2>2
<1>4. ASSUME ReceiveCompleted PROVE Goal
  <2>1. cap' = cap /\ work' \subseteq work
    BY <1>4 DEF ReceiveCompleted, Erased
  <2>2. IsFiniteSet(work') /\ Cardinality(work') <= Cardinality(work) /\ Cardinality(work') \in Nat
    BY <1>1, <2>1, FS_Subset, FS_CardinalityType
  <2>3. QED BY <1>1, <2>1, <2>2
<1>5. ASSUME Place PROVE Goal
  <2>1. cap' = cap /\ cap # <<>> /\ cap[1] > Cardinality(work)
        /\ work' = work \cup {Head(input)}
    BY <1>5 DEF Place, HasRoom
  <2>2. cap[1] = Announced
    <3>1. cap = <<Announced>>
      BY <1>1, <2>1
    <3>2. \A n : <<n>>[1] = n
      OBVIOUS
    <3>3. QED BY <3>1, <3>2
  <2>3. IsFiniteSet(work') /\ Cardinality(work') <= Cardinality(work) + 1
    <3> DEFINE j == Head(input)
    <3> HIDE DEF j
    <3>1. /\ IsFiniteSet(work \cup {j})
          /\ Cardinality(work \cup {j}) = IF j \in work THEN Cardinality(work)
                                                       ELSE Cardinality(work) + 1
      BY <1>1, FS_AddElement
    <3>2. work' = work \cup {j}
      BY <2>1 DEF j
    <3>3. QED BY <1>1, <3>1, <3>2
  <2>4. Cardinality(work') \in Nat
    BY <2>3, FS_CardinalityType
  <2>5. QED BY <1>1, <2>1, <2>2, <2>3, <2>4
<1>6. ASSUME Redistribute PROVE Goal
  BY <1>1, <1>6, FS_EmptySet DEF Redistribute
<1> HIDE DEF Goal
<1>7. ASSUME NEW e \in Ends, Live(e) \/ Announce(e) \/ Send(e) \/ ReceiveOther(e) PROVE Goal
  BY <1>2, <1>7 DEF Live, Announce, Send, ReceiveOther, serverVars
<1>8. ASSUME NEW c \in Children, Give(c) \/ Done(c) \/ ResendAfterClose(c) PROVE Goal
  BY <1>2, <1>8 DEF Give, Done, ResendAfterClose, serverVars
<1>9. ASSUME ReceiveExecute \/ Broadcast \/ PlaceLocal \/ CloseAll \/ Cut PROVE Goal
  BY <1>2, <1>9 DEF ReceiveExecute, Broadcast, PlaceLocal, CloseAll, Cut, serverVars
<1>10. ASSUME Consume \/ ClientClose \/ ChildEnd \/ Panic \/ Terminated PROVE Goal
  BY <1>2, <1>10 DEF Consume, ClientClose, ChildEnd, Panic, Terminated, vars, serverVars
<1>11. Goal
  BY <1>3, <1>4, <1>5, <1>6, <1>7, <1>8, <1>9, <1>10 DEF Next
<1>12. QED BY <1>11 DEF Goal

(* ... the client has no job before its version packet is queued, and it    *)
(* closes its children only when the connection has gone.                   *)
LEMMA PhaseStep ==
  ASSUME TypeOK, PhaseInv, Next
  PROVE  PhaseInv'
<1>1. (up => \A e \in Ends : stage[e] # "ended")'
  <2> DEFINE Goal == up' => \A e \in Ends : stage'[e] # "ended"
  <2>0. up => \A e \in Ends : stage[e] # "ended"
    BY DEF PhaseInv
  <2>1. ASSUME UNCHANGED <<stage, up>> PROVE Goal
    BY <2>0, <2>1
  <2>2. ASSUME NEW e \in Ends, Live(e) \/ Announce(e) PROVE Goal
    BY <2>0, <2>2 DEF Live, Announce, TypeOK
  <2>3. ASSUME CloseAll \/ Cut \/ Redistribute \/ ClientClose PROVE Goal
    BY <2>3 DEF CloseAll, Cut, Redistribute, ClientClose, Release
  <2> HIDE DEF Goal
  <2>4. ASSUME NEW e \in Ends, Send(e) \/ ReceiveVersion(e) \/ ReceiveOther(e) PROVE Goal
    BY <2>1, <2>4 DEF Send, ReceiveVersion, ReceiveOther
  <2>5. ASSUME ReceiveExecute \/ ReceiveCompleted \/ Broadcast \/ Place \/ PlaceLocal PROVE Goal
    BY <2>1, <2>5 DEF ReceiveExecute, ReceiveCompleted, Broadcast, Place, PlaceLocal, linkVars
  <2>6. ASSUME Consume \/ ChildEnd \/ Panic \/ Terminated PROVE Goal
    BY <2>1, <2>6 DEF Consume, ChildEnd, Panic, Terminated, vars, linkVars
  <2>7. ASSUME NEW c \in Children, Give(c) \/ Done(c) \/ ResendAfterClose(c) PROVE Goal
    BY <2>1, <2>7 DEF Give, Done, ResendAfterClose, linkVars
  <2>8. Goal
    BY <2>2, <2>3, <2>4, <2>5, <2>6, <2>7 DEF Next
  <2>9. QED BY <2>8 DEF Goal
<1>2. (stage["client"] \in {"new", "live"} =>
         overspill = <<>> /\ hand = <<>> /\ \A c \in Children : commands[c] = <<>>)'
  <2> DEFINE Goal == stage'["client"] \in {"new", "live"} =>
         overspill' = <<>> /\ hand' = <<>> /\ \A c \in Children : commands'[c] = <<>>
  <2>0. stage["client"] \in {"new", "live"} =>
         overspill = <<>> /\ hand = <<>> /\ \A c \in Children : commands[c] = <<>>
    BY DEF PhaseInv
  <2>1. ASSUME UNCHANGED <<overspill, hand, commands>>,
               stage'["client"] \in {"new", "live"} => stage["client"] \in {"new", "live"}
        PROVE  Goal
    BY <2>0, <2>1
  <2>2. ASSUME NEW e \in Ends, Live(e) \/ Announce(e) PROVE Goal
    <3>1. stage'["client"] \in {"new", "live"} => stage["client"] \in {"new", "live"}
      BY <2>2, EndsFacts DEF Live, Announce, TypeOK
    <3>2. UNCHANGED <<overspill, hand, commands>>
      BY <2>2 DEF Live, Announce, clientVars
    <3>3. QED BY <2>1, <3>1, <3>2
  <2>3. ASSUME ReceiveExecute PROVE Goal
    BY <2>3 DEF ReceiveExecute, Arrives
  <2>4. ASSUME Consume PROVE Goal
    BY <2>0, <2>4 DEF Consume, linkVars
  <2>5. ASSUME NEW c \in Children, Give(c) PROVE Goal
    BY <2>0, <2>5 DEF Give, linkVars
  <2>6. ASSUME NEW c \in Children, Done(c) PROVE Goal
    BY <2>0, <2>6 DEF Done
  <2>7. ASSUME CloseAll \/ Cut \/ Redistribute \/ ClientClose PROVE Goal
    <3>1. stage'["client"] \in {"new", "live"} => stage["client"] \in {"new", "live"}
      BY <2>7, EndsFacts DEF CloseAll, Cut, Redistribute, ClientClose, TypeOK
    <3>2. UNCHANGED <<overspill, hand, commands>>
      BY <2>7 DEF CloseAll, Cut, Redistribute, ClientClose, clientVars
    <3>3. QED BY <2>1, <3>1, <3>2
  <2> HIDE DEF Goal
  <2>8. ASSUME NEW e \in Ends, Send(e) \/ ReceiveVersion(e) \/ ReceiveOther(e) PROVE Goal
    BY <2>1, <2>8 DEF Send, ReceiveVersion, ReceiveOther, clientVars
  <2>9. ASSUME ReceiveCompleted \/ Broadcast \/ Place \/ PlaceLocal PROVE Goal
    BY <2>1, <2>9 DEF ReceiveCompleted, Broadcast, Place, PlaceLocal, linkVars, clientVars
  <2>10. ASSUME ChildEnd \/ Panic \/ Terminated PROVE Goal
    BY <2>1, <2>10 DEF ChildEnd, Panic, Terminated, vars, linkVars, clientVars
  <2>11. ASSUME NEW c \in Children, ResendAfterClose(c) PROVE Goal
    BY <2>1, <2>11 DEF ResendAfterClose, linkVars
  <2>12. Goal
    BY <2>2, <2>3, <2>4, <2>5, <2>6, <2>7, <2>8, <2>9, <2>10, <2>11 DEF Next
  <2>13. QED BY <2>12 DEF Goal
<1>3. (closed # 0 => ~up)' /\ (main = "close" <=> closed # 0 /\ Serving)'
  <2> DEFINE Goal == /\ closed' # 0 => ~up'
                     /\ main' = "close" <=> closed' # 0 /\ main' \in {"wait", "close"}
  <2>0. /\ closed # 0 => ~up
        /\ main = "close" <=> closed # 0 /\ main \in {"wait", "close"}
        /\ closed \in Nat /\ up \in BOOLEAN
        /\ NumChildren \in Nat \ {0}
    BY NetChildrenAssumption DEF PhaseInv, Serving, TypeOK
  <2>1. ASSUME UNCHANGED <<closed, main>>, up' = up \/ up' = FALSE PROVE Goal
    BY <2>0, <2>1
  <2>2. ASSUME NEW c \in Children, Give(c) PROVE Goal
    BY <2>0, <2>2 DEF Give, linkVars
  <2>3. ASSUME NEW c \in Children, ResendAfterClose(c) PROVE Goal
    BY <2>0, <2>3 DEF ResendAfterClose, linkVars
  <2>4. ASSUME ClientClose PROVE Goal
    BY <2>0, <2>4 DEF ClientClose, Release
  <2>5. ASSUME ChildEnd \/ Panic PROVE Goal
    <3>1. main = "close" /\ closed # 0 /\ ~up /\ up' = up
      BY <2>0, <2>5 DEF ChildEnd, Panic, linkVars
    <3>2. closed' # 0
      BY <2>0, <2>5, <3>1 DEF ChildEnd, Panic
    <3>3. CASE ChildEnd
      <4>1. main' = main \/ main' = "ended"
        BY <3>3 DEF ChildEnd
      <4>2. QED BY <3>1, <3>2, <4>1
    <3>4. CASE Panic
      BY <3>1, <3>2, <3>4 DEF Panic
    <3>5. QED BY <2>5, <3>3, <3>4
  <2>6. ASSUME CloseAll \/ Cut PROVE Goal
    BY <2>0, <2>6 DEF CloseAll, Cut, clientVars
  <2> HIDE DEF Goal
  <2>7. ASSUME NEW e \in Ends,
               Live(e) \/ Announce(e) \/ Send(e) \/ ReceiveVersion(e) \/ ReceiveOther(e)
        PROVE  Goal
    BY <2>1, <2>7 DEF Live, Announce, Send, ReceiveVersion, ReceiveOther, clientVars
  <2>8. ASSUME ReceiveExecute \/ ReceiveCompleted \/ Broadcast \/ Place \/ PlaceLocal PROVE Goal
    BY <2>1, <2>8 DEF ReceiveExecute, ReceiveCompleted, Broadcast, Place, PlaceLocal, linkVars,
       clientVars
  <2>9. ASSUME Redistribute \/ Consume \/ Terminated PROVE Goal
    BY <2>1, <2>9 DEF Redistribute, Consume, Terminated, vars, linkVars, clientVars
  <2>10. ASSUME NEW c \in Children, Done(c) PROVE Goal
    BY <2>1, <2>10 DEF Done
  <2>11. Goal
    BY <2>2, <2>3, <2>4, <2>5, <2>6, <2>7, <2>8, <2>9, <2>10 DEF Next
  <2>12. QED BY <2>11 DEF Goal, Serving
<1>4. QED BY <1>1, <1>2, <1>3, RoomStep DEF PhaseInv

-----------------------------------------------------------------------------
(* What the ends have sent each other.                                      *)
LEMMA StreamTypes ==
  ASSUME TypeOK, StreamsInv, NEW e \in Ends
  PROVE  /\ wire[e] \in Seq(SentBy(e)) /\ queue[e] \in Seq(SentBy(e))
         /\ Stream(e) \in Seq(SentBy(e))
BY DEF StreamsInv, Stream

(* What becomes of a stream when a packet is queued, sent or received.      *)
LEMMA StreamChanges ==
  ASSUME TypeOK, StreamsInv, NEW e \in Ends
  PROVE  /\ \A p \in SentBy(e) : wire[e] \o Append(queue[e], p) = Append(Stream(e), p)
         /\ queue[e] # <<>> => Append(wire[e], Head(queue[e])) \o Tail(queue[e]) = Stream(e)
         /\ wire[e] # <<>> => /\ Stream(e) # <<>> /\ Head(Stream(e)) = Head(wire[e])
                             /\ Tail(wire[e]) \o queue[e] = Tail(Stream(e))
<1> DEFINE w == wire[e]
           q == queue[e]
<1>1. w \in Seq(SentBy(e)) /\ q \in Seq(SentBy(e))
  BY StreamTypes
<1> HIDE DEF w, q
<1>2. /\ \A p \in SentBy(e) : w \o Append(q, p) = Append(w \o q, p)
      /\ q # <<>> => Append(w, Head(q)) \o Tail(q) = w \o q
      /\ w # <<>> => w \o q # <<>> /\ Tail(w) \o q = Tail(w \o q) /\ Head(w \o q) = Head(w)
  BY <1>1, StreamMoves
<1>3. QED BY <1>2 DEF w, q, Stream

(* A job arrives at an end that has negotiated a version.                   *)
LEMMA JobsAreUnderstood ==
  ASSUME TypeOK, StreamsInv, VersionsInv, up, NEW e \in Ends, Arrives(e),
         Arriving(e).type \in {"execute", "completed"}
  PROVE  Understood(e, Arriving(e))
<1>1. /\ Other(e) \in Ends /\ Other(Other(e)) = e
      /\ wire[Other(e)] # <<>>
  BY EndsFacts DEF Arrives
<1>2. Stream(Other(e)) # <<>> /\ Head(Stream(Other(e))) = Arriving(e)
  BY <1>1, StreamChanges DEF Arriving
<1>3. version[e] = 1 \/ Ordered(Stream(Other(e)))
  BY <1>1 DEF VersionsInv, Introduced
<1>4. CASE Ordered(Stream(Other(e)))
  <2>1. Arriving(e).type # "version"
    OBVIOUS
  <2>2. Stream(Other(e)) \in Seq(SentBy(Other(e)))
    BY <1>1, StreamTypes
  <2>3. Head(Stream(Other(e))).type \notin {"execute", "completed"}
    BY <1>2, <1>4, <2>1, <2>2, OrderedTail
  <2>4. QED BY <1>2, <2>3
<1>5. QED BY <1>3, <1>4 DEF Understood

(* A connection that is closed or cut stays so.                             *)
LEMMA NeverReopened ==
  ASSUME Next, up'
  PROVE  up /\ ~CloseAll /\ ~Cut
<1>1. ASSUME Redistribute \/ ClientClose PROVE up
  BY <1>1 DEF Redistribute, ClientClose
<1>2. ASSUME NEW e \in Ends,
             Live(e) \/ Announce(e) \/ Send(e) \/ ReceiveVersion(e) \/ ReceiveOther(e)
      PROVE  up
  BY <1>2 DEF Live, Announce, Send, ReceiveVersion, ReceiveOther
<1>3. ASSUME ReceiveExecute \/ ReceiveCompleted \/ Broadcast \/ Place \/ PlaceLocal PROVE up
  BY <1>3 DEF ReceiveExecute, ReceiveCompleted, Broadcast, Place, PlaceLocal, linkVars
<1>4. ASSUME Consume \/ ChildEnd \/ Panic \/ Terminated PROVE up
  BY <1>4 DEF Consume, ChildEnd, Panic, Terminated, vars, linkVars
<1>5. ASSUME NEW c \in Children, Give(c) \/ Done(c) \/ ResendAfterClose(c) PROVE up
  BY <1>5 DEF Give, Done, ResendAfterClose, linkVars
<1>6. ~CloseAll /\ ~Cut
  BY DEF CloseAll, Cut
<1>7. QED BY <1>1, <1>2, <1>3, <1>4, <1>5, <1>6 DEF Next

(* No step sends a job before the version, while the connection is up.      *)
LEMMA VersionsStep ==
  ASSUME TypeOK, StreamsInv, PhaseInv, VersionsInv, Next
  PROVE  VersionsInv'
<1> DEFINE Goal(e) == Introduced(version'[Other(e)], stage'[e], wire'[e] \o queue'[e])
           Quiet(e) == /\ UNCHANGED <<wire, queue, version>>
                       /\ stage'[e] = "open" => stage[e] = "open"
<1> SUFFICES ASSUME up' PROVE \A e \in Ends : Goal(e)
  BY DEF VersionsInv, Stream
<1>1. up /\ ~CloseAll /\ ~Cut
  BY NeverReopened
<1>2. \A e \in Ends : Introduced(version[Other(e)], stage[e], Stream(e))
  BY <1>1 DEF VersionsInv
<1>3. ASSUME NEW e \in Ends, Quiet(e) PROVE Goal(e)
  BY <1>2, <1>3 DEF Introduced, Stream
<1>4. ASSUME NEW d \in Ends, NEW p \in SentBy(d), Produce(d, p), NEW e \in Ends,
             UNCHANGED <<wire, version>>,
             stage'[e] = "open" => stage[e] = "open" \/ (e = d /\ p.type = "version"),
             p.type \notin {"execute", "completed"} \/ stage[d] = "open"
      PROVE  Goal(e)
  <2>1. CASE e # d
    <3>1. queue'[e] = queue[e]
      BY <1>4, <2>1 DEF Produce, TypeOK
    <3>2. QED BY <1>2, <1>4, <2>1, <3>1 DEF Introduced, Stream
  <2>2. CASE e = d
    <3>1. queue'[e] = Append(queue[e], p)
      BY <1>4, <2>2 DEF Produce, TypeOK
    <3>2. wire'[e] \o queue'[e] = Append(Stream(e), p) /\ Stream(e) \in Seq(SentBy(e))
      BY <1>4, <2>2, <3>1, StreamTypes, StreamChanges
    <3>3. Introduced(version[Other(e)], stage[e], Stream(e))
      BY <1>2
    <3>4. CASE version[Other(e)] = 1
      BY <1>4, <3>4 DEF Introduced
    <3>5. CASE Ordered(Stream(e)) /\ (stage[e] = "open" => Announces(Stream(e)))
      <4>1. /\ Announces(Append(Stream(e), p)) <=> Announces(Stream(e)) \/ p.type = "version"
            /\ p.type \notin {"execute", "completed"} \/ Announces(Stream(e))
                 => Ordered(Append(Stream(e), p))
        BY <1>4, <2>2, <3>2, <3>5, OrderedAppend
      <4>2. Ordered(Append(Stream(e), p))
        BY <1>4, <2>2, <3>5, <4>1
      <4>3. stage'[e] = "open" => Announces(Append(Stream(e), p))
        BY <1>4, <3>5, <4>1
      <4>4. QED BY <3>2, <4>2, <4>3 DEF Introduced
    <3>6. QED BY <3>3, <3>4, <3>5 DEF Introduced
  <2>3. QED BY <2>1, <2>2
<1>5. ASSUME NEW f \in Ends, wire[Other(f)] # <<>>, Received(f), UNCHANGED <<queue, stage>>,
             NEW e \in Ends,
             e # Other(f) => version'[Other(e)] = version[Other(e)],
             Arriving(f).type = "version" => version'[f] = 1,
             Arriving(f).type # "version" => version'[f] = version[f]
      PROVE  Goal(e)
  <2>1. CASE e # Other(f)
    <3>1. wire'[e] = wire[e]
      BY <1>5, <2>1, EndsFacts DEF Received, TypeOK
    <3>2. QED BY <1>2, <1>5, <2>1, <3>1 DEF Introduced, Stream
  <2>2. CASE e = Other(f)
    <3>1. Other(e) = f /\ wire[e] # <<>> /\ wire'[e] = Tail(wire[e])
      BY <1>5, <2>2, EndsFacts DEF Received, TypeOK
    <3>2. /\ wire'[e] \o queue'[e] = Tail(Stream(e)) /\ Stream(e) \in Seq(SentBy(e))
          /\ Stream(e) # <<>> /\ Head(Stream(e)) = Arriving(f)
      BY <1>5, <2>2, <3>1, StreamTypes, StreamChanges DEF Arriving
    <3>3. CASE Arriving(f).type = "version" \/ version[f] = 1
      BY <1>5, <3>1, <3>3 DEF Introduced
    <3>4. CASE Arriving(f).type # "version" /\ version[f] # 1
      <4>1. Ordered(Stream(e)) /\ (stage[e] = "open" => Announces(Stream(e)))
        BY <1>2, <3>1, <3>4 DEF Introduced
      <4>2. Ordered(Tail(Stream(e))) /\ (Announces(Stream(e)) => Announces(Tail(Stream(e))))
        BY <3>2, <3>4, <4>1, OrderedTail
      <4>3. QED BY <1>5, <3>2, <4>1, <4>2 DEF Introduced
    <3>5. QED BY <3>3, <3>4
  <2>3. QED BY <2>1, <2>2
<1> HIDE DEF Goal
<1>6. ASSUME NEW f \in Ends, NEW e \in Ends, Live(f) PROVE Goal(e)
  BY <1>3, <1>6 DEF Live, TypeOK
<1>7. ASSUME NEW d \in Ends, NEW e \in Ends, Announce(d) PROVE Goal(e)
  <2> DEFINE p == Packet("version", AnnouncedBy(d))
  <2>1. p \in SentBy(d) /\ p.type = "version"
    BY SentTypes, PacketParts
  <2>2. Produce(d, p) /\ UNCHANGED <<wire, version>> /\ stage' = [stage EXCEPT ![d] = "open"]
    BY <1>7 DEF Announce
  <2> HIDE DEF p
  <2>3. stage'[e] = "open" => stage[e] = "open" \/ (e = d /\ p.type = "version")
    BY <2>1, <2>2 DEF TypeOK
  <2>4. QED BY <1>4, <2>1, <2>2, <2>3
<1>8. ASSUME NEW d \in Ends, NEW e \in Ends, Send(d) PROVE Goal(e)
  <2>1. wire'[e] \o queue'[e] = Stream(e)
    <3>1. /\ queue[d] # <<>> /\ wire' = [wire EXCEPT ![d] = Append(@, Head(queue[d]))]
          /\ queue' = [queue EXCEPT ![d] = Tail(@)]
      BY <1>8 DEF Send
    <3>2. CASE e = d
      <4>1. wire'[e] = Append(wire[e], Head(queue[e])) /\ queue'[e] = Tail(queue[e])
        BY <3>1, <3>2 DEF TypeOK
      <4>2. QED BY <3>1, <3>2, <4>1, StreamChanges
    <3>3. CASE e # d
      BY <3>1, <3>3 DEF TypeOK, Stream
    <3>4. QED BY <3>2, <3>3
  <2>2. UNCHANGED <<stage, version>>
    BY <1>8 DEF Send
  <2>3. QED BY <1>2, <2>1, <2>2 DEF Goal
<1>9. ASSUME NEW f \in Ends, NEW e \in Ends, ReceiveVersion(f) PROVE Goal(e)
  <2>1. /\ wire[Other(f)] # <<>> /\ Received(f) /\ UNCHANGED <<queue, stage>>
        /\ Arriving(f).type = "version" /\ version' = [version EXCEPT ![f] = 1]
    BY <1>9 DEF ReceiveVersion, Arrives, Negotiate, MaxVersion
  <2>2. version'[f] = 1 /\ (e # Other(f) => version'[Other(e)] = version[Other(e)])
    BY <2>1, EndsFacts DEF TypeOK
  <2>3. QED BY <1>5, <2>1, <2>2
<1>10. ASSUME NEW f \in Ends, NEW e \in Ends, ReceiveOther(f) PROVE Goal(e)
  <2>1. wire[Other(f)] # <<>> /\ Received(f) /\ UNCHANGED <<queue, stage, version>>
    BY <1>10 DEF ReceiveOther, Arrives
  <2>2. Arriving(f).type # "version"
    BY <1>10 DEF ReceiveOther, Understood
  <2>3. QED BY <1>5, <2>1, <2>2
<1>11. ASSUME NEW e \in Ends, ReceiveExecute PROVE Goal(e)
  <2>1. /\ wire[Other("client")] # <<>> /\ Received("client") /\ UNCHANGED <<queue, stage, version>>
        /\ Arriving("client").type # "version"
    BY <1>11 DEF ReceiveExecute, Arrives
  <2>2. QED BY <1>5, <2>1, EndsFacts
<1>12. ASSUME NEW e \in Ends, ReceiveCompleted PROVE Goal(e)
  <2>1. /\ wire[Other("server")] # <<>> /\ Received("server") /\ UNCHANGED <<queue, stage, version>>
        /\ Arriving("server").type # "version"
    BY <1>12 DEF ReceiveCompleted, Arrives
  <2>2. QED BY <1>5, <2>1, EndsFacts
<1>13. ASSUME NEW e \in Ends, Broadcast PROVE Goal(e)
  <2> DEFINE p == Packet("log", 0)
  <2>1. p \in SentBy("client") /\ p.type = "log"
    BY SentTypes, PacketParts, EndsFacts
  <2>2. Produce("client", p) /\ UNCHANGED <<wire, version, stage>>
    BY <1>13 DEF Broadcast
  <2> HIDE DEF p
  <2>3. QED BY <1>4, <2>1, <2>2, EndsFacts
<1>14. ASSUME NEW e \in Ends, Place PROVE Goal(e)
  <2> DEFINE p == Execute(Head(input))
  <2>1. p \in SentBy("server")
    <3>1. input # <<>> /\ input \in Seq(Jobs)
      BY <1>14 DEF Place, TypeOK
    <3>2. Head(input) \in Jobs
      BY <3>1
    <3>3. QED BY <3>2, SentTypes, EndsFacts
  <2>2. /\ Produce("server", p) /\ UNCHANGED <<wire, version, stage>>
        /\ stage["server"] = "open"
    BY <1>14 DEF Place, Execute
  <2> HIDE DEF p
  <2>3. QED BY <1>4, <2>1, <2>2, EndsFacts
<1>15. ASSUME NEW c \in Children, NEW e \in Ends, Done(c) PROVE Goal(e)
  <2> DEFINE p == Completed(Head(commands[c]))
  <2>1. commands[c] # <<>> /\ commands[c] \in Seq(Jobs)
    BY <1>15 DEF Done, TypeOK
  <2>2. p \in SentBy("client")
    <3>1. Head(commands[c]) \in Jobs
      BY <2>1
    <3>2. QED BY <3>1, SentTypes, EndsFacts
  <2>3. stage["client"] = "open"
    BY <1>1, <2>1, EndsFacts DEF PhaseInv, TypeOK
  <2>4. Produce("client", p) /\ UNCHANGED <<wire, version, stage>>
    BY <1>15 DEF Done, ReportOf, Completed
  <2> HIDE DEF p
  <2>5. QED BY <1>4, <2>2, <2>3, <2>4, EndsFacts
<1>16. ASSUME NEW e \in Ends, Redistribute \/ ClientClose PROVE Goal(e)
  <2>1. Quiet(e)
    BY <1>16 DEF Redistribute, ClientClose, TypeOK
  <2>2. QED BY <1>3, <2>1
<1>17. ASSUME NEW e \in Ends, PlaceLocal \/ Consume \/ ChildEnd \/ Panic \/ Terminated PROVE Goal(e)
  <2>1. Quiet(e)
    BY <1>17 DEF PlaceLocal, Consume, ChildEnd, Panic, Terminated, vars, linkVars
  <2>2. QED BY <1>3, <2>1
<1>18. ASSUME NEW c \in Children, NEW e \in Ends, Give(c) \/ ResendAfterClose(c) PROVE Goal(e)
  <2>1. Quiet(e)
    BY <1>18 DEF Give, ResendAfterClose, linkVars
  <2>2. QED BY <1>3, <2>1
<1>19. QED
  BY <1>1, <1>6, <1>7, <1>8, <1>9, <1>10, <1>11, <1>12, <1>13, <1>14, <1>15, <1>16, <1>17, <1>18
  DEF Next

-----------------------------------------------------------------------------
(* The first of different jobs is not among the rest of them.               *)
LEMMA DistinctTail ==
  ASSUME NEW S, NEW s \in Seq(S), s # <<>>, IsInjective(s)
  PROVE  /\ IsInjective(Tail(s)) /\ ToSet(Tail(s)) \subseteq ToSet(s)
         /\ Head(s) \in ToSet(s) /\ Head(s) \notin ToSet(Tail(s))
<1> DEFINE t == Tail(s)
           n == Len(s)
<1>1. /\ n \in Nat \ {0} /\ DOMAIN s = 1 .. n /\ DOMAIN t = 1 .. n - 1
      /\ \A i \in 1 .. n - 1 : t[i] = s[i + 1]
      /\ Head(s) = s[1]
  OBVIOUS
<1>2. \A a, b \in 1 .. n : s[a] = s[b] => a = b
  BY <1>1 DEF IsInjective
<1> HIDE DEF t, n
<1>3. IsInjective(t)
  <2>1. \A a, b \in 1 .. n - 1 : t[a] = t[b] => a = b
    BY <1>1, <1>2
  <2>2. QED BY <1>1, <2>1 DEF IsInjective
<1>4. ASSUME NEW i \in 1 .. n - 1 PROVE t[i] \in ToSet(s) /\ t[i] # s[1]
  <2>1. i + 1 \in 1 .. n /\ 1 \in 1 .. n /\ i + 1 # 1
    BY <1>1
  <2>2. s[i + 1] \in ToSet(s)
    BY <1>1, <2>1 DEF ToSet
  <2>3. QED BY <1>1, <1>2, <2>1, <2>2
<1>5. ToSet(t) \subseteq ToSet(s) /\ Head(s) \notin ToSet(t)
  BY <1>1, <1>4 DEF ToSet
<1>6. Head(s) \in ToSet(s)
  BY <1>1 DEF ToSet
<1>7. QED BY <1>3, <1>5, <1>6 DEF t

(* No job is placed, printed or given back twice, and none is forgotten, ... *)
LEMMA PlacedStep ==
  ASSUME TypeOK, PlacedOnce, Next
  PROVE  PlacedOnce'
<1>1. ASSUME UNCHANGED <<input, work, placed, answered, returned>> PROVE PlacedOnce'
  BY <1>1 DEF PlacedOnce, Partition
<1>2. ASSUME Place \/ PlaceLocal PROVE PlacedOnce'
  <2> DEFINE j == Head(input)
             rest == Tail(input)
  <2>1. input \in Seq(Jobs) /\ input # <<>> /\ input' = rest /\ IsInjective(input)
    BY <1>2 DEF Place, PlaceLocal, TypeOK, PlacedOnce
  <2>2. /\ IsInjective(rest) /\ ToSet(rest) \subseteq ToSet(input)
        /\ j \in ToSet(input) /\ j \notin ToSet(rest)
    BY <2>1, DistinctTail
  <2>3. /\ \/ work' = work /\ placed' = placed
           \/ work' = work \cup {j} /\ placed' = placed \cup {j}
        /\ answered' = answered /\ returned' = returned
    BY <1>2 DEF Place, PlaceLocal
  <2> HIDE DEF j, rest
  <2>4. QED BY <2>1, <2>2, <2>3 DEF PlacedOnce, Partition
<1>3. ASSUME ReceiveCompleted PROVE PlacedOnce'
  <2> DEFINE j == Arriving("server").content
  <2>1. /\ work' = work \ {j} /\ input' = input /\ placed' = placed /\ returned' = returned
        /\ answered' = IF j \in work THEN answered \cup {j} ELSE answered
    BY <1>3 DEF ReceiveCompleted, Erased
  <2> HIDE DEF j
  <2>2. QED BY <2>1 DEF PlacedOnce, Partition
<1>4. ASSUME Redistribute PROVE PlacedOnce'
  BY <1>4 DEF Redistribute, PlacedOnce, Partition
<1>5. ASSUME NEW e \in Ends,
             Live(e) \/ Announce(e) \/ Send(e) \/ ReceiveVersion(e) \/ ReceiveOther(e)
      PROVE  PlacedOnce'
  BY <1>1, <1>5 DEF Live, Announce, Send, ReceiveVersion, ReceiveOther, serverVars
<1>6. ASSUME NEW c \in Children, Give(c) \/ Done(c) \/ ResendAfterClose(c) PROVE PlacedOnce'
  BY <1>1, <1>6 DEF Give, Done, ResendAfterClose, serverVars
<1>7. ASSUME ReceiveExecute \/ Broadcast \/ CloseAll \/ Cut PROVE PlacedOnce'
  BY <1>1, <1>7 DEF ReceiveExecute, Broadcast, CloseAll, Cut, serverVars
<1>8. ASSUME Consume \/ ClientClose \/ ChildEnd \/ Panic \/ Terminated PROVE PlacedOnce'
  BY <1>1, <1>8 DEF Consume, ClientClose, ChildEnd, Panic, Terminated, vars, serverVars
<1>9. QED BY <1>2, <1>3, <1>4, <1>5, <1>6, <1>7, <1>8 DEF Next

(* ... and the server ends with an empty work map, after giving jobs back   *)
(* only if the connection was cut.                                          *)
LEMMA SettledStep ==
  ASSUME TypeOK, SettledInv, Next
  PROVE  SettledInv'
<1>1. ASSUME UNCHANGED <<work, returned, up, cut>>, stage'["server"] = stage["server"]
      PROVE  SettledInv'
  BY <1>1 DEF SettledInv
<1>2. ASSUME NEW e \in Ends, Live(e) \/ Announce(e) PROVE SettledInv'
  <2>1. UNCHANGED <<work, returned, up, cut>>
    BY <1>2 DEF Live, Announce, serverVars
  <2>2. /\ stage[e] \in {"new", "live"} /\ stage \in [Ends -> {"new", "live", "open", "ended"}]
        /\ \/ stage' = [stage EXCEPT ![e] = "live"]
           \/ stage' = [stage EXCEPT ![e] = "open"]
    BY <1>2 DEF Live, Announce, TypeOK
  <2>3. /\ stage[e] # "ended" /\ stage'[e] # "ended"
        /\ "server" # e => stage'["server"] = stage["server"]
    BY <2>2, EndsFacts
  <2>4. QED BY <2>1, <2>3 DEF SettledInv
<1>3. ASSUME Place \/ ReceiveCompleted PROVE SettledInv'
  <2>1. UNCHANGED <<stage, returned, up, cut>> /\ stage["server"] = "open"
    BY <1>3 DEF Place, ReceiveCompleted, Arrives
  <2>2. QED BY <2>1 DEF SettledInv
<1>4. ASSUME CloseAll PROVE SettledInv'
  <2>1. work' = {} /\ returned' = returned /\ cut' = cut /\ stage'["server"] = "ended"
    BY <1>4, EndsFacts DEF CloseAll, ServerDone, TypeOK, serverVars
  <2>2. QED BY <2>1 DEF SettledInv
<1>5. ASSUME Cut PROVE SettledInv'
  BY <1>5 DEF Cut, SettledInv, serverVars
<1>6. ASSUME Redistribute PROVE SettledInv'
  <2>1. work' = {} /\ UNCHANGED <<up, cut>> /\ stage'["server"] = "ended"
    BY <1>6, EndsFacts DEF Redistribute, TypeOK
  <2>2. cut
    BY <1>6 DEF Redistribute, SettledInv
  <2>3. QED BY <2>1, <2>2 DEF SettledInv
<1>7. ASSUME NEW e \in Ends, Send(e) \/ ReceiveVersion(e) \/ ReceiveOther(e) PROVE SettledInv'
  BY <1>1, <1>7 DEF Send, ReceiveVersion, ReceiveOther, serverVars
<1>8. ASSUME NEW c \in Children, Give(c) \/ Done(c) \/ ResendAfterClose(c) PROVE SettledInv'
  BY <1>1, <1>8 DEF Give, Done, ResendAfterClose, serverVars, linkVars
<1>9. ASSUME ClientClose PROVE SettledInv'
  <2>1. UNCHANGED <<work, returned, up, cut>> /\ stage'["server"] = stage["server"]
    BY <1>9, EndsFacts DEF ClientClose, TypeOK, serverVars
  <2>2. QED BY <1>1, <2>1
<1>10. ASSUME ReceiveExecute \/ Broadcast \/ PlaceLocal PROVE SettledInv'
  BY <1>1, <1>10 DEF ReceiveExecute, Broadcast, PlaceLocal, serverVars, linkVars
<1>11. ASSUME Consume \/ ChildEnd \/ Panic \/ Terminated PROVE SettledInv'
  BY <1>1, <1>11 DEF Consume, ChildEnd, Panic, Terminated, vars, serverVars, linkVars
<1>12. QED BY <1>2, <1>3, <1>4, <1>5, <1>6, <1>7, <1>8, <1>9, <1>10, <1>11 DEF Next

-----------------------------------------------------------------------------
(* A prefix has no more copies.                                             *)
LEMMA CopiesPrefix ==
  ASSUME NEW S, NEW s \in Seq(S), NEW n \in 0 .. Len(s), NEW x
  PROVE  Copies(SubSeq(s, 1, n), x) <= Copies(s, x)
<1> DEFINE t == SubSeq(s, 1, n)
<1>1. /\ n <= Len(s) /\ n \in Nat /\ Len(s) \in Nat /\ Len(t) = n
      /\ \A i \in 1 .. n : t[i] = s[i]
  OBVIOUS
<1> HIDE DEF t
<1>2. At(t, x) \subseteq At(s, x)
  BY <1>1 DEF At
<1>3. IsFiniteSet(At(s, x))
  BY CopiesType
<1>4. Copies(t, x) <= Copies(s, x)
  BY <1>2, <1>3, FS_Subset DEF Copies
<1>5. QED BY <1>4 DEF t

(* The copies of a packet in the queues or on the wires of the two ends ... *)
LEMMA PackedCopies ==
  ASSUME NEW s, Packed(s), NEW d \in Ends, NEW x
  PROVE  Copies(s[d], x) \in Nat
<1>1. s[d] \in Seq(SentBy(d))
  BY DEF Packed
<1>2. QED BY <1>1, CopiesType

(* ... when one is queued, ...                                              *)
LEMMA QueuedCopies ==
  ASSUME TypeOK, StreamsInv, NEW e \in Ends, NEW p \in SentBy(e), Produce(e, p),
         NEW d \in Ends, NEW x
  PROVE  Copies(queue'[d], x) = Copies(queue[d], x) + IF d = e /\ p = x THEN 1 ELSE 0
<1>1. /\ queue[e] \in Seq(SentBy(e)) /\ queue[d] \in Seq(SentBy(d))
      /\ queue' = [queue EXCEPT ![e] = Append(@, p)] /\ DOMAIN queue = Ends
  BY DEF Produce, TypeOK, StreamsInv
<1>2. Copies(queue[d], x) \in Nat
  BY <1>1, CopiesType
<1>3. CASE d # e
  <2>1. queue'[d] = queue[d]
    BY <1>1, <1>3
  <2>2. QED BY <1>2, <1>3, <2>1
<1>4. CASE d = e
  <2>1. queue'[d] = Append(queue[e], p)
    BY <1>1, <1>4
  <2>2. Copies(Append(queue[e], p), x) = Copies(queue[e], x) + IF p = x THEN 1 ELSE 0
    BY <1>1, CopiesAppend
  <2>3. QED BY <1>4, <2>1, <2>2
<1>5. QED BY <1>3, <1>4

(* ... received, ...                                                        *)
LEMMA ReceivedCopies ==
  ASSUME TypeOK, StreamsInv, NEW e \in Ends, wire[Other(e)] # <<>>, Received(e),
         NEW d \in Ends, NEW x
  PROVE  Copies(wire'[d], x) =
           Copies(wire[d], x) - IF d = Other(e) /\ Arriving(e) = x THEN 1 ELSE 0
<1> DEFINE o == Other(e)
<1>1. /\ wire[o] \in Seq(SentBy(o)) /\ wire[d] \in Seq(SentBy(d)) /\ o \in Ends /\ wire[o] # <<>>
      /\ wire' = [wire EXCEPT ![o] = Tail(@)] /\ DOMAIN wire = Ends
      /\ Arriving(e) = Head(wire[o])
  BY EndsFacts DEF Received, Arriving, TypeOK, StreamsInv
<1> HIDE DEF o
<1>2. Copies(wire[d], x) \in Nat
  BY <1>1, CopiesType
<1>3. CASE d # o
  <2>1. wire'[d] = wire[d]
    BY <1>1, <1>3
  <2>2. QED BY <1>2, <1>3, <2>1 DEF o
<1>4. CASE d = o
  <2>1. wire'[d] = Tail(wire[o])
    BY <1>1, <1>4
  <2>2. Copies(Tail(wire[o]), x) = Copies(wire[o], x) - IF Head(wire[o]) = x THEN 1 ELSE 0
    BY <1>1, CopiesTail
  <2>3. Copies(wire'[d], x) = Copies(wire[d], x) - IF Arriving(e) = x THEN 1 ELSE 0
    BY <1>1, <1>4, <2>1, <2>2
  <2>4. QED BY <1>4, <2>3 DEF o
<1>5. QED BY <1>3, <1>4

(* ... or sent.                                                             *)
LEMMA SentCopies ==
  ASSUME TypeOK, StreamsInv, NEW e \in Ends, Send(e), NEW d \in Ends, NEW x
  PROVE  /\ Copies(queue'[d], x) =
              Copies(queue[d], x) - IF d = e /\ Head(queue[e]) = x THEN 1 ELSE 0
         /\ Copies(wire'[d], x) =
              Copies(wire[d], x) + IF d = e /\ Head(queue[e]) = x THEN 1 ELSE 0
<1> DEFINE p == Head(queue[e])
<1>1. /\ queue[e] \in Seq(SentBy(e)) /\ queue[d] \in Seq(SentBy(d)) /\ queue[e] # <<>>
      /\ wire[e] \in Seq(SentBy(e)) /\ wire[d] \in Seq(SentBy(d))
      /\ queue' = [queue EXCEPT ![e] = Tail(@)] /\ wire' = [wire EXCEPT ![e] = Append(@, p)]
      /\ DOMAIN queue = Ends /\ DOMAIN wire = Ends
  BY DEF Send, TypeOK, StreamsInv
<1>2. p \in SentBy(e)
  BY <1>1
<1> HIDE DEF p
<1>3. Copies(queue[d], x) \in Nat /\ Copies(wire[d], x) \in Nat
  BY <1>1, CopiesType
<1>4. CASE d # e
  <2>1. queue'[d] = queue[d] /\ wire'[d] = wire[d]
    BY <1>1, <1>4
  <2>2. QED BY <1>3, <1>4, <2>1
<1>5. CASE d = e
  <2>1. queue'[d] = Tail(queue[e]) /\ wire'[d] = Append(wire[e], p)
    BY <1>1, <1>5
  <2>2. Copies(Tail(queue[e]), x) = Copies(queue[e], x) - IF Head(queue[e]) = x THEN 1 ELSE 0
    BY <1>1, CopiesTail
  <2>3. Copies(Append(wire[e], p), x) = Copies(wire[e], x) + IF p = x THEN 1 ELSE 0
    BY <1>1, <1>2, CopiesAppend
  <2>4. QED BY <1>5, <2>1, <2>2, <2>3 DEF p
<1>6. QED BY <1>4, <1>5

-----------------------------------------------------------------------------
(* Where the copies of a job are, and those among them at the client.       *)
LEMMA CountParts ==
  ASSUME TypeOK, StreamsInv, NEW j
  PROVE  /\ Copies(queue["server"], Execute(j)) \in Nat /\ Copies(wire["server"], Execute(j)) \in Nat
         /\ Copies(overspill, j) \in Nat /\ Copies(hand, j) \in Nat
         /\ TotalCopies(commands, Children, j) \in Nat
         /\ Copies(queue["client"], Completed(j)) \in Nat /\ Copies(wire["client"], Completed(j)) \in Nat
         /\ Count(j) = Copies(queue["server"], Execute(j)) + Copies(wire["server"], Execute(j))
                         + Copies(overspill, j) + Copies(hand, j)
                         + TotalCopies(commands, Children, j)
                         + Copies(queue["client"], Completed(j))
                         + Copies(wire["client"], Completed(j))
         /\ Count(j) \in Nat /\ AtClient(j) \in Nat /\ AtClient(j) <= Count(j)
<1>1. Packed(queue) /\ Packed(wire)
  BY DEF TypeOK, StreamsInv, Packed
<1>2. /\ Copies(queue["server"], Execute(j)) \in Nat /\ Copies(wire["server"], Execute(j)) \in Nat
      /\ Copies(queue["client"], Completed(j)) \in Nat /\ Copies(wire["client"], Completed(j)) \in Nat
  BY <1>1, PackedCopies, EndsFacts
<1>3. Copies(overspill, j) \in Nat /\ Copies(hand, j) \in Nat
  BY CopiesType DEF TypeOK
<1>4. TotalCopies(commands, Children, j) \in Nat
  <2>1. IsFiniteSet(Children)
    BY NetChildrenAssumption, FS_Interval DEF Children
  <2>2. \A c \in Children : commands[c] \in Seq(Jobs)
    BY DEF TypeOK
  <2>3. QED BY <2>1, <2>2, TotalCopiesType
<1>5. Count(j) = Copies(queue["server"], Execute(j)) + Copies(wire["server"], Execute(j))
                   + Copies(overspill, j) + Copies(hand, j)
                   + TotalCopies(commands, Children, j)
                   + Copies(queue["client"], Completed(j))
                   + Copies(wire["client"], Completed(j))
  BY DEF Count, Execute, Completed
<1>6. \A a, b, c, d, e, f, g \in Nat :
        /\ a + b + c + d + e + f + g \in Nat /\ b + c + d + e \in Nat
        /\ b + c + d + e <= a + b + c + d + e + f + g
  OBVIOUS
<1>7. Count(j) \in Nat /\ AtClient(j) \in Nat /\ AtClient(j) <= Count(j)
  BY <1>2, <1>3, <1>4, <1>5, <1>6 DEF AtClient
<1>8. QED BY <1>2, <1>3, <1>4, <1>5, <1>7

(* The copies in the rings, when the ring of a child changes.               *)
LEMMA RingCopies ==
  ASSUME NEW q \in [Children -> Seq(Jobs)], NEW c \in Children, NEW v \in Seq(Jobs), NEW j
  PROVE  TotalCopies([q EXCEPT ![c] = v], Children, j) =
           TotalCopies(q, Children, j) - Copies(q[c], j) + Copies(v, j)
<1> DEFINE r == [q EXCEPT ![c] = v]
<1>1. IsFiniteSet(Children)
  BY NetChildrenAssumption, FS_Interval DEF Children
<1>2. /\ \A d \in Children : q[d] \in Seq(Jobs) /\ r[d] \in Seq(Jobs)
      /\ \A d \in Children \ {c} : r[d] = q[d]
      /\ r[c] = v
  OBVIOUS
<1> HIDE DEF r
<1>3. TotalCopies(r, Children, j) = TotalCopies(q, Children, j) - Copies(q[c], j) + Copies(r[c], j)
  BY <1>1, <1>2, TotalCopiesUpdate, SMTT(30)
<1>4. QED BY <1>2, <1>3 DEF r

(* A sequence of one element.                                               *)
LEMMA Singleton ==
  ASSUME NEW S, NEW s \in Seq(S), s # <<>>, Len(s) <= 1
  PROVE  s[1] \in S /\ s = <<s[1]>>
<1>1. Len(s) = 1 /\ s[1] \in S
  OBVIOUS
<1> DEFINE t == <<s[1]>>
<1>2. t \in Seq(S) /\ Len(t) = 1 /\ t[1] = s[1]
  BY <1>1
<1> HIDE DEF t
<1>3. s = t
  BY <1>1, <1>2, SeqEqual
<1>4. QED BY <1>1, <1>3 DEF t

(* A packet other than a job's leaves the job's copies alone.               *)
NotOf(p, j) == p # Execute(j) /\ p # Completed(j)

(* No step loses or duplicates a job while the connection is up, and when   *)
(* it is not, no job gets to the client that is not on its way.             *)
LEMMA FlowStep ==
  ASSUME TypeOK, StreamsInv, PhaseInv, VersionsInv, PlacedOnce, WorkInFlight, Next,
         NEW j \in Jobs
  PROVE  /\ up' => (Count(j) = IF j \in work THEN 1 ELSE 0)'
         /\ ~up' => AtClient(j)' <= AtClient(j)
         /\ AtClient(j)' \in Nat
<1> DEFINE Q == Copies(queue["server"], Execute(j))
           W == Copies(wire["server"], Execute(j))
           O == Copies(overspill, j)
           H == Copies(hand, j)
           R == TotalCopies(commands, Children, j)
           A == Copies(queue["client"], Completed(j))
           B == Copies(wire["client"], Completed(j))
           In == IF j \in work THEN 1 ELSE 0
           Goal == /\ up' => Q' + W' + O' + H' + R' + A' + B' + In = Q + W + O + H + R + A + B + In'
                   /\ ~up' => W' + O' + H' + R' <= W + O + H + R
<1>1. /\ Q \in Nat /\ W \in Nat /\ O \in Nat /\ H \in Nat /\ R \in Nat /\ A \in Nat /\ B \in Nat
      /\ Count(j) = Q + W + O + H + R + A + B
      /\ AtClient(j) = W + O + H + R
      /\ In \in {0, 1}
      /\ up => Count(j) = In
  BY CountParts DEF AtClient, WorkInFlight
<1>2. /\ TypeOK' /\ StreamsInv'
      /\ Packed(queue) /\ Packed(wire)
  BY TypeStep DEF TypeOK, StreamsInv, Packed
<1>3. /\ Q' \in Nat /\ W' \in Nat /\ O' \in Nat /\ H' \in Nat /\ R' \in Nat /\ A' \in Nat /\ B' \in Nat
      /\ In' \in {0, 1}
  <2>1. Packed(queue') /\ Packed(wire')
    BY StreamsStep
  <2>2. Q' \in Nat /\ W' \in Nat /\ A' \in Nat /\ B' \in Nat
    BY <2>1, PackedCopies, EndsFacts
  <2>3. O' \in Nat /\ H' \in Nat
    BY <1>2, CopiesType DEF TypeOK
  <2>4. R' \in Nat
    <3>1. IsFiniteSet(Children)
      BY NetChildrenAssumption, FS_Interval DEF Children
    <3>2. \A c \in Children : commands'[c] \in Seq(Jobs)
      BY <1>2 DEF TypeOK
    <3>3. QED BY <3>1, <3>2, TotalCopiesType
  <2>5. QED BY <2>2, <2>3, <2>4
<1>4. ASSUME NEW e \in Ends, NEW p \in SentBy(e), Produce(e, p)
      PROVE  /\ Q' = Q + IF "server" = e /\ p = Execute(j) THEN 1 ELSE 0
             /\ A' = A + IF "client" = e /\ p = Completed(j) THEN 1 ELSE 0
  <2>1. \A d \in Ends : \A x :
          Copies(queue'[d], x) = Copies(queue[d], x) + IF d = e /\ p = x THEN 1 ELSE 0
    BY <1>4, QueuedCopies
  <2>2. QED BY <2>1, EndsFacts, Zenon
<1>5. ASSUME NEW e \in Ends, wire[Other(e)] # <<>>, Received(e)
      PROVE  /\ W' = W - IF "server" = Other(e) /\ Arriving(e) = Execute(j) THEN 1 ELSE 0
             /\ B' = B - IF "client" = Other(e) /\ Arriving(e) = Completed(j) THEN 1 ELSE 0
  <2>1. \A d \in Ends : \A x :
          Copies(wire'[d], x) = Copies(wire[d], x) - IF d = Other(e) /\ Arriving(e) = x THEN 1 ELSE 0
    BY <1>5, ReceivedCopies
  <2>2. QED BY <2>1, EndsFacts, Zenon
<1>6. ASSUME UNCHANGED <<overspill, hand, commands>>
      PROVE  O' = O /\ H' = H /\ R' = R
  BY <1>6
<1>7. /\ UNCHANGED queue => Q' = Q /\ A' = A
      /\ UNCHANGED wire => W' = W /\ B' = B
      /\ UNCHANGED work => In' = In
  OBVIOUS
<1>8. Goal => /\ up' => Q' + W' + O' + H' + R' + A' + B' = In'
              /\ ~up' => W' + O' + H' + R' <= W + O + H + R
  <2> HIDE DEF Q, W, O, H, R, A, B, In
  <2>1. ASSUME Goal, up' PROVE Q' + W' + O' + H' + R' + A' + B' = In'
    <3> DEFINE t == Q' + W' + O' + H' + R' + A' + B'
               s == Q + W + O + H + R + A + B
    <3>1. \A q, w, o, h, r, a, b \in Nat : q + w + o + h + r + a + b \in Nat
      OBVIOUS
    <3>2. t \in Nat
      BY <1>3, <3>1
    <3>3. s = In
      BY <1>1, <2>1, NeverReopened
    <3>4. t + In = s + In'
      BY <2>1
    <3> HIDE DEF t, s
    <3>5. In \in Nat /\ In' \in Nat
      BY <1>1, <1>3
    <3>6. \A x, y, z, v \in Nat : x + y = z + v /\ z = y => x = v
      OBVIOUS
    <3>7. t = In'
      BY <3>2, <3>3, <3>4, <3>5, <3>6
    <3>8. QED BY <3>7 DEF t
  <2>2. QED BY <2>1
<1> HIDE DEF Q, W, O, H, R, A, B, In
<1>9. ASSUME UNCHANGED <<queue, wire, overspill, hand, commands, work>> PROVE Goal
  BY <1>1, <1>6, <1>7, <1>9
<1>10. ASSUME NEW e \in Ends, NEW p \in SentBy(e), Produce(e, p), NotOf(p, j),
              UNCHANGED <<wire, overspill, hand, commands, work>>
       PROVE  Goal
  <2>1. Q' = Q /\ A' = A
    BY <1>1, <1>4, <1>10 DEF NotOf
  <2>2. QED BY <1>1, <1>6, <1>7, <1>10, <2>1
<1>11. ASSUME NEW e \in Ends, wire[Other(e)] # <<>>, Received(e),
              up' => NotOf(Arriving(e), j),
              UNCHANGED <<queue, overspill, hand, commands, work>>
       PROVE  Goal
  <2>1. Q' = Q /\ A' = A /\ O' = O /\ H' = H /\ R' = R /\ In' = In
    BY <1>6, <1>7, <1>11
  <2>2. W' <= W
    BY <1>1, <1>5, <1>11
  <2>3. up' => W' = W /\ B' = B
    BY <1>1, <1>5, <1>11 DEF NotOf
  <2>4. \A w, v, o, h, r \in Nat : v <= w => v + o + h + r <= w + o + h + r
    OBVIOUS
  <2>5. W' + O' + H' + R' <= W + O + H + R
    BY <1>1, <1>3, <2>1, <2>2, <2>4
  <2>6. ASSUME up' PROVE Q' + W' + O' + H' + R' + A' + B' + In = Q + W + O + H + R + A + B + In'
    BY <2>1, <2>3, <2>6
  <2>7. QED BY <2>5, <2>6
<1> HIDE DEF Goal
<1>12. ASSUME NEW e \in Ends, Announce(e) PROVE Goal
  <2> DEFINE p == Packet("version", AnnouncedBy(e))
  <2>1. p \in SentBy(e) /\ NotOf(p, j)
    BY SentTypes, PacketParts DEF NotOf
  <2>2. Produce(e, p) /\ UNCHANGED <<wire, overspill, hand, commands, work>>
    BY <1>12 DEF Announce, serverVars, clientVars
  <2> HIDE DEF p
  <2>3. QED BY <1>10, <2>1, <2>2
<1>13. ASSUME Broadcast PROVE Goal
  <2> DEFINE p == Packet("log", 0)
  <2>1. p \in SentBy("client") /\ NotOf(p, j)
    BY SentTypes, PacketParts, EndsFacts, ZenonT(60) DEF NotOf
  <2>2. Produce("client", p) /\ UNCHANGED <<wire, overspill, hand, commands, work>>
    BY <1>13 DEF Broadcast, serverVars, clientVars
  <2> HIDE DEF p
  <2>3. QED BY <1>10, <2>1, <2>2, EndsFacts
<1>14. ASSUME NEW e \in Ends, ReceiveVersion(e) PROVE Goal
  <2>1. /\ wire[Other(e)] # <<>> /\ Received(e) /\ Arriving(e).type = "version"
        /\ UNCHANGED <<queue, overspill, hand, commands, work>>
    BY <1>14 DEF ReceiveVersion, Arrives, clientVars
  <2>2. NotOf(Arriving(e), j)
    BY <2>1, PacketParts DEF NotOf
  <2>3. QED BY <1>11, <2>1, <2>2
<1>15. ASSUME NEW e \in Ends, ReceiveOther(e) PROVE Goal
  <2>1. /\ wire[Other(e)] # <<>> /\ Received(e) /\ Arrives(e)
        /\ Arriving(e).type = "log" \/ ~Understood(e, Arriving(e))
        /\ UNCHANGED <<queue, overspill, hand, commands, work>>
    BY <1>15 DEF ReceiveOther, Arrives, clientVars, serverVars
  <2>2. ASSUME up' PROVE NotOf(Arriving(e), j)
    <3>1. up
      BY <2>2, NeverReopened
    <3>2. Arriving(e).type \notin {"execute", "completed"}
      BY <2>1, <3>1, JobsAreUnderstood
    <3>3. QED BY <3>2, PacketParts DEF NotOf
  <2>3. QED BY <1>11, <2>1, <2>2
<1>16. ASSUME NEW e \in Ends, Send(e) PROVE Goal
  <2>1. /\ queue[e] # <<>> /\ up' /\ wire' = [wire EXCEPT ![e] = Append(@, Head(queue[e]))]
        /\ queue' = [queue EXCEPT ![e] = Tail(@)]
        /\ UNCHANGED <<overspill, hand, commands, work>>
    BY <1>16 DEF Send, serverVars, clientVars
  <2> DEFINE p == Head(queue[e])
             m == IF "server" = e /\ p = Execute(j) THEN 1 ELSE 0
             n == IF "client" = e /\ p = Completed(j) THEN 1 ELSE 0
  <2>2. p \in SentBy(e) /\ m \in {0, 1} /\ n \in {0, 1}
    BY <1>2, <2>1, PackedMoves
  <2>3. Q' = Q - m /\ A' = A - n /\ W' = W + m /\ B' = B + n
    <3>1. \A d \in Ends : \A x :
            /\ Copies(queue'[d], x) = Copies(queue[d], x) - IF d = e /\ p = x THEN 1 ELSE 0
            /\ Copies(wire'[d], x) = Copies(wire[d], x) + IF d = e /\ p = x THEN 1 ELSE 0
      BY <1>16, SentCopies
    <3>2. QED BY <3>1, EndsFacts, Zenon DEF Q, A, W, B
  <2> HIDE DEF p, m, n
  <2>4. O' = O /\ H' = H /\ R' = R /\ In' = In
    BY <1>6, <1>7, <2>1
  <2>5. QED BY <1>1, <2>1, <2>2, <2>3, <2>4 DEF Goal
<1>17. ASSUME ReceiveExecute PROVE Goal
  <2> DEFINE k == Arriving("client").content
             m == IF k = j THEN 1 ELSE 0
  <2>1. /\ wire[Other("client")] # <<>> /\ Received("client") /\ Arrives("client")
        /\ Arriving("client").type = "execute"
        /\ overspill' = Append(overspill, k)
        /\ UNCHANGED <<queue, hand, commands, work>>
    BY <1>17 DEF ReceiveExecute, Arrives, serverVars
  <2>2. Arriving("client") = Execute(k) /\ k \in Jobs
    BY <2>1, ArrivalTypes, EndsFacts
  <2>3. Arriving("client") = Execute(j) <=> k = j
    BY <2>2, PacketParts
  <2>4. W' = W - m /\ B' = B /\ m \in {0, 1}
    BY <1>1, <1>5, <2>1, <2>3, EndsFacts
  <2>5. O' = O + m
    <3>1. overspill \in Seq(Jobs)
      BY DEF TypeOK
    <3>2. QED BY <2>1, <2>2, <3>1, CopiesAppend DEF O
  <2>6. Q' = Q /\ A' = A /\ H' = H /\ R' = R /\ In' = In
    BY <1>7, <2>1 DEF H, R
  <2> HIDE DEF k, m
  <2>7. QED BY <1>1, <2>4, <2>5, <2>6 DEF Goal
<1>18. ASSUME ReceiveCompleted PROVE Goal
  <2> DEFINE k == Arriving("server").content
             m == IF k = j THEN 1 ELSE 0
  <2>1. /\ wire[Other("server")] # <<>> /\ Received("server") /\ Arrives("server")
        /\ Arriving("server").type = "completed"
        /\ work' = work \ {k}
        /\ UNCHANGED <<queue, overspill, hand, commands, up>>
    BY <1>18 DEF ReceiveCompleted, Arrives, Erased, clientVars
  <2>2. Arriving("server") = Completed(k) /\ k \in Jobs
    BY <2>1, ArrivalTypes, EndsFacts
  <2>3. Arriving("server") = Completed(j) <=> k = j
    BY <2>2, PacketParts
  <2>4. B' = B - m /\ W' = W /\ m \in {0, 1}
    BY <1>1, <1>5, <2>1, <2>3, EndsFacts
  <2>5. Q' = Q /\ A' = A /\ O' = O /\ H' = H /\ R' = R
    BY <1>6, <1>7, <2>1
  <2>6. ASSUME up' PROVE In' = In - m
    <3>1. CASE k = j
      <4>1. m = 1 /\ B \in Nat /\ B' \in Nat
        BY <1>1, <1>3, <3>1
      <4>2. B >= 1
        <5> HIDE DEF m
        <5>1. QED BY <2>4, <4>1
      <4>3. In # 0
        BY <1>1, <2>1, <2>6, <4>2
      <4>4. j \in work /\ j \notin work'
        BY <2>1, <3>1, <4>3 DEF In
      <4>5. QED BY <4>1, <4>4 DEF In
    <3>2. CASE k # j
      BY <2>1, <3>2 DEF In
    <3>3. QED BY <3>1, <3>2
  <2> HIDE DEF k, m
  <2>7. ASSUME up' PROVE Q' + W' + O' + H' + R' + A' + B' + In = Q + W + O + H + R + A + B + In'
    BY <1>1, <2>4, <2>5, <2>6, <2>7
  <2>8. W' + O' + H' + R' <= W + O + H + R
    BY <1>1, <2>4, <2>5
  <2>9. QED BY <2>7, <2>8 DEF Goal
<1>19. ASSUME Place PROVE Goal
  <2> DEFINE k == Head(input)
             m == IF k = j THEN 1 ELSE 0
  <2>1. /\ input # <<>> /\ input \in Seq(Jobs) /\ Produce("server", Execute(k))
        /\ work' = work \cup {k}
        /\ UNCHANGED <<wire, overspill, hand, commands>>
    BY <1>19 DEF Place, Execute, TypeOK, clientVars
  <2>2. k \in Jobs /\ Execute(k) \in SentBy("server")
    BY <2>1, SentTypes, EndsFacts
  <2>3. k \notin work
    BY <2>1, DistinctTail DEF PlacedOnce, Partition
  <2>4. Q' = Q + m /\ A' = A /\ m \in {0, 1}
    <3>1. Execute(k) = Execute(j) <=> k = j
      BY PacketParts
    <3>2. QED BY <1>1, <1>4, <2>1, <2>2, <3>1, EndsFacts
  <2>5. W' = W /\ B' = B /\ O' = O /\ H' = H /\ R' = R
    BY <1>6, <1>7, <2>1
  <2>6. In' = In + m
    BY <2>1, <2>3 DEF In
  <2> HIDE DEF k, m
  <2>7. QED BY <1>1, <1>3, <2>4, <2>5, <2>6 DEF Goal
<1>20. ASSUME CloseAll \/ Cut PROVE Goal
  <2>1. UNCHANGED <<overspill, hand, commands>> /\ ~up'
    BY <1>20 DEF CloseAll, Cut, clientVars
  <2>2. W' <= W
    <3>1. PICK m \in 0 .. Len(wire["server"]) : wire'["server"] = SubSeq(wire["server"], 1, m)
      <4>1. CASE CloseAll
        BY <4>1, EndsFacts DEF CloseAll, TypeOK
      <4>2. CASE Cut
        BY <4>2, EndsFacts DEF Cut, TypeOK
      <4>3. QED BY <1>20, <4>1, <4>2
    <3>2. wire["server"] \in Seq(Packets)
      BY EndsFacts DEF TypeOK
    <3>3. QED BY <3>1, <3>2, CopiesPrefix DEF W
  <2>3. \A w, v, o, h, r \in Nat : v <= w => v + o + h + r <= w + o + h + r
    OBVIOUS
  <2>4. W' + O' + H' + R' <= W + O + H + R
    BY <1>1, <1>3, <1>6, <2>1, <2>2, <2>3
  <2>5. QED BY <2>1, <2>4 DEF Goal
<1>21. ASSUME Redistribute PROVE Goal
  <2>1. UNCHANGED <<wire, overspill, hand, commands>> /\ ~up'
    BY <1>21 DEF Redistribute, clientVars
  <2>2. QED BY <1>1, <1>6, <1>7, <2>1 DEF Goal
<1>22. ASSUME Consume PROVE Goal
  <2> DEFINE k == Head(overspill)
             m == IF k = j THEN 1 ELSE 0
  <2>1. /\ overspill # <<>> /\ overspill \in Seq(Jobs) /\ hand = <<>> /\ hand' = <<k>>
        /\ overspill' = Tail(overspill)
        /\ UNCHANGED <<queue, wire, commands, work>>
    BY <1>22 DEF Consume, TypeOK, linkVars, serverVars
  <2>2. O' = O - m /\ m \in {0, 1}
    BY <2>1, CopiesTail DEF O
  <2>3. H = 0 /\ H' = m
    BY <2>1, CopiesEmpty, CopiesOne DEF H
  <2>4. Q' = Q /\ A' = A /\ W' = W /\ B' = B /\ R' = R /\ In' = In
    BY <1>7, <2>1 DEF R
  <2> HIDE DEF k, m
  <2>5. QED BY <1>1, <2>2, <2>3, <2>4 DEF Goal
<1>23. ASSUME NEW c \in Children, Give(c) PROVE Goal
  <2>1. UNCHANGED <<queue, wire, overspill, work>>
    BY <1>23 DEF Give, linkVars, serverVars
  <2>2. Q' = Q /\ A' = A /\ W' = W /\ B' = B /\ O' = O /\ In' = In
    BY <1>7, <2>1 DEF O
  <2>3. CASE UNCHANGED <<hand, commands>>
    <3>1. H' = H /\ R' = R
      BY <2>3 DEF H, R
    <3>2. QED BY <1>1, <2>2, <3>1 DEF Goal
  <2>4. CASE hand' = <<>> /\ commands' = [commands EXCEPT ![c] = Append(@, hand[1])]
    <3> DEFINE k == hand[1]
               m == IF k = j THEN 1 ELSE 0
    <3>1. hand \in Seq(Jobs) /\ hand # <<>> /\ Len(hand) <= 1
      BY <1>23 DEF Give, TypeOK
    <3>2. hand = <<k>> /\ k \in Jobs
      BY <3>1, Singleton
    <3> HIDE DEF k
    <3>3. H = m /\ m \in {0, 1} /\ H' = 0
      BY <2>4, <3>2, CopiesOne, CopiesEmpty DEF H
    <3>4. commands[c] \in Seq(Jobs) /\ commands \in [Children -> Seq(Jobs)]
      BY DEF TypeOK
    <3>5. /\ Copies(Append(commands[c], k), j) = Copies(commands[c], j) + m
          /\ Append(commands[c], k) \in Seq(Jobs) /\ Copies(commands[c], j) \in Nat
      BY <3>2, <3>4, CopiesAppend, CopiesType
    <3>6. commands' = [commands EXCEPT ![c] = Append(commands[c], k)]
      BY <2>4 DEF k
    <3>7. R' = R - Copies(commands[c], j) + Copies(Append(commands[c], k), j)
      BY <3>4, <3>5, <3>6, RingCopies DEF R
    <3> HIDE DEF m
    <3>8. R' = R + m
      BY <1>1, <3>3, <3>5, <3>7
    <3>9. QED BY <1>1, <2>2, <3>3, <3>8 DEF Goal
  <2>5. QED BY <1>23, <2>3, <2>4 DEF Give
<1>24. ASSUME NEW c \in Children, Done(c) PROVE Goal
  <2> DEFINE k == Head(commands[c])
             m == IF k = j THEN 1 ELSE 0
  <2>1. /\ commands[c] # <<>> /\ commands[c] \in Seq(Jobs) /\ commands \in [Children -> Seq(Jobs)]
        /\ commands' = [commands EXCEPT ![c] = Tail(@)]
        /\ Produce("client", Completed(k))
        /\ UNCHANGED <<wire, overspill, hand, work>>
    BY <1>24 DEF Done, ReportOf, Completed, TypeOK, serverVars
  <2>2. k \in Jobs /\ Tail(commands[c]) \in Seq(Jobs)
    BY <2>1
  <2>3. Completed(k) \in SentBy("client") /\ (Completed(k) = Completed(j) <=> k = j)
    BY <2>2, SentTypes, PacketParts, EndsFacts
  <2>4. Q' = Q /\ A' = A + m /\ m \in {0, 1}
    BY <1>1, <1>4, <2>1, <2>3, EndsFacts
  <2>5. W' = W /\ B' = B /\ O' = O /\ H' = H /\ In' = In
    BY <1>7, <2>1 DEF O, H
  <2>6. /\ Copies(Tail(commands[c]), j) = Copies(commands[c], j) - m
        /\ Copies(commands[c], j) \in Nat
    BY <2>1, CopiesTail, CopiesType
  <2>7. R' = R - Copies(commands[c], j) + Copies(Tail(commands[c]), j)
    BY <2>1, <2>2, RingCopies DEF R
  <2> HIDE DEF k, m
  <2>8. R' = R - m
    BY <1>1, <2>4, <2>6, <2>7
  <2>9. QED BY <1>1, <2>4, <2>5, <2>8 DEF Goal
<1>25. ASSUME NEW e \in Ends, Live(e) PROVE Goal
  BY <1>9, <1>25 DEF Live, serverVars, clientVars
<1>26. ASSUME PlaceLocal \/ ClientClose \/ ChildEnd \/ Panic \/ Terminated PROVE Goal
  BY <1>9, <1>26 DEF PlaceLocal, ClientClose, ChildEnd, Panic, Terminated, vars, serverVars,
     linkVars, clientVars
<1>27. ASSUME NEW c \in Children, ResendAfterClose(c) PROVE Goal
  BY <1>9, <1>27 DEF ResendAfterClose, serverVars, linkVars
<1>28. Goal
  BY <1>12, <1>13, <1>14, <1>15, <1>16, <1>17, <1>18, <1>19, <1>20, <1>21, <1>22, <1>23, <1>24,
     <1>25, <1>26, <1>27 DEF Next
<1>29. Count(j)' = Q' + W' + O' + H' + R' + A' + B' /\ AtClient(j)' = W' + O' + H' + R'
  BY DEF Count, AtClient, Q, W, O, H, R, A, B, Execute, Completed
<1>30. AtClient(j)' \in Nat
  <2>1. W' \in Nat /\ O' \in Nat /\ H' \in Nat /\ R' \in Nat
    BY <1>3
  <2>2. AtClient(j)' = W' + O' + H' + R'
    BY <1>29
  <2>3. \A w, o, h, r \in Nat : w + o + h + r \in Nat
    OBVIOUS
  <2>4. W' + O' + H' + R' \in Nat
    BY <2>1, <2>3
  <2>5. QED BY <2>2, <2>4
<1>31. QED BY <1>1, <1>8, <1>28, <1>29, <1>30 DEF In

-----------------------------------------------------------------------------
(* Only closing and cutting end a connection, and only cutting cuts it.     *)
LEMMA HowItEnds ==
  ASSUME Next
  PROVE  /\ up' = up \/ CloseAll \/ Cut
         /\ cut' = cut \/ Cut
<1> DEFINE Goal == (up' = up \/ CloseAll \/ Cut) /\ (cut' = cut \/ Cut)
<1>1. ASSUME Redistribute \/ ClientClose \/ CloseAll \/ Cut PROVE Goal
  BY <1>1 DEF Redistribute, ClientClose, CloseAll
<1>2. ASSUME NEW e \in Ends,
             Live(e) \/ Announce(e) \/ Send(e) \/ ReceiveVersion(e) \/ ReceiveOther(e)
      PROVE  Goal
  BY <1>2 DEF Live, Announce, Send, ReceiveVersion, ReceiveOther
<1>3. ASSUME ReceiveExecute \/ ReceiveCompleted \/ Broadcast \/ Place \/ PlaceLocal PROVE Goal
  BY <1>3 DEF ReceiveExecute, ReceiveCompleted, Broadcast, Place, PlaceLocal, linkVars
<1>4. ASSUME Consume \/ ChildEnd \/ Panic \/ Terminated PROVE Goal
  BY <1>4 DEF Consume, ChildEnd, Panic, Terminated, vars, linkVars
<1>5. ASSUME NEW c \in Children, Give(c) \/ Done(c) \/ ResendAfterClose(c) PROVE Goal
  BY <1>5 DEF Give, Done, ResendAfterClose, linkVars
<1>6. QED BY <1>1, <1>2, <1>3, <1>4, <1>5 DEF Next

(* The jobs at the client are those of a work map that the server has, ...  *)
LEMMA CoversWork ==
  ASSUME TypeOK, StreamsInv, PhaseInv, WorkInFlight, up
  PROVE  Covers(work)
<1>1. ASSUME NEW j \in Jobs PROVE AtClient(j) <= IF j \in work THEN 1 ELSE 0
  <2>1. Count(j) = IF j \in work THEN 1 ELSE 0
    BY DEF WorkInFlight
  <2>2. AtClient(j) <= Count(j)
    BY CountParts
  <2>3. QED BY <2>1, <2>2
<1>2. QED BY <1>1 DEF Covers, PhaseInv

(* ... or had when the connection ended.                                    *)
LEMMA BacklogStep ==
  ASSUME TypeOK, StreamsInv, PhaseInv, VersionsInv, PlacedOnce, WorkInFlight, BacklogInv, Next
  PROVE  BacklogInv'
<1> SUFFICES ASSUME ~up' PROVE (\E W \in SUBSET Jobs : Covers(W))'
  BY DEF BacklogInv
<1>1. PICK W \in SUBSET Jobs : Covers(W)
  <2>1. work \in SUBSET Jobs
    BY DEF TypeOK
  <2>2. CASE up
    BY <2>1, <2>2, CoversWork
  <2>3. CASE ~up
    BY <2>3 DEF BacklogInv
  <2>4. QED BY <2>2, <2>3
<1>2. ASSUME NEW j \in Jobs PROVE AtClient(j)' <= IF j \in W THEN 1 ELSE 0
  <2>1. AtClient(j)' <= AtClient(j) /\ AtClient(j)' \in Nat
    BY FlowStep
  <2>2. AtClient(j) <= (IF j \in W THEN 1 ELSE 0) /\ AtClient(j) \in Nat
    BY <1>1, CountParts DEF Covers
  <2>3. QED BY <2>1, <2>2
<1>3. Covers(W)'
  BY <1>1, <1>2 DEF Covers
<1>4. QED BY <1>3

(* A client with a job in its hand, or in a ring, has a job.                *)
LEMMA BusyClient ==
  ASSUME TypeOK, StreamsInv, hand # <<>> \/ \E c \in Children : commands[c] # <<>>
  PROVE  \E j \in Jobs : AtClient(j) # 0
<1>1. CASE hand # <<>>
  <2>1. hand \in Seq(Jobs) /\ Len(hand) <= 1 /\ hand[1] \in Jobs /\ 1 \in 1 .. Len(hand)
    BY <1>1 DEF TypeOK
  <2> DEFINE j == hand[1]
  <2>2. Copies(hand, j) > 0
    BY <2>1, CopiesPositive
  <2> HIDE DEF j
  <2>3. \A w, o, h, r \in Nat : h > 0 => w + o + h + r # 0
    OBVIOUS
  <2>4. AtClient(j) # 0
    BY <2>2, <2>3, CountParts DEF AtClient
  <2>5. QED BY <2>1, <2>4 DEF j
<1>2. CASE \E c \in Children : commands[c] # <<>>
  <2>1. PICK c \in Children : commands[c] # <<>>
    BY <1>2
  <2>2. commands[c] \in Seq(Jobs) /\ commands[c][1] \in Jobs /\ 1 \in 1 .. Len(commands[c])
    BY <2>1 DEF TypeOK
  <2> DEFINE j == commands[c][1]
  <2>3. <<c, 1>> \in AtAny(commands, Children, j)
    BY <2>2 DEF AtAny, At
  <2> HIDE DEF j
  <2>4. TotalCopies(commands, Children, j) # 0
    <3>1. IsFiniteSet(Children)
      BY NetChildrenAssumption, FS_Interval DEF Children
    <3>2. \A d \in Children : commands[d] \in Seq(Jobs)
      BY DEF TypeOK
    <3>3. IsFiniteSet(AtAny(commands, Children, j))
      BY <3>1, <3>2, TotalCopiesType
    <3>4. QED BY <2>3, <3>3, FS_EmptySet DEF TotalCopies
  <2>5. \A w, o, h, r \in Nat : r # 0 => w + o + h + r # 0
    OBVIOUS
  <2>6. AtClient(j) # 0
    BY <2>4, <2>5, CountParts DEF AtClient
  <2>7. QED BY <2>2, <2>6 DEF j
<1>3. QED BY <1>1, <1>2

(* A server that ends by itself leaves the client no job, so that no step   *)
(* of the client finds one at a child that it has closed.                   *)
LEMMA CleanStep ==
  ASSUME TypeOK, StreamsInv, PhaseInv, VersionsInv, PlacedOnce, WorkInFlight, CleanInv, Next
  PROVE  CleanInv'
<1>1. up \in BOOLEAN /\ cut \in BOOLEAN
  BY DEF TypeOK
<1>2. ASSUME ~up', ~cut', NEW j \in Jobs PROVE AtClient(j)' = 0
  <2>1. ~cut /\ ~Cut
    <3>1. Cut => cut'
      BY DEF Cut
    <3>2. QED BY <1>2, <3>1, HowItEnds
  <2>2. AtClient(j) = 0
    <3>1. CASE ~up
      BY <1>2, <2>1, <3>1 DEF CleanInv
    <3>2. CASE up
      <4>1. CloseAll
        BY <1>2, <2>1, <3>2, HowItEnds
      <4>2. work = {}
        BY <4>1 DEF CloseAll, ServerDone
      <4>3. Count(j) = 0
        BY <3>2, <4>2 DEF WorkInFlight
      <4>4. QED BY <4>3, CountParts
    <3>3. QED BY <3>1, <3>2
  <2>3. AtClient(j)' <= AtClient(j) /\ AtClient(j)' \in Nat
    BY <1>2, FlowStep
  <2>4. QED BY <2>2, <2>3
<1>3. ASSUME hand # <<>> \/ \E c \in Children : commands[c] # <<>>, closed # 0 PROVE cut
  <2>1. ~up
    BY <1>3 DEF PhaseInv
  <2>2. QED BY <1>1, <1>3, <2>1, BusyClient DEF CleanInv
<1>4. CleanClientEnd'
  <2> DEFINE Goal == main' \in {"exit4", "exit7"} => cut'
  <2>1. cut => cut'
    BY HowItEnds DEF Cut
  <2>2. ASSUME main' \notin {"exit4", "exit7"} \/ main' = main \/ cut PROVE Goal
    BY <2>1, <2>2 DEF CleanInv, CleanClientEnd
  <2> HIDE DEF Goal
  <2>3. ASSUME NEW c \in Children, Give(c) PROVE Goal
    <3>1. CASE c <= closed
      <4>1. closed # 0 /\ hand # <<>>
        BY <2>3, <3>1 DEF Give, Children, TypeOK
      <4>2. QED BY <1>3, <2>2, <4>1
    <3>2. CASE ~(c <= closed)
      BY <2>2, <2>3, <3>2 DEF Give
    <3>3. QED BY <3>1, <3>2
  <2>4. ASSUME NEW c \in Children, ResendAfterClose(c) PROVE Goal
    <3>1. closed # 0 /\ commands[c] # <<>>
      BY <2>4 DEF ResendAfterClose, Children, TypeOK
    <3>2. QED BY <1>3, <2>2, <3>1
  <2>5. ASSUME Panic PROVE Goal
    <3>1. closed # 0 /\ commands[closed] # <<>> /\ closed \in Children
      BY <2>5 DEF Panic, PhaseInv, Children, TypeOK
    <3>2. QED BY <1>3, <2>2, <3>1
  <2>6. ASSUME ChildEnd \/ ClientClose PROVE Goal
    <3>1. main' = main \/ main' = "ended" \/ main' = "close"
      BY <2>6 DEF ChildEnd, ClientClose
    <3>2. QED BY <2>2, <3>1
  <2>7. ASSUME NEW e \in Ends,
               Live(e) \/ Announce(e) \/ Send(e) \/ ReceiveVersion(e) \/ ReceiveOther(e)
        PROVE  Goal
    BY <2>2, <2>7 DEF Live, Announce, Send, ReceiveVersion, ReceiveOther, clientVars
  <2>8. ASSUME ReceiveExecute \/ ReceiveCompleted \/ Broadcast \/ Place \/ PlaceLocal PROVE Goal
    BY <2>2, <2>8 DEF ReceiveExecute, ReceiveCompleted, Broadcast, Place, PlaceLocal, clientVars
  <2>9. ASSUME CloseAll \/ Cut \/ Redistribute \/ Consume \/ Terminated PROVE Goal
    BY <2>2, <2>9 DEF CloseAll, Cut, Redistribute, Consume, Terminated, vars, clientVars
  <2>10. ASSUME NEW c \in Children, Done(c) PROVE Goal
    BY <2>2, <2>10 DEF Done
  <2>11. Goal
    BY <2>3, <2>4, <2>5, <2>6, <2>7, <2>8, <2>9, <2>10 DEF Next
  <2>12. QED BY <2>11 DEF Goal, CleanClientEnd
<1>5. QED BY <1>2, <1>4 DEF CleanInv

-----------------------------------------------------------------------------
(* The places of the client where it may have job j, and all of them.       *)
PlacesOf(j) ==
  ({1} \X At(overspill, j)) \cup ({2} \X At(hand, j)) \cup ({3} \X AtAny(commands, Children, j))
RingPlaces == UNION {{c} \X DOMAIN commands[c] : c \in Children}
Places == ({1} \X DOMAIN overspill) \cup ({2} \X DOMAIN hand) \cup ({3} \X RingPlaces)

(* Members of three finite sets that are told apart by their tags.          *)
LEMMA ThreeTagged ==
  ASSUME NEW A, NEW B, NEW C, IsFiniteSet(A), IsFiniteSet(B), IsFiniteSet(C)
  PROVE  LET T == ({1} \X A) \cup ({2} \X B) \cup ({3} \X C)
         IN  /\ IsFiniteSet(T)
             /\ Cardinality(T) = Cardinality(A) + Cardinality(B) + Cardinality(C)
<1> DEFINE X == {1} \X A
           Y == {2} \X B
           Z == {3} \X C
<1>1. /\ IsFiniteSet(X) /\ Cardinality(X) = Cardinality(A)
      /\ IsFiniteSet(Y) /\ Cardinality(Y) = Cardinality(B)
      /\ IsFiniteSet(Z) /\ Cardinality(Z) = Cardinality(C)
  BY TaggedCount
<1>2. X \cap Y = {} /\ (X \cup Y) \cap Z = {}
  OBVIOUS
<1> HIDE DEF X, Y, Z
<1>3. IsFiniteSet(X \cup Y) /\ Cardinality(X \cup Y) = Cardinality(X) + Cardinality(Y)
  BY <1>1, <1>2, FS_Union, DisjointCount
<1> DEFINE V == X \cup Y
<1>4. IsFiniteSet(V) /\ V \cap Z = {}
  BY <1>2, <1>3
<1> HIDE DEF V
<1>5. IsFiniteSet(V \cup Z) /\ Cardinality(V \cup Z) = Cardinality(V) + Cardinality(Z)
  BY <1>1, <1>4, FS_Union, DisjointCount
<1>6. /\ IsFiniteSet(V \cup Z)
      /\ Cardinality(V \cup Z) = Cardinality(A) + Cardinality(B) + Cardinality(C)
  BY <1>1, <1>3, <1>5 DEF V
<1>7. QED BY <1>6 DEF V, X, Y, Z

(* There are as many places of job j as there are copies of it.             *)
LEMMA PlacesCount ==
  ASSUME TypeOK, StreamsInv, NEW j
  PROVE  /\ IsFiniteSet(PlacesOf(j))
         /\ Cardinality(PlacesOf(j)) \in Nat /\ Cardinality(PlacesOf(j)) <= AtClient(j)
<1> DEFINE W == Copies(wire["server"], Execute(j))
           O == Copies(overspill, j)
           H == Copies(hand, j)
           R == TotalCopies(commands, Children, j)
<1>1. IsFiniteSet(At(overspill, j)) /\ IsFiniteSet(At(hand, j))
  BY CopiesType DEF TypeOK
<1>2. IsFiniteSet(AtAny(commands, Children, j))
  <2>1. IsFiniteSet(Children)
    BY NetChildrenAssumption, FS_Interval DEF Children
  <2>2. \A d \in Children : commands[d] \in Seq(Jobs)
    BY DEF TypeOK
  <2>3. QED BY <2>1, <2>2, TotalCopiesType
<1>3. IsFiniteSet(PlacesOf(j)) /\ Cardinality(PlacesOf(j)) = O + H + R
  BY <1>1, <1>2, ThreeTagged DEF PlacesOf, Copies, TotalCopies
<1>4. W \in Nat /\ O \in Nat /\ H \in Nat /\ R \in Nat /\ AtClient(j) = W + O + H + R
  BY CountParts DEF AtClient
<1> HIDE DEF W, O, H, R
<1>5. \A w, o, h, r \in Nat : o + h + r \in Nat /\ o + h + r <= w + o + h + r
  OBVIOUS
<1>6. QED BY <1>3, <1>4, <1>5

(* The jobs at the client find room in what it announced.                   *)
LEMMA BacklogCovered ==
  ASSUME TypeOK, StreamsInv, NEW W \in SUBSET Jobs, Covers(W)
  PROVE  BacklogFits
<1> DEFINE JobAt(p) == CASE p[1] = 1 -> overspill[p[2]]
                         [] p[1] = 2 -> hand[p[2]]
                         [] OTHER -> commands[p[2][1]][p[2][2]]
           f == [p \in Places |-> JobAt(p)]
<1>1. /\ overspill \in Seq(Jobs) /\ hand \in Seq(Jobs)
      /\ \A c \in Children : commands[c] \in Seq(Jobs)
  BY DEF TypeOK
<1>2. ASSUME NEW p \in Places PROVE JobAt(p) \in Jobs /\ p \in PlacesOf(JobAt(p))
  <2>1. CASE p \in {1} \X DOMAIN overspill
    <3>1. p = <<1, p[2]>> /\ p[2] \in 1 .. Len(overspill) /\ JobAt(p) = overspill[p[2]]
      BY <1>1, <2>1
    <3>2. p[2] \in At(overspill, JobAt(p)) /\ JobAt(p) \in Jobs
      BY <1>1, <3>1 DEF At
    <3>3. p \in {1} \X At(overspill, JobAt(p))
      BY <3>1, <3>2
    <3> HIDE DEF JobAt
    <3>4. QED BY <3>2, <3>3 DEF PlacesOf
  <2>2. CASE p \in {2} \X DOMAIN hand
    <3>1. p = <<2, p[2]>> /\ p[2] \in 1 .. Len(hand) /\ JobAt(p) = hand[p[2]]
      BY <1>1, <2>2
    <3>2. p[2] \in At(hand, JobAt(p)) /\ JobAt(p) \in Jobs
      BY <1>1, <3>1 DEF At
    <3>3. p \in {2} \X At(hand, JobAt(p))
      BY <3>1, <3>2
    <3> HIDE DEF JobAt
    <3>4. QED BY <3>2, <3>3 DEF PlacesOf
  <2>3. CASE p \in {3} \X RingPlaces
    <3>1. PICK c \in Children : \E i \in DOMAIN commands[c] : p = <<3, <<c, i>>>>
      BY <2>3 DEF RingPlaces
    <3>2. PICK i \in DOMAIN commands[c] : p = <<3, <<c, i>>>>
      BY <3>1
    <3>3. JobAt(p) = commands[c][i] /\ i \in 1 .. Len(commands[c])
      BY <1>1, <3>2
    <3>4. JobAt(p) \in Jobs /\ <<c, i>> \in {c} \X At(commands[c], JobAt(p))
      BY <1>1, <3>3 DEF At
    <3> HIDE DEF JobAt
    <3>5. <<c, i>> \in AtAny(commands, Children, JobAt(p))
      BY <3>4 DEF AtAny
    <3>6. QED BY <3>2, <3>4, <3>5 DEF PlacesOf
  <2>4. QED BY <2>1, <2>2, <2>3 DEF Places
<1> HIDE DEF JobAt
<1>3. ASSUME NEW p \in Places PROVE JobAt(p) \in W /\ \A q \in PlacesOf(JobAt(p)) : q = p
  <2> DEFINE j == JobAt(p)
  <2>1. j \in Jobs /\ p \in PlacesOf(j)
    BY <1>2
  <2> HIDE DEF j
  <2>2. /\ IsFiniteSet(PlacesOf(j)) /\ Cardinality(PlacesOf(j)) \in Nat
        /\ Cardinality(PlacesOf(j)) <= AtClient(j) /\ AtClient(j) \in Nat
        /\ AtClient(j) <= IF j \in W THEN 1 ELSE 0
    BY <2>1, PlacesCount, CountParts DEF Covers
  <2>3. Cardinality(PlacesOf(j)) # 0
    BY <2>1, <2>2, FS_EmptySet
  <2>4. j \in W /\ Cardinality(PlacesOf(j)) = 1
    BY <2>2, <2>3
  <2>5. ASSUME NEW q \in PlacesOf(j), q # p PROVE FALSE
    <3>1. IsFiniteSet({p}) /\ Cardinality({p}) = 1
      BY FS_Singleton
    <3>2. Cardinality({p} \cup {q}) = 2
      BY <2>5, <3>1, FS_AddElement
    <3>3. {p} \cup {q} \subseteq PlacesOf(j)
      BY <2>1
    <3>4. Cardinality({p} \cup {q}) <= Cardinality(PlacesOf(j))
      BY <2>2, <3>3, FS_Subset
    <3>5. QED BY <2>4, <3>2, <3>4
  <2>6. QED BY <2>4, <2>5 DEF j
<1>4. f \in Injection(Places, W)
  <2>1. f \in [Places -> W]
    BY <1>3
  <2>2. \A p, q \in Places : f[p] = f[q] => p = q
    BY <1>2, <1>3
  <2> HIDE DEF f
  <2>3. QED BY <2>1, <2>2 DEF Injection, IsInjective
<1>5. Cardinality(Places) <= Announced
  <2>1. IsFiniteSet(W) /\ Cardinality(W) <= Announced
    BY DEF Covers
  <2>2. IsFiniteSet(Places) /\ Cardinality(Places) <= Cardinality(W)
    BY <1>4, <2>1, FS_Injection
  <2>3. Cardinality(Places) \in Nat /\ Cardinality(W) \in Nat /\ Announced \in Nat
    BY <2>1, <2>2, FS_CardinalityType, Announcements
  <2>4. QED BY <2>1, <2>2, <2>3
<1>6. Cardinality(Places) = Len(overspill) + Len(hand) + InRings
  <2>1. \A n \in Nat : IsFiniteSet(1 .. n) /\ Cardinality(1 .. n) = n
    BY FS_Interval
  <2>2. /\ DOMAIN overspill = 1 .. Len(overspill) /\ Len(overspill) \in Nat
        /\ DOMAIN hand = 1 .. Len(hand) /\ Len(hand) \in Nat
    BY <1>1
  <2>3. /\ IsFiniteSet(DOMAIN overspill) /\ Cardinality(DOMAIN overspill) = Len(overspill)
        /\ IsFiniteSet(DOMAIN hand) /\ Cardinality(DOMAIN hand) = Len(hand)
    BY <2>1, <2>2
  <2>4. IsFiniteSet(RingPlaces)
    <3>1. IsFiniteSet(Children) /\ \A c \in Children : IsFiniteSet(DOMAIN commands[c])
      <4>1. IsFiniteSet(Children)
        BY NetChildrenAssumption, FS_Interval DEF Children
      <4>2. \A c \in Children : DOMAIN commands[c] = 1 .. Len(commands[c]) /\ Len(commands[c]) \in Nat
        BY <1>1
      <4>3. QED BY <2>1, <4>1, <4>2
    <3> DEFINE T == {{c} \X DOMAIN commands[c] : c \in Children}
               g == [c \in Children |-> {c} \X DOMAIN commands[c]]
    <3>2. g \in Surjection(Children, T)
      BY DEF Surjection
    <3>3. IsFiniteSet(T)
      BY <3>1, <3>2, FS_Surjection
    <3>4. \A c \in Children : IsFiniteSet({c} \X DOMAIN commands[c])
      BY <3>1, TaggedCount
    <3>5. QED BY <3>3, <3>4, FS_UNION DEF RingPlaces
  <2>5. Cardinality(RingPlaces) = InRings
    BY DEF RingPlaces, InRings
  <2>6. Cardinality(Places) =
          Cardinality(DOMAIN overspill) + Cardinality(DOMAIN hand) + Cardinality(RingPlaces)
    <3> DEFINE X == DOMAIN overspill
               Y == DOMAIN hand
               Z == RingPlaces
    <3>1. IsFiniteSet(X) /\ IsFiniteSet(Y) /\ IsFiniteSet(Z)
      BY <2>3, <2>4
    <3>2. Places = ({1} \X X) \cup ({2} \X Y) \cup ({3} \X Z)
      BY DEF Places
    <3> HIDE DEF X, Y, Z
    <3>3. Cardinality(Places) = Cardinality(X) + Cardinality(Y) + Cardinality(Z)
      BY <3>1, <3>2, ThreeTagged
    <3>4. QED BY <3>3 DEF X, Y, Z
  <2>7. QED BY <2>3, <2>5, <2>6
<1>7. QED BY <1>5, <1>6 DEF BacklogFits

-----------------------------------------------------------------------------
(* The invariant holds initially, ...                                       *)
LEMMA NetInitTypes ==
  ASSUME Init
  PROVE  TypeOK /\ StreamsInv
<1>1. /\ NumChildren \in Nat \ {0} /\ BufferSize \in Nat \ {0}
      /\ MaxLogs \in Nat /\ Inputs \subseteq Seq(Jobs)
  BY NetChildrenAssumption, NetBufferAssumption, NetLogsAssumption, NetInputsAssumption
<1>2. \A S : <<>> \in Seq(S)
  OBVIOUS
<1>3. Len(<<>>) = 0 /\ 0 <= 1 /\ 0 <= BufferSize
  BY <1>1
<1>4. input \in Seq(Jobs) /\ cap \in {<<>>, <<Announced>>} /\ closed \in 0 .. NumChildren
      /\ logs \in 0 .. MaxLogs
  BY <1>1 DEF Init
<1>5. queue \in [Ends -> Seq(Packets)] /\ wire \in [Ends -> Seq(Packets)] /\ StreamsInv
  BY <1>2 DEF Init, StreamsInv
<1>6. /\ overspill \in Seq(Jobs) /\ hand \in Seq(Jobs) /\ Len(hand) <= 1
      /\ commands \in [Children -> Seq(Jobs)]
      /\ \A c \in Children : Len(commands[c]) <= BufferSize
  BY <1>2, <1>3 DEF Init
<1>7. QED BY <1>4, <1>5, <1>6 DEF Init, TypeOK

(* ... if no job is in the input twice, ...                                 *)
LEMMA NetInit ==
  ASSUME Distinct, Init
  PROVE  NetInv
<1>1. TypeOK /\ StreamsInv
  BY NetInitTypes
<1>2. VersionsInv
  <2>1. ASSUME NEW e \in Ends PROVE Introduced(version[Other(e)], stage[e], Stream(e))
    <3>1. wire[e] = <<>> /\ queue[e] = <<>> /\ stage[e] = "new"
      BY DEF Init
    <3>2. <<>> \o <<>> = <<>> /\ DOMAIN <<>> = {}
      OBVIOUS
    <3>3. Stream(e) = <<>>
      BY <3>1, <3>2 DEF Stream
    <3>4. QED BY <3>1, <3>2, <3>3 DEF Introduced, Ordered
  <2>2. QED BY <2>1 DEF VersionsInv
<1>3. PhaseInv
  <2>1. IsFiniteSet(work) /\ Cardinality(work) = 0 /\ 0 <= Announced
    BY FS_EmptySet, Announcements DEF Init
  <2>2. QED BY <2>1, EndsFacts DEF Init, PhaseInv, Serving
<1>4. PlacedOnce /\ SettledInv
  BY EndsFacts DEF Init, Distinct, PlacedOnce, Partition, SettledInv
<1>5. WorkInFlight
  <2>1. ASSUME NEW j \in Jobs PROVE Count(j) = 0
    <3>1. \A x : Copies(<<>>, x) = 0 /\ At(<<>>, x) = {}
      BY CopiesEmpty DEF At
    <3>2. /\ queue["server"] = <<>> /\ wire["server"] = <<>> /\ queue["client"] = <<>>
          /\ wire["client"] = <<>> /\ overspill = <<>> /\ hand = <<>>
          /\ \A c \in Children : commands[c] = <<>>
      BY EndsFacts DEF Init
    <3>3. AtAny(commands, Children, j) = {}
      BY <3>1, <3>2 DEF AtAny
    <3>4. TotalCopies(commands, Children, j) = 0
      BY <3>3, FS_EmptySet DEF TotalCopies
    <3>5. QED BY <3>1, <3>2, <3>4 DEF Count
  <2>2. QED BY <2>1 DEF Init, WorkInFlight
<1>6. BacklogInv /\ CleanInv
  BY DEF Init, BacklogInv, CleanInv, CleanClientEnd
<1>7. QED BY <1>1, <1>2, <1>3, <1>4, <1>5, <1>6 DEF NetInv

(* ... and every step preserves it.                                         *)
LEMMA NetNext ==
  ASSUME NetInv, [Next]_vars
  PROVE  NetInv'
<1>1. CASE Next
  <2>1. /\ TypeOK /\ StreamsInv /\ VersionsInv /\ PhaseInv /\ PlacedOnce
        /\ SettledInv /\ WorkInFlight /\ BacklogInv /\ CleanInv
    BY DEF NetInv
  <2>2. TypeOK' /\ StreamsInv'
    BY <1>1, <2>1, TypeStep
  <2>3. PhaseInv'
    BY <1>1, <2>1, PhaseStep
  <2>4. VersionsInv'
    BY <1>1, <2>1, VersionsStep
  <2>5. PlacedOnce' /\ SettledInv'
    BY <1>1, <2>1, PlacedStep, SettledStep
  <2>6. WorkInFlight'
    <3>1. ASSUME up', NEW j \in Jobs PROVE (Count(j) = IF j \in work THEN 1 ELSE 0)'
      BY <1>1, <2>1, <3>1, FlowStep
    <3>2. QED BY <3>1 DEF WorkInFlight
  <2>7. BacklogInv'
    BY <1>1, <2>1, BacklogStep
  <2>8. CleanInv'
    BY <1>1, <2>1, CleanStep
  <2>9. QED BY <2>2, <2>3, <2>4, <2>5, <2>6, <2>7, <2>8 DEF NetInv
<1>2. CASE UNCHANGED vars
  <2>1. UNCHANGED <<input, cap, work, placed, answered, returned, stage, queue, wire, version,
                    up, cut, overspill, hand, commands, closed, main, logs>>
    BY <1>2 DEF vars, serverVars, linkVars, clientVars
  <2>2. TypeOK' /\ StreamsInv'
    BY <2>1 DEF NetInv, TypeOK, StreamsInv
  <2>3. VersionsInv' /\ PhaseInv'
    BY <2>1 DEF NetInv, VersionsInv, Introduced, Stream, PhaseInv, Serving
  <2>4. PlacedOnce' /\ SettledInv'
    BY <2>1 DEF NetInv, PlacedOnce, Partition, SettledInv
  <2>5. \A j : Count(j)' = Count(j) /\ AtClient(j)' = AtClient(j)
    BY <2>1 DEF Count, AtClient
  <2>6. WorkInFlight'
    BY <2>1, <2>5 DEF NetInv, WorkInFlight
  <2>7. BacklogInv' /\ CleanInv'
    BY <2>1, <2>5 DEF NetInv, BacklogInv, Covers, CleanInv, CleanClientEnd
  <2>8. QED BY <2>2, <2>3, <2>4, <2>6, <2>7 DEF NetInv
<1>3. QED BY <1>1, <1>2

(* Every variable keeps its shape, whatever is in the input.                *)
THEOREM NetTyping == Spec => []TypeOK
<1>1. Init => TypeOK /\ StreamsInv
  BY NetInitTypes
<1>2. TypeOK /\ StreamsInv /\ [Next]_vars => (TypeOK /\ StreamsInv)'
  <2> SUFFICES ASSUME TypeOK, StreamsInv, [Next]_vars PROVE (TypeOK /\ StreamsInv)'
    OBVIOUS
  <2>1. CASE Next
    BY <2>1, TypeStep
  <2>2. CASE UNCHANGED vars
    BY <2>2 DEF vars, serverVars, linkVars, clientVars, TypeOK, StreamsInv
  <2>3. QED BY <2>1, <2>2
<1>3. QED BY <1>1, <1>2, PTL DEF Spec

(* The invariant, for inputs of different jobs: the texts are all that the  *)
(* work map and the packets know a job by.                                  *)
THEOREM NetInvariance ==
  ASSUME Distinct
  PROVE  Spec => []NetInv
<1>1. Init => NetInv
  BY NetInit
<1>2. NetInv /\ [Next]_vars => NetInv'
  BY NetNext
<1>3. QED BY <1>1, <1>2, PTL DEF Spec

(* net.packets.cpp, net.server.cpp:14-25: while the connection is up every  *)
(* job in the work map is under way exactly once, and no other job is.      *)
THEOREM JobsInFlight ==
  ASSUME Distinct
  PROVE  Spec => []WorkInFlight
<1>1. NetInv => WorkInFlight
  BY DEF NetInv
<1>2. QED BY <1>1, NetInvariance, PTL

(* exec.capacity.cpp:45: the client never has more jobs than it announced.  *)
THEOREM RoomIsKept ==
  ASSUME Distinct
  PROVE  Spec => []BacklogFits
<1>1. NetInv => BacklogFits
  <2> SUFFICES ASSUME NetInv PROVE BacklogFits
    OBVIOUS
  <2>1. TypeOK /\ StreamsInv /\ PhaseInv /\ WorkInFlight /\ BacklogInv
    BY DEF NetInv
  <2>2. CASE up
    <3>1. Covers(work) /\ work \in SUBSET Jobs
      BY <2>1, <2>2, CoversWork DEF TypeOK
    <3>2. QED BY <2>1, <3>1, BacklogCovered
  <2>3. CASE ~up
    <3>1. PICK W \in SUBSET Jobs : Covers(W)
      BY <2>1, <2>3 DEF BacklogInv
    <3>2. QED BY <2>1, <3>1, BacklogCovered
  <2>4. QED BY <2>2, <2>3
<1>2. QED BY <1>1, NetInvariance, PTL

(* exec.netvisor.cpp:88-91: a client dies of a write to a child it has      *)
(* closed, or of reports unread, only if its connection was cut.            *)
THEOREM ClientEndsCleanly ==
  ASSUME Distinct
  PROVE  Spec => []CleanClientEnd
<1>1. NetInv => CleanClientEnd
  BY DEF NetInv, CleanInv
<1>2. QED BY <1>1, NetInvariance, PTL

(* exec.capacity.cpp:71-107: every job placed at a connection is            *)
(* outstanding, printed or given back, and only one of these; the server    *)
(* ends the connection with none outstanding, and unless it was cut all     *)
(* have been printed by then.                                               *)
THEOREM PrintedOrGivenBack ==
  ASSUME Distinct
  PROVE  Spec => []PrintedOrReturned
<1>1. NetInv => PrintedOrReturned
  BY DEF NetInv, PlacedOnce, SettledInv, PrintedOrReturned
<1>2. QED BY <1>1, NetInvariance, PTL

-----------------------------------------------------------------------------
(* Every step of the connection is a step of the queue that Capacity takes  *)
(* it for, or none.                                                         *)
LEMMA RemoteStep ==
  ASSUME NetInv, [Next]_vars
  PROVE  [Remote!Next]_(Remote!remoteVars)
<1> DEFINE Goal == Remote!Next \/ UNCHANGED <<cap, work, answered, returned>>
<1>1. TypeOK /\ StreamsInv /\ PhaseInv /\ PlacedOnce
  BY DEF NetInv
<1>2. ASSUME UNCHANGED <<cap, work, answered, returned>> PROVE Goal
  BY <1>2
<1>3. ASSUME NEW e \in Ends, ReceiveVersion(e) PROVE Goal
  <2>1. UNCHANGED <<work, answered, returned>>
    BY <1>3 DEF ReceiveVersion
  <2>2. cap' = cap \/ cap' = <<Announced>>
    BY <1>1, <1>3, ArrivalTypes DEF ReceiveVersion
  <2>3. cap = <<>> \/ cap = <<Announced>>
    BY <1>1 DEF TypeOK
  <2>4. QED BY <2>1, <2>2, <2>3 DEF Remote!Next, Remote!Additional
<1>4. ASSUME ReceiveCompleted PROVE Goal
  <2> DEFINE j == Arriving("server").content
  <2>1. /\ work' = work \ {j} /\ UNCHANGED <<cap, returned>>
        /\ answered' = IF j \in work THEN answered \cup {j} ELSE answered
    BY <1>4 DEF ReceiveCompleted, Erased
  <2> HIDE DEF j
  <2>2. CASE j \in work
    <3>1. j \in Jobs
      BY <1>1, <2>2 DEF TypeOK
    <3>2. Remote!Answer(j)
      BY <2>1, <2>2 DEF Remote!Answer
    <3>3. QED BY <3>1, <3>2 DEF Remote!Next
  <2>3. CASE j \notin work
    BY <2>1, <2>3
  <2>4. QED BY <2>2, <2>3
<1>5. ASSUME Place PROVE Goal
  <2> DEFINE j == Head(input)
  <2>1. /\ cap # <<>> /\ cap[1] > Cardinality(work) /\ work' = work \cup {j}
        /\ UNCHANGED <<cap, answered, returned>>
        /\ input \in Seq(Jobs) /\ input # <<>>
    BY <1>1, <1>5 DEF Place, HasRoom, TypeOK
  <2>2. j \in Jobs
    BY <2>1
  <2>3. j \notin work \cup answered
    BY <1>1, <2>1, DistinctTail DEF PlacedOnce, Partition
  <2>4. Cardinality(work) < cap[1]
    <3>1. Cardinality(work) \in Nat /\ Announced \in Nat
      BY <1>1, FS_CardinalityType, Announcements DEF PhaseInv
    <3>2. cap = <<Announced>>
      BY <1>1, <2>1 DEF TypeOK
    <3>3. \A n : <<n>>[1] = n
      OBVIOUS
    <3>4. cap[1] = Announced
      BY <3>2, <3>3
    <3>5. QED BY <2>1, <3>1, <3>4
  <2> HIDE DEF j
  <2>5. Remote!Send(j)
    <3>1. Remote!Cardinality(work) = Cardinality(work)
      BY DEF Remote!Cardinality, Cardinality, Remote!IsFiniteSet, IsFiniteSet
    <3>2. QED BY <2>1, <2>3, <2>4, <3>1 DEF Remote!Send
  <2>6. QED BY <2>2, <2>5 DEF Remote!Next
<1>6. ASSUME Redistribute PROVE Goal
  <2>1. /\ returned' = returned \cup work /\ work' = {} /\ cap' = <<>> /\ answered' = answered
    BY <1>6 DEF Redistribute
  <2>2. CASE cap # <<>>
    BY <2>1, <2>2 DEF Remote!Next, Remote!Lost
  <2>3. CASE cap = <<>>
    BY <1>1, <2>1, <2>3 DEF PhaseInv
  <2>4. QED BY <2>2, <2>3
<1> HIDE DEF Goal
<1>7. ASSUME NEW e \in Ends, Live(e) \/ Announce(e) \/ Send(e) \/ ReceiveOther(e) PROVE Goal
  BY <1>2, <1>7 DEF Live, Announce, Send, ReceiveOther, serverVars
<1>8. ASSUME NEW c \in Children, Give(c) \/ Done(c) \/ ResendAfterClose(c) PROVE Goal
  BY <1>2, <1>8 DEF Give, Done, ResendAfterClose, serverVars
<1>9. ASSUME ReceiveExecute \/ Broadcast \/ PlaceLocal \/ CloseAll \/ Cut PROVE Goal
  BY <1>2, <1>9 DEF ReceiveExecute, Broadcast, PlaceLocal, CloseAll, Cut, serverVars
<1>10. ASSUME Consume \/ ClientClose \/ ChildEnd \/ Panic \/ Terminated PROVE Goal
  BY <1>2, <1>10 DEF Consume, ClientClose, ChildEnd, Panic, Terminated, vars, serverVars
<1>11. ASSUME UNCHANGED vars PROVE Goal
  BY <1>2, <1>11 DEF vars, serverVars
<1>12. Goal
  BY <1>3, <1>4, <1>5, <1>6, <1>7, <1>8, <1>9, <1>10, <1>11 DEF Next
<1>13. QED BY <1>12 DEF Goal, Remote!remoteVars

(* The connection is what Capacity takes it for, except that TLC alone      *)
(* shows that every job is answered or given back some day.                 *)
THEOREM RemoteIsAQueue ==
  ASSUME Distinct
  PROVE  Spec => Remote!Safety
<1>1. Init => Remote!Init
  BY DEF Init, Remote!Init
<1>2. NetInv /\ [Next]_vars => [Remote!Next]_(Remote!remoteVars)
  BY RemoteStep
<1>3. QED BY <1>1, <1>2, NetInvariance, PTL DEF Spec, Remote!Safety

=============================================================================
