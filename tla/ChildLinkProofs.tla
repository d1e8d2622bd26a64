--------------------------- MODULE ChildLinkProofs --------------------------
(***************************************************************************)
(* Theorems about ChildLink for any ring size, any jobs, and any number of  *)
(* crashes, signals and failures to start the worker.                       *)
(***************************************************************************)
EXTENDS ChildLink, SequenceLemmas

(* The handlers that wait, and what they wait with.                         *)
Waits(h) == h \in ToSet(ready)
ReadyInv ==
  /\ Waits("give") => feed = <<>> /\ HasRoom /\ input # <<>>
  /\ Waits("feed") <=> feed # <<>>
  /\ Len(feed) <= 1
  /\ Waits("line") => stdoutPipe # <<>>
  /\ Waits("byte") => resendPipe # <<>> /\ it = NoSlot
  /\ Waits("resend") <=> it # NoSlot

(* The slot of the resend loop holds a job, or the job was popped since the *)
(* loop's last write: then no other pop comes before its next, and the ring *)
(* does not fill up, so that the loop goes on at the new front.             *)
PoppedUnderLoop ==
  /\ R!Slot(it + 1) = first
  /\ ~Before("line", "resend")
  /\ Len(commands) < BufferSize
  /\ Before("feed", "resend") => Len(commands) + 1 < BufferSize
LoopInv == it # NoSlot => Live(it) \/ PoppedUnderLoop

(* What holds for good once input_complete is set, stdin is closed, the     *)
(* supervisor has gone, or the worker is not there.                         *)
PhaseInv ==
  /\ inputComplete => input = <<>> /\ feed = <<>>
  /\ closed => inputComplete /\ commands = <<>>
  /\ worker = "ended" => closed
  /\ worker # "up" => wbuf = <<>>
  /\ sup = "fork" => worker = "none"
  /\ \A n \in DOMAIN resendPipe : resendPipe[n] = "x" => worker = "failed"
  /\ sup \in {"exited", "reaped"} => Down \/ AllDoneHere

(* What the worker has put on stdout it has executed.                       *)
EchoInv ==
  /\ \A n \in DOMAIN stdoutPipe : stdoutPipe[n] = Noise \/ stdoutPipe[n] \in executed
  /\ ReportedWasExecuted

(* The lines between the worker and the manager, without the resend loop,   *)
(* and without the line that handle_stdout is about to take before the job  *)
(* in flight is pushed.                                                     *)
Lived == worker \in {"none", "up"}
OnTheWay == stdoutPipe \o wbuf \o stdinPipe
BehindLine ==
  (IF Before("line", "feed") THEN Tail(stdoutPipe) ELSE stdoutPipe) \o wbuf \o stdinPipe

(* No crash has swallowed the line of the job in flight without a request   *)
(* for it that is served after the job has been pushed.                     *)
FeedInv ==
  feed # <<>> /\ Lived
  /\ (resendPipe = <<>> \/ (Len(resendPipe) = 1 /\ Before("byte", "feed")))
    => Among(feed, BehindLine)
RecoverInv ==
  Lived /\ resendPipe = <<>> => Among(commands \o feed, OnTheWay \o ToResend)

LinkInv ==
  /\ TypeOK /\ ReadyInv /\ LoopInv /\ PhaseInv /\ EchoInv
  /\ NoWriteAfterClose /\ FeedInv /\ RecoverInv

-----------------------------------------------------------------------------
(* The queue of the control reactor.  Whose turn comes before whose in it,  *)
(* which Before says of the variable.                                       *)
AllHandlers == Handlers \cup {"feed", "resend"}
Pre(q, g, h) == \E m, n \in DOMAIN q : m < n /\ q[m] = g /\ q[n] = h

(* Who comes before or after somebody waits.                                *)
LEMMA QueueMembers ==
  ASSUME NEW q, NEW g, NEW h, Pre(q, g, h)
  PROVE  g \in ToSet(q) /\ h \in ToSet(q)
BY DEF Pre, ToSet

(* A handler that is queued comes last; the others keep their order.        *)
LEMMA QueueAppend ==
  ASSUME NEW q \in Seq(AllHandlers), IsInjective(q),
         NEW k \in AllHandlers, k \notin ToSet(q)
  PROVE  /\ Append(q, k) \in Seq(AllHandlers)
         /\ IsInjective(Append(q, k))
         /\ \A h : h \in ToSet(Append(q, k)) <=> h \in ToSet(q) \/ h = k
         /\ \A g, h : Pre(Append(q, k), g, h) <=>
                        Pre(q, g, h) \/ (h = k /\ g \in ToSet(q))
<1> DEFINE r == Append(q, k)
           l == Len(q)
<1>1. /\ l \in Nat /\ r \in Seq(AllHandlers)
      /\ DOMAIN q = 1 .. l /\ DOMAIN r = 1 .. l + 1
      /\ \A i \in 1 .. l : r[i] = q[i]
      /\ r[l + 1] = k
  OBVIOUS
<1>2. \A i \in 1 .. l : q[i] # k
  BY <1>1 DEF ToSet
<1> HIDE DEF r, l
<1>3. IsInjective(r)
  BY <1>1, <1>2 DEF IsInjective
<1>4. ASSUME NEW h PROVE h \in ToSet(r) <=> h \in ToSet(q) \/ h = k
  BY <1>1 DEF ToSet
<1>5. ASSUME NEW g, NEW h
      PROVE  Pre(r, g, h) <=> Pre(q, g, h) \/ (h = k /\ g \in ToSet(q))
  <2>1. ASSUME Pre(r, g, h) PROVE Pre(q, g, h) \/ (h = k /\ g \in ToSet(q))
    <3>1. PICK m, n \in 1 .. l + 1 : m < n /\ r[m] = g /\ r[n] = h
      BY <1>1, <2>1 DEF Pre
    <3>2. m \in 1 .. l
      BY <1>1, <3>1
    <3>3. CASE n = l + 1
      BY <1>1, <3>1, <3>2, <3>3 DEF ToSet
    <3>4. CASE n # l + 1
      <4>1. n \in 1 .. l
        BY <1>1, <3>4
      <4>2. QED BY <1>1, <3>1, <3>2, <4>1 DEF Pre
    <3>5. QED BY <3>3, <3>4
  <2>2. ASSUME Pre(q, g, h) PROVE Pre(r, g, h)
    BY <1>1, <2>2 DEF Pre
  <2>3. ASSUME h = k, g \in ToSet(q) PROVE Pre(r, g, h)
    <3>1. PICK m \in 1 .. l : q[m] = g
      BY <1>1, <2>3 DEF ToSet
    <3>2. m \in DOMAIN r /\ l + 1 \in DOMAIN r /\ m < l + 1 /\ r[m] = g /\ r[l + 1] = h
      BY <1>1, <2>3, <3>1
    <3>3. QED BY <3>2 DEF Pre
  <2>4. QED BY <2>1, <2>2, <2>3
<1>6. QED BY <1>1, <1>3, <1>4, <1>5 DEF r

(* The handler at the head comes before all the others; when it is taken    *)
(* off, the others keep their order.                                        *)
LEMMA QueueTail ==
  ASSUME NEW q \in Seq(AllHandlers), IsInjective(q), q # <<>>
  PROVE  /\ Tail(q) \in Seq(AllHandlers)
         /\ IsInjective(Tail(q))
         /\ Head(q) \in ToSet(q)
         /\ \A h : h \in ToSet(Tail(q)) <=> h \in ToSet(q) /\ h # Head(q)
         /\ \A g, h : Pre(Tail(q), g, h) <=> Pre(q, g, h) /\ g # Head(q)
         /\ \A h : Pre(q, Head(q), h) <=> h \in ToSet(q) /\ h # Head(q)
         /\ \A g : ~Pre(q, g, Head(q))
<1> DEFINE r == Tail(q)
           l == Len(q)
           k == Head(q)
<1>1. /\ l \in Nat \ {0} /\ r \in Seq(AllHandlers)
      /\ DOMAIN q = 1 .. l /\ DOMAIN r = 1 .. l - 1
      /\ \A i \in 1 .. l - 1 : r[i] = q[i + 1]
      /\ q[1] = k
  OBVIOUS
<1>2. \A i, j \in 1 .. l : q[i] = q[j] => i = j
  BY <1>1 DEF IsInjective
<1> HIDE DEF r, l, k
<1>3. \A i \in 1 .. l : q[i] = k => i = 1
  BY <1>1, <1>2
<1>4. IsInjective(r)
  <2>1. ASSUME NEW i \in 1 .. l - 1, NEW j \in 1 .. l - 1, r[i] = r[j] PROVE i = j
    <3>1. i + 1 \in 1 .. l /\ j + 1 \in 1 .. l /\ q[i + 1] = q[j + 1]
      BY <1>1, <2>1
    <3>2. i + 1 = j + 1
      BY <1>2, <3>1
    <3>3. QED BY <3>2
  <2>2. QED BY <1>1, <2>1 DEF IsInjective
<1>5. k \in ToSet(q)
  BY <1>1 DEF ToSet
<1>6. ASSUME NEW h PROVE h \in ToSet(r) <=> h \in ToSet(q) /\ h # k
  <2>1. ASSUME h \in ToSet(r) PROVE h \in ToSet(q) /\ h # k
    <3>1. PICK i \in 1 .. l - 1 : r[i] = h
      BY <1>1, <2>1 DEF ToSet
    <3>2. i + 1 \in 1 .. l /\ q[i + 1] = h /\ i + 1 # 1
      BY <1>1, <3>1
    <3>3. QED BY <1>1, <1>3, <3>2 DEF ToSet
  <2>2. ASSUME h \in ToSet(q), h # k PROVE h \in ToSet(r)
    <3>1. PICK i \in 1 .. l : q[i] = h
      BY <1>1, <2>2 DEF ToSet
    <3>2. i - 1 \in 1 .. l - 1 /\ (i - 1) + 1 = i
      BY <1>1, <2>2, <3>1
    <3>3. r[i - 1] = h
      BY <1>1, <3>1, <3>2
    <3>4. QED BY <1>1, <3>2, <3>3 DEF ToSet
  <2>3. QED BY <2>1, <2>2
<1>7. ASSUME NEW g, NEW h PROVE Pre(r, g, h) <=> Pre(q, g, h) /\ g # k
  <2>1. ASSUME Pre(r, g, h) PROVE Pre(q, g, h) /\ g # k
    <3>1. PICK m, n \in 1 .. l - 1 : m < n /\ r[m] = g /\ r[n] = h
      BY <1>1, <2>1 DEF Pre
    <3>2. /\ m + 1 \in 1 .. l /\ n + 1 \in 1 .. l /\ m + 1 < n + 1
          /\ q[m + 1] = g /\ q[n + 1] = h /\ m + 1 # 1
      BY <1>1, <3>1
    <3>3. QED BY <1>1, <1>3, <3>2 DEF Pre
  <2>2. ASSUME Pre(q, g, h), g # k PROVE Pre(r, g, h)
    <3>1. PICK m, n \in 1 .. l : m < n /\ q[m] = g /\ q[n] = h
      BY <1>1, <2>2 DEF Pre
    <3>2. /\ m - 1 \in 1 .. l - 1 /\ n - 1 \in 1 .. l - 1 /\ m - 1 < n - 1
          /\ (m - 1) + 1 = m /\ (n - 1) + 1 = n
      BY <1>1, <2>2, <3>1
    <3>3. r[m - 1] = g /\ r[n - 1] = h
      BY <1>1, <3>1, <3>2
    <3>4. QED BY <1>1, <3>2, <3>3 DEF Pre
  <2>3. QED BY <2>1, <2>2
<1>8. ASSUME NEW h PROVE Pre(q, k, h) <=> h \in ToSet(q) /\ h # k
  <2>1. ASSUME Pre(q, k, h) PROVE h \in ToSet(q) /\ h # k
    <3>1. PICK m, n \in 1 .. l : m < n /\ q[m] = k /\ q[n] = h
      BY <1>1, <2>1 DEF Pre
    <3>2. n # 1
      BY <1>1, <3>1
    <3>3. QED BY <1>1, <1>3, <3>1, <3>2 DEF ToSet
  <2>2. ASSUME h \in ToSet(q), h # k PROVE Pre(q, k, h)
    <3>1. PICK n \in 1 .. l : q[n] = h
      BY <1>1, <2>2 DEF ToSet
    <3>2. 1 \in 1 .. l /\ 1 < n
      BY <1>1, <2>2, <3>1
    <3>3. QED BY <1>1, <3>1, <3>2 DEF Pre
  <2>3. QED BY <2>1, <2>2
<1>9. ASSUME NEW g PROVE ~Pre(q, g, k)
  <2>1. ASSUME Pre(q, g, k) PROVE FALSE
    <3>1. PICK m, n \in 1 .. l : m < n /\ q[n] = k
      BY <1>1, <2>1 DEF Pre
    <3>2. QED BY <1>1, <1>3, <3>1
  <2>2. QED BY <2>1
<1>10. QED BY <1>1, <1>4, <1>5, <1>6, <1>7, <1>8, <1>9 DEF r, k

(* No handler waits twice, so the one that is taken is the one at the head. *)
LEMMA TakenHead ==
  ASSUME ready \in Seq(AllHandlers), IsInjective(ready), NEW h, Runs(h)
  PROVE  Taken(h) = Tail(ready) /\ ready # <<>> /\ Head(ready) = h
<1> DEFINE l == Len(ready)
           i == CHOOSE x \in DOMAIN ready : ready[x] = h
<1>1. ready # <<>> /\ Head(ready) = h
  BY DEF Runs
<1>2. /\ l \in Nat \ {0} /\ DOMAIN ready = 1 .. l /\ ready[1] = h
  BY <1>1
<1>3. i \in DOMAIN ready /\ ready[i] = h
  BY <1>2
<1>4. i = 1
  BY <1>2, <1>3 DEF IsInjective
<1> HIDE DEF i
<1>5. Taken(h) = SubSeq(ready, 1, 0) \o SubSeq(ready, 2, l)
  <2>1. Taken(h) = SubSeq(ready, 1, i - 1) \o SubSeq(ready, i + 1, l)
    BY DEF Taken, RemoveAt, i
  <2>2. i - 1 = 0 /\ i + 1 = 2
    BY <1>4
  <2>3. QED BY <2>1, <2>2
<1>6. SubSeq(ready, 1, 0) = <<>>
  BY SubSeqEmpty
<1>7. SubSeq(ready, 2, l) = Tail(ready) /\ Tail(ready) \in Seq(AllHandlers)
  BY <1>1, TailIsSubSeq, HeadTailProperties
<1>8. <<>> \o Tail(ready) = Tail(ready)
  BY <1>7, ConcatEmptySeq
<1>9. QED BY <1>1, <1>5, <1>6, <1>7, <1>8
-----------------------------------------------------------------------------
(* The ring.  Slot n is the n-th slot, counted around.                      *)
LEMMA SlotValue ==
  ASSUME NEW n \in 0 .. 2 * BufferSize - 1
  PROVE  R!Slot(n) = (IF n < BufferSize THEN n ELSE n - BufferSize) /\ R!Slot(n) \in Slots
<1>1. BufferSize \in Nat \ {0}
  BY ChildBufferAssumption
<1>2. CASE n < BufferSize
  <2>1. n \in 0 .. BufferSize - 1
    BY <1>1, <1>2
  <2>2. n % BufferSize = n
    BY <1>1, <2>1
  <2>3. QED BY <1>2, <2>1, <2>2 DEF R!Slot, Slots, R!Slots
<1>3. CASE ~(n < BufferSize)
  <2>1. n \in BufferSize .. 2 * BufferSize - 1
    BY <1>1, <1>3
  <2>2. n % BufferSize = n - BufferSize
    BY <1>1, <2>1
  <2>3. n - BufferSize \in 0 .. BufferSize - 1
    BY <1>1, <2>1
  <2>4. QED BY <1>3, <2>2, <2>3 DEF R!Slot, Slots, R!Slots
<1>4. QED BY <1>2, <1>3

(* How far slot s is behind slot f, and what moving either on does to it.   *)
LEMMA OffsetValue ==
  ASSUME NEW f \in Slots, NEW s \in Slots
  PROVE  /\ R!Offset(f, s) = IF f <= s THEN s - f ELSE s + BufferSize - f
         /\ R!Offset(f, s) \in 0 .. BufferSize - 1
<1>1. BufferSize \in Nat \ {0} /\ f \in 0 .. BufferSize - 1 /\ s \in 0 .. BufferSize - 1
  BY ChildBufferAssumption DEF Slots, R!Slots
<1> DEFINE x == s + BufferSize - f
<1>2. x \in 0 .. 2 * BufferSize - 1
  BY <1>1
<1> HIDE DEF x
<1>3. R!Slot(x) = IF x < BufferSize THEN x ELSE x - BufferSize
  BY <1>2, SlotValue
<1>4. R!Offset(f, s) = R!Slot(x)
  BY DEF R!Offset, R!Slot, x
<1>5. QED BY <1>1, <1>3, <1>4 DEF x

(* The slot behind s.                                                       *)
LEMMA NextOffset ==
  ASSUME NEW f \in Slots, NEW s \in Slots
  PROVE  /\ R!Slot(s + 1) \in Slots
         /\ R!Offset(f, R!Slot(s + 1)) =
              IF R!Offset(f, s) = BufferSize - 1 THEN 0 ELSE R!Offset(f, s) + 1
         /\ R!Slot(s + 1) = f <=> R!Offset(f, s) = BufferSize - 1
         /\ R!Offset(R!Slot(f + 1), s) =
              IF R!Offset(f, s) = 0 THEN BufferSize - 1 ELSE R!Offset(f, s) - 1
         /\ R!Offset(f, s) = 0 <=> s = f
<1>1. BufferSize \in Nat \ {0} /\ f \in 0 .. BufferSize - 1 /\ s \in 0 .. BufferSize - 1
  BY ChildBufferAssumption DEF Slots, R!Slots
<1> DEFINE o == R!Offset(f, s)
           t == R!Slot(s + 1)
           g == R!Slot(f + 1)
<1>2. o = IF f <= s THEN s - f ELSE s + BufferSize - f
  BY OffsetValue
<1>3. t \in Slots /\ t = IF s + 1 < BufferSize THEN s + 1 ELSE s + 1 - BufferSize
  <2> DEFINE x == s + 1
  <2>1. x \in 0 .. 2 * BufferSize - 1
    BY <1>1
  <2> HIDE DEF x
  <2>2. R!Slot(x) \in Slots /\ R!Slot(x) = IF x < BufferSize THEN x ELSE x - BufferSize
    BY <2>1, SlotValue
  <2>3. QED BY <1>1, <2>1, <2>2 DEF x
<1>4. g \in Slots /\ g = IF f + 1 < BufferSize THEN f + 1 ELSE f + 1 - BufferSize
  <2> DEFINE x == f + 1
  <2>1. x \in 0 .. 2 * BufferSize - 1
    BY <1>1
  <2> HIDE DEF x
  <2>2. R!Slot(x) \in Slots /\ R!Slot(x) = IF x < BufferSize THEN x ELSE x - BufferSize
    BY <2>1, SlotValue
  <2>3. QED BY <1>1, <2>1, <2>2 DEF x
<1> HIDE DEF o, t, g
<1>5. R!Offset(f, t) = IF f <= t THEN t - f ELSE t + BufferSize - f
  BY <1>3, OffsetValue
<1>6. R!Offset(g, s) = IF g <= s THEN s - g ELSE s + BufferSize - g
  BY <1>4, OffsetValue
<1>7. R!Offset(f, t) = IF o = BufferSize - 1 THEN 0 ELSE o + 1
  BY <1>1, <1>2, <1>3, <1>5
<1>8. t = f <=> o = BufferSize - 1
  BY <1>1, <1>2, <1>3
<1>9. R!Offset(g, s) = IF o = 0 THEN BufferSize - 1 ELSE o - 1
  BY <1>1, <1>2, <1>4, <1>6
<1>10. o = 0 <=> s = f
  BY <1>1, <1>2
<1>11. QED BY <1>3, <1>7, <1>8, <1>9, <1>10 DEF o, t, g

(* end() is one past the last job, which is the front of a full ring.       *)
LEMMA LastOffset ==
  ASSUME NEW f \in Slots, NEW s \in Slots, NEW n \in 0 .. BufferSize
  PROVE  R!Slot(s + 1) = R!Slot(f + n) <=>
           R!Offset(f, s) + 1 = n \/ (R!Offset(f, s) = BufferSize - 1 /\ n = 0)
<1>1. BufferSize \in Nat \ {0} /\ f \in 0 .. BufferSize - 1 /\ s \in 0 .. BufferSize - 1
  BY ChildBufferAssumption DEF Slots, R!Slots
<1> DEFINE o == R!Offset(f, s)
           t == R!Slot(s + 1)
           e == R!Slot(f + n)
<1>2. o = IF f <= s THEN s - f ELSE s + BufferSize - f
  BY OffsetValue
<1>3. t = IF s + 1 < BufferSize THEN s + 1 ELSE s + 1 - BufferSize
  <2> DEFINE x == s + 1
  <2>1. x \in 0 .. 2 * BufferSize - 1
    BY <1>1
  <2> HIDE DEF x
  <2>2. R!Slot(x) \in Slots /\ R!Slot(x) = IF x < BufferSize THEN x ELSE x - BufferSize
    BY <2>1, SlotValue
  <2>3. QED BY <1>1, <2>1, <2>2 DEF x
<1>4. e = IF f + n < BufferSize THEN f + n ELSE f + n - BufferSize
  <2> DEFINE x == f + n
  <2>1. x \in 0 .. 2 * BufferSize - 1
    BY <1>1
  <2> HIDE DEF x
  <2>2. R!Slot(x) \in Slots /\ R!Slot(x) = IF x < BufferSize THEN x ELSE x - BufferSize
    BY <2>1, SlotValue
  <2>3. QED BY <1>1, <2>1, <2>2 DEF x
<1> HIDE DEF o, t, e
<1>5. t = e <=> o + 1 = n \/ (o = BufferSize - 1 /\ n = 0)
  BY <1>1, <1>2, <1>3, <1>4
<1>6. QED BY <1>5 DEF o, t, e

-----------------------------------------------------------------------------
(* What has been appended to is not empty.                                  *)
LEMMA AppendNotEmpty ==
  ASSUME NEW S, NEW s \in Seq(S), NEW e \in S
  PROVE  Append(s, e) # <<>>
BY AppendProperties

(* The types in a form the provers need them in.                            *)
LEMMA Typed ==
  ASSUME TypeOK
  PROVE  /\ ready \in Seq(AllHandlers) /\ IsInjective(ready)
         /\ Len(commands) \in 0 .. BufferSize /\ Len(feed) \in Nat
         /\ Len(commands) + Len(feed) <= BufferSize
         /\ it # NoSlot => it \in Slots
         /\ NoSlot \notin Slots
         /\ BufferSize \in Nat \ {0}
<1>1. BufferSize \in Nat \ {0}
  BY ChildBufferAssumption
<1>2. Len(commands) \in Nat /\ Len(feed) \in Nat /\ Len(commands) + Len(feed) <= BufferSize
  BY DEF TypeOK
<1>3. Len(commands) \in 0 .. BufferSize
  BY <1>1, <1>2
<1>4. NoSlot \notin Slots
  BY <1>1 DEF NoSlot, R!NoSlot, Slots, R!Slots
<1>5. QED BY <1>1, <1>2, <1>3, <1>4 DEF TypeOK, AllHandlers

(* A handler that runs is taken off the queue, ...                          *)
LEMMA Popped ==
  ASSUME TypeOK, NEW h, Runs(h)
  PROVE  /\ Taken(h) \in Seq(AllHandlers) /\ IsInjective(Taken(h))
         /\ h \in ToSet(ready)
         /\ \A g : g \in ToSet(Taken(h)) <=> g \in ToSet(ready) /\ g # h
         /\ \A g, k : Pre(Taken(h), g, k) <=> Pre(ready, g, k) /\ g # h
         /\ \A g : Pre(ready, h, g) <=> g \in ToSet(ready) /\ g # h
         /\ \A g : ~Pre(ready, g, h)
<1>1. ready \in Seq(AllHandlers) /\ IsInjective(ready)
  BY Typed
<1>2. Taken(h) = Tail(ready) /\ ready # <<>> /\ Head(ready) = h
  BY <1>1, TakenHead
<1>3. /\ Tail(ready) \in Seq(AllHandlers) /\ IsInjective(Tail(ready))
      /\ Head(ready) \in ToSet(ready)
      /\ \A g : g \in ToSet(Tail(ready)) <=> g \in ToSet(ready) /\ g # Head(ready)
      /\ \A g, k : Pre(Tail(ready), g, k) <=> Pre(ready, g, k) /\ g # Head(ready)
      /\ \A g : Pre(ready, Head(ready), g) <=> g \in ToSet(ready) /\ g # Head(ready)
      /\ \A g : ~Pre(ready, g, Head(ready))
  BY <1>1, <1>2, QueueTail
<1>4. QED BY <1>2, <1>3

(* ... and what it has started is queued behind all the others.             *)
LEMMA PoppedAnd ==
  ASSUME TypeOK, NEW h, Runs(h), NEW k \in AllHandlers, k \notin ToSet(ready) \/ k = h
  PROVE  /\ Append(Taken(h), k) \in Seq(AllHandlers) /\ IsInjective(Append(Taken(h), k))
         /\ \A g : g \in ToSet(Append(Taken(h), k)) <=>
                    (g \in ToSet(ready) /\ g # h) \/ g = k
         /\ \A g, x : Pre(Append(Taken(h), k), g, x) <=>
                       \/ Pre(ready, g, x) /\ g # h
                       \/ x = k /\ g \in ToSet(ready) /\ g # h
<1> DEFINE q == Taken(h)
<1>1. /\ q \in Seq(AllHandlers) /\ IsInjective(q)
      /\ \A g : g \in ToSet(q) <=> g \in ToSet(ready) /\ g # h
      /\ \A g, x : Pre(q, g, x) <=> Pre(ready, g, x) /\ g # h
  BY Popped
<1> HIDE DEF q
<1>2. k \notin ToSet(q)
  BY <1>1
<1>3. /\ Append(q, k) \in Seq(AllHandlers) /\ IsInjective(Append(q, k))
      /\ \A g : g \in ToSet(Append(q, k)) <=> g \in ToSet(q) \/ g = k
      /\ \A g, x : Pre(Append(q, k), g, x) <=> Pre(q, g, x) \/ (x = k /\ g \in ToSet(q))
  BY <1>1, <1>2, QueueAppend
<1>4. QED BY <1>1, <1>3 DEF q

(* What Before says of the queue.                                           *)
LEMMA BeforeIsPre ==
  ASSUME NEW g, NEW h
  PROVE  Before(g, h) <=> Pre(ready, g, h)
BY DEF Before, Pre

(* What the resend loop reads are lines.                                    *)
LEMMA ContentType ==
  ASSUME TypeOK, NEW s \in Slots, NEW line \in Content(s)
  PROVE  line \in Lines
<1>1. CASE Live(s)
  <2> DEFINE o == R!Offset(first, s)
  <2>1. o \in 0 .. BufferSize - 1 /\ o < Len(commands) /\ commands \in Seq(Jobs)
    BY <1>1, OffsetValue DEF TypeOK, Live, R!Live
  <2>2. line = commands[o + 1]
    BY <1>1 DEF Content
  <2> HIDE DEF o
  <2>3. BufferSize \in Nat /\ Len(commands) \in Nat
    BY <2>1, ChildBufferAssumption
  <2>4. o + 1 \in 1 .. Len(commands)
    BY <2>1, <2>3
  <2>5. QED BY <2>1, <2>2, <2>4, ElementOfSeq DEF Lines
<1>2. CASE ~Live(s)
  BY <1>2 DEF Content, Lines
<1>3. QED BY <1>1, <1>2

(* Where the resend loop goes on: to a job that is there, the next of those *)
(* it had still to write.                                                   *)
LEMMA LoopGoesOn ==
  ASSUME TypeOK, LoopInv, it # NoSlot
  PROVE  /\ NextSlot \in Slots
         /\ NextSlot = PastLast => RestOfRing = <<>>
         /\ NextSlot # PastLast =>
              /\ Live(NextSlot)
              /\ RestOfRing = <<commands[R!Offset(first, NextSlot) + 1]>>
                                 \o R!Behind(commands, first, NextSlot)
<1> DEFINE n == Len(commands)
           o == R!Offset(first, it)
           p == R!Offset(first, NextSlot)
<1>1. /\ BufferSize \in Nat \ {0} /\ n \in 0 .. BufferSize
      /\ it \in Slots /\ first \in Slots /\ commands \in Seq(Jobs)
  BY Typed DEF TypeOK
<1>2. o \in 0 .. BufferSize - 1
  BY <1>1, OffsetValue
<1>3. /\ NextSlot \in Slots
      /\ p = IF o = BufferSize - 1 THEN 0 ELSE o + 1
      /\ NextSlot = first <=> o = BufferSize - 1
  BY <1>1, NextOffset DEF NextSlot
<1>4. NextSlot = PastLast <=> o + 1 = n \/ (o = BufferSize - 1 /\ n = 0)
  BY <1>1, LastOffset DEF NextSlot, PastLast, R!PastLast
<1>5. RestOfRing = SubSeq(commands, IF o < n THEN o + 2 ELSE 1, n)
  BY DEF RestOfRing, R!Behind, R!Live
<1>6. R!Behind(commands, first, NextSlot) = SubSeq(commands, IF p < n THEN p + 2 ELSE 1, n)
  BY DEF R!Behind, R!Live
<1>7. (o < n) \/ (o = BufferSize - 1 /\ n < BufferSize)
  BY <1>3 DEF LoopInv, Live, R!Live, PoppedUnderLoop, NextSlot
<1>8. Live(NextSlot) <=> p < n
  BY DEF Live, R!Live
<1> HIDE DEF n, o, p
<1>9. ASSUME NextSlot = PastLast PROVE RestOfRing = <<>>
  <2>1. CASE o < n
    <3>1. o + 2 \in Int /\ n \in Int /\ n < o + 2
      BY <1>1, <1>2, <1>4, <1>9, <2>1
    <3>2. SubSeq(commands, o + 2, n) = <<>>
      BY <3>1, SubSeqEmpty
    <3>3. QED BY <1>5, <2>1, <3>2
  <2>2. CASE ~(o < n)
    <3>1. n = 0
      BY <1>1, <1>2, <1>4, <1>7, <1>9, <2>2
    <3>2. SubSeq(commands, 1, n) = <<>>
      BY <3>1, SubSeqEmpty
    <3>3. QED BY <1>5, <2>2, <3>2
  <2>3. QED BY <2>1, <2>2
<1>10. ASSUME NextSlot # PastLast
       PROVE  Live(NextSlot) /\ RestOfRing = <<commands[p + 1]>> \o R!Behind(commands, first, NextSlot)
  <2>1. p < n /\ p \in Nat
    BY <1>1, <1>2, <1>3, <1>4, <1>7, <1>10
  <2>2. (IF o < n THEN o + 2 ELSE 1) = p + 1
    BY <1>1, <1>2, <1>3, <1>4, <1>7, <1>10
  <2>3. p + 1 \in 1 .. n /\ n \in (p + 1) .. n /\ n = Len(commands) /\ (p + 1) + 1 = p + 2
    BY <1>1, <2>1 DEF n
  <2>4. SubSeq(commands, p + 1, n) = <<commands[p + 1]>> \o SubSeq(commands, (p + 1) + 1, n)
    BY <1>1, <2>3, SubSeqRecursiveFirst
  <2>5. QED BY <1>5, <1>6, <1>8, <2>1, <2>2, <2>3, <2>4
<1>11. QED BY <1>3, <1>9, <1>10 DEF p

-----------------------------------------------------------------------------
(* No step leaves the types: in particular the ring has room for the job in *)
(* flight, however many steps ago next_job has looked.                      *)
LEMMA TypeStep ==
  ASSUME TypeOK, ReadyInv, Next
  PROVE  TypeOK'
<1> DEFINE InOrder(q) == q \in Seq(AllHandlers) /\ IsInjective(q)
<1>1. InOrder(ready)
  BY Typed
<1>2. \A h : Runs(h) => InOrder(Taken(h)) /\ h \in ToSet(ready)
  BY Popped
<1>3. \A h : \A k \in AllHandlers :
        Runs(h) /\ (k \notin ToSet(ready) \/ k = h) => InOrder(Append(Taken(h), k))
  BY PoppedAnd
<1>4. TypeOK' <=>
        /\ InOrder(ready')
        /\ input' \in Seq(Jobs) /\ inputComplete' \in BOOLEAN
        /\ feed' \in Seq(Jobs) /\ commands' \in Seq(Jobs) /\ reported' \in Seq(Jobs)
        /\ Len(commands') + Len(feed') <= BufferSize
        /\ first' \in Slots /\ it' \in Slots \cup {NoSlot}
        /\ stdinPipe' \in Seq(Lines) /\ stdoutPipe' \in Seq(Lines)
        /\ resendPipe' \in Seq({"r", "x"}) /\ closed' \in BOOLEAN
        /\ sup' \in {"wait", "fork", "exited", "reaped"}
        /\ worker' \in {"none", "up", "crashed", "signalled", "failed", "ended"}
        /\ wbuf' \in Seq(Lines) /\ executed' \subseteq Lines
        /\ crashes' \in 0 .. MaxCrashes
        /\ outcome' \in {"run", "exit4", "exit7", "exit10", "finished"}
  BY DEF TypeOK, AllHandlers, NoSlot, Slots
<1> HIDE DEF InOrder
<1>5. ASSUME NEW h \in Handlers, Queue(h) PROVE TypeOK'
  <2>1. h \in AllHandlers /\ h \notin ToSet(ready) /\ ready' = Append(ready, h)
    BY <1>5 DEF Queue, AllHandlers
  <2>2. InOrder(ready')
    BY <1>1, <2>1, QueueAppend DEF InOrder
  <2>3. QED BY <1>4, <1>5, <2>2 DEF TypeOK, Queue, ringVars, pipeVars, childVars
<1>6. ASSUME Give PROVE TypeOK'
  <2>1. "give" \in ToSet(ready) /\ feed = <<>> /\ HasRoom /\ input # <<>>
    BY <1>2, <1>6 DEF Give, ReadyInv, Waits
  <2>2. "feed" \notin ToSet(ready)
    BY <2>1 DEF ReadyInv, Waits
  <2>3. InOrder(ready')
    BY <1>3, <1>6, <2>2 DEF Give, AllHandlers
  <2>4. Head(input) \in Jobs /\ Tail(input) \in Seq(Jobs) /\ Head(input) \in Lines
    BY <2>1 DEF TypeOK, Lines
  <2>5. Append(stdinPipe, Head(input)) \in Seq(Lines) /\ <<Head(input)>> \in Seq(Jobs)
    BY <2>4 DEF TypeOK
  <2>6. Len(commands) + Len(<<Head(input)>>) <= BufferSize
    BY <2>1, ChildBufferAssumption DEF HasRoom, TypeOK
  <2>7. QED BY <1>4, <1>6, <2>3, <2>4, <2>5, <2>6, SMTT(30) DEF TypeOK, Give, ringVars, pipeVars, childVars
<1>7. ASSUME Feed PROVE TypeOK'
  <2>1. InOrder(ready')
    BY <1>2, <1>7 DEF Feed
  <2>2. /\ commands' \in Seq(Jobs) /\ feed' \in Seq(Jobs)
        /\ Len(commands') + Len(feed') <= BufferSize
    BY <1>7 DEF TypeOK, Feed
  <2>3. QED BY <1>4, <1>7, <2>1, <2>2 DEF TypeOK, Feed, ringVars, pipeVars, childVars
<1>8. ASSUME Line PROVE TypeOK'
  <2>1. InOrder(ready') /\ stdoutPipe # <<>>
    BY <1>2, <1>8 DEF Line, ReadyInv, Waits
  <2>2. stdoutPipe' \in Seq(Lines)
    BY <1>8, <2>1 DEF Line, TypeOK
  <2>3. /\ commands' \in Seq(Jobs) /\ reported' \in Seq(Jobs) /\ first' \in Slots
        /\ Len(commands') + Len(feed) <= BufferSize
    <3>1. CASE Matches(Head(stdoutPipe))
      <4>1. commands # <<>> /\ commands' = Tail(commands) /\ first' = R!Slot(first + 1)
            /\ reported' = Append(reported, Head(commands))
        BY <1>8, <3>1 DEF Line, Matches
      <4>2. R!Slot(first + 1) \in Slots
        BY NextOffset DEF TypeOK
      <4>3. /\ commands' \in Seq(Jobs) /\ Len(commands') = Len(commands) - 1
            /\ reported' \in Seq(Jobs)
        BY <4>1 DEF TypeOK
      <4>4. QED BY <4>1, <4>2, <4>3, ChildBufferAssumption DEF TypeOK
    <3>2. CASE ~Matches(Head(stdoutPipe))
      BY <1>8, <3>2 DEF Line, TypeOK
    <3>3. QED BY <3>1, <3>2
  <2>4. QED BY <1>4, <1>8, <2>1, <2>2, <2>3, SMTT(30) DEF TypeOK, Line, ringVars, pipeVars, childVars
<1>9. ASSUME NEW s \in Slots, NEW q, Rewrite(s, q)
      PROVE  stdinPipe' \in Seq(Lines) /\ outcome' \in {outcome, "exit7"} /\ it' \in Slots
  <2>1. PICK line \in Content(s) :
          stdinPipe' = IF closed THEN stdinPipe ELSE Append(stdinPipe, line)
    BY <1>9 DEF Rewrite
  <2>2. line \in Lines
    BY ContentType
  <2>3. QED BY <1>9, <2>1, <2>2 DEF Rewrite, TypeOK
<1>10. ASSUME Byte PROVE TypeOK'
  <2>1. "byte" \in ToSet(ready) /\ resendPipe # <<>> /\ it = NoSlot
    BY <1>2, <1>10 DEF Byte, ReadyInv, Waits
  <2>2. "resend" \notin ToSet(ready)
    BY <2>1 DEF ReadyInv, Waits
  <2>3. InOrder(ready')
    <3>1. InOrder(Taken("byte")) /\ InOrder(Append(Taken("byte"), "resend"))
      BY <1>2, <1>3, <1>10, <2>2 DEF Byte, AllHandlers
    <3>2. QED BY <1>10, <3>1 DEF Byte, Rewrite
  <2>4. resendPipe' \in Seq({"r", "x"})
    BY <1>10, <2>1 DEF Byte, TypeOK
  <2>5. /\ stdinPipe' \in Seq(Lines) /\ it' \in Slots \cup {NoSlot}
        /\ outcome' \in {outcome, "exit7", "exit10"}
    <3>1. first \in Slots
      BY DEF TypeOK
    <3>2. CASE Rewrite(ResendFrom, Taken("byte"))
      BY <1>9, <3>1, <3>2 DEF ResendFrom
    <3>3. CASE ~Rewrite(ResendFrom, Taken("byte"))
      BY <1>10, <3>3 DEF Byte, TypeOK, ExecFailureExit
    <3>4. QED BY <3>2, <3>3
  <2>6. sup' \in {sup, "exited"}
    BY <1>10 DEF Byte
  <2>7. QED BY <1>4, <1>10, <2>3, <2>4, <2>5, <2>6, SMTT(30) DEF TypeOK, Byte
<1>11. ASSUME Resend PROVE TypeOK'
  <2>1. it # NoSlot
    BY <1>2, <1>11 DEF Resend, ReadyInv, Waits
  <2>2. NextSlot \in Slots
    BY <2>1, NextOffset DEF TypeOK, NextSlot
  <2>3. InOrder(ready')
    <3>1. InOrder(Taken("resend")) /\ InOrder(Append(Taken("resend"), "resend"))
      BY <1>2, <1>3, <1>11 DEF Resend, AllHandlers
    <3>2. QED BY <1>11, <3>1 DEF Resend, Rewrite
  <2>4. /\ stdinPipe' \in Seq(Lines) /\ it' \in Slots \cup {NoSlot}
        /\ outcome' \in {outcome, "exit7"}
    <3>1. CASE Rewrite(NextSlot, Taken("resend"))
      BY <1>9, <2>2, <3>1
    <3>2. CASE ~Rewrite(NextSlot, Taken("resend"))
      BY <1>11, <3>2 DEF Resend, TypeOK
    <3>3. QED BY <3>1, <3>2
  <2>5. QED BY <1>4, <1>11, <2>3, <2>4 DEF TypeOK, Resend, childVars
<1>12. ASSUME InputDone \/ Close \/ Waited \/ Reap PROVE TypeOK'
  BY <1>1, <1>4, <1>12, ZenonT(60)
  DEF TypeOK, InputDone, Close, Waited, Reap, ringVars, pipeVars, childVars
<1>13. ASSUME Fork \/ WorkerGone PROVE TypeOK'
  <2>1. /\ Append(resendPipe, "x") \in Seq({"r", "x"})
        /\ Append(resendPipe, "r") \in Seq({"r", "x"})
        /\ <<>> \in Seq(Lines)
    BY DEF TypeOK
  <2>2. CASE Fork
    BY <1>1, <1>4, <2>1, <2>2 DEF TypeOK, Fork, ringVars
  <2>3. CASE WorkerGone
    BY <1>1, <1>4, <2>1, <2>3 DEF TypeOK, WorkerGone, ringVars
  <2>4. QED BY <1>13, <2>2, <2>3
<1>14. ASSUME WorkerRead PROVE TypeOK'
  <2>1. PICK n \in 1 .. Len(stdinPipe) :
          /\ wbuf' = SubSeq(stdinPipe, 1, n)
          /\ stdinPipe' = SubSeq(stdinPipe, n + 1, Len(stdinPipe))
    BY <1>14 DEF WorkerRead
  <2>2. stdinPipe \in Seq(Lines)
    BY DEF TypeOK
  <2>3. wbuf' \in Seq(Lines) /\ stdinPipe' \in Seq(Lines)
    BY <2>1, <2>2
  <2>4. QED BY <1>1, <1>4, <1>14, <2>3 DEF TypeOK, WorkerRead, ringVars
<1>15. ASSUME WorkerEcho PROVE TypeOK'
  <2>1. wbuf # <<>> /\ wbuf \in Seq(Lines) /\ stdoutPipe \in Seq(Lines)
    BY <1>15 DEF WorkerEcho, TypeOK
  <2>2. /\ Head(wbuf) \in Lines /\ Tail(wbuf) \in Seq(Lines)
        /\ Append(stdoutPipe, Head(wbuf)) \in Seq(Lines)
    BY <2>1
  <2>3. QED BY <1>1, <1>4, <1>15, <2>2 DEF TypeOK, WorkerEcho, ringVars
<1>16. ASSUME WorkerCrash \/ WorkerKilled \/ WorkerEnd PROVE TypeOK'
  <2>1. Append(stdoutPipe, Noise) \in Seq(Lines) /\ <<>> \in Seq(Lines)
    BY DEF TypeOK, Lines
  <2>2. crashes < MaxCrashes => crashes + 1 \in 0 .. MaxCrashes
    BY MaxCrashesAssumption DEF TypeOK
  <2>3. CASE WorkerCrash
    BY <1>1, <1>4, <2>1, <2>2, <2>3 DEF TypeOK, WorkerCrash, ringVars
  <2>4. CASE WorkerKilled
    BY <1>1, <1>4, <2>1, <2>2, <2>4 DEF TypeOK, WorkerKilled, ringVars, pipeVars
  <2>5. CASE WorkerEnd
    BY <1>1, <1>4, <2>1, <2>5 DEF TypeOK, WorkerEnd, ringVars, pipeVars
  <2>6. QED BY <1>16, <2>3, <2>4, <2>5
<1>17. ASSUME Terminated PROVE TypeOK'
  BY <1>1, <1>4, <1>17 DEF TypeOK, Terminated, vars, ringVars, pipeVars, childVars
<1>18. QED
  BY <1>5, <1>6, <1>7, <1>8, <1>10, <1>11, <1>12, <1>13, <1>14, <1>15, <1>16, <1>17
  DEF Next

(* No step leaves a handler waiting for something that is no longer there.  *)
LEMMA ReadyStep ==
  ASSUME TypeOK, ReadyInv, Next
  PROVE  ReadyInv'
<1>1. ReadyInv' <=>
        /\ "give" \in ToSet(ready') => feed' = <<>> /\ Len(commands') < BufferSize /\ input' # <<>>
        /\ "feed" \in ToSet(ready') <=> feed' # <<>>
        /\ Len(feed') <= 1
        /\ "line" \in ToSet(ready') => stdoutPipe' # <<>>
        /\ "byte" \in ToSet(ready') => resendPipe' # <<>> /\ it' = NoSlot
        /\ "resend" \in ToSet(ready') <=> it' # NoSlot
  BY DEF ReadyInv, Waits, HasRoom, NoSlot
<1>2. /\ "give" \in ToSet(ready) => feed = <<>> /\ Len(commands) < BufferSize /\ input # <<>>
      /\ "feed" \in ToSet(ready) <=> feed # <<>>
      /\ Len(feed) <= 1
      /\ "line" \in ToSet(ready) => stdoutPipe # <<>>
      /\ "byte" \in ToSet(ready) => resendPipe # <<>> /\ it = NoSlot
      /\ "resend" \in ToSet(ready) <=> it # NoSlot
  BY DEF ReadyInv, Waits, HasRoom
<1>3. \A h : Runs(h) =>
        /\ h \in ToSet(ready)
        /\ \A g : g \in ToSet(Taken(h)) <=> g \in ToSet(ready) /\ g # h
  BY Popped
<1>4. \A h : \A k \in AllHandlers : Runs(h) /\ (k \notin ToSet(ready) \/ k = h) =>
        \A g : g \in ToSet(Append(Taken(h), k)) <=> (g \in ToSet(ready) /\ g # h) \/ g = k
  BY PoppedAnd
<1>5. ASSUME NEW h \in Handlers, Queue(h) PROVE ReadyInv'
  <2>1. /\ h \in AllHandlers /\ h \notin ToSet(ready) /\ ready' = Append(ready, h)
        /\ h # "feed" /\ h # "resend"
    BY <1>5 DEF Queue, AllHandlers, Handlers
  <2>2. \A g : g \in ToSet(ready') <=> g \in ToSet(ready) \/ g = h
    BY <2>1, Typed, QueueAppend
  <2>3. /\ h = "give" => input # <<>> /\ feed = <<>> /\ Len(commands) < BufferSize
        /\ h = "line" => stdoutPipe # <<>>
        /\ h = "byte" => resendPipe # <<>> /\ it = NoSlot
    BY <1>5 DEF Queue, HasEvent, HasRoom
  <2>4. UNCHANGED <<input, feed, commands, stdoutPipe, resendPipe, it>>
    BY <1>5 DEF Queue, ringVars, pipeVars
  <2>5. QED BY <1>1, <1>2, <2>1, <2>2, <2>3, <2>4
<1>6. ASSUME Give PROVE ReadyInv'
  <2>1. feed = <<>> /\ "feed" \notin ToSet(ready)
    BY <1>2, <1>3, <1>6 DEF Give
  <2>2. \A g : g \in ToSet(ready') <=> (g \in ToSet(ready) /\ g # "give") \/ g = "feed"
    BY <1>4, <1>6, <2>1 DEF Give, AllHandlers
  <2>3. feed' # <<>> /\ Len(feed') = 1 /\ UNCHANGED <<commands, stdoutPipe, resendPipe, it>>
    BY <1>6 DEF Give, ringVars
  <2>4. QED BY <1>1, <1>2, <2>2, <2>3
<1>7. ASSUME Feed PROVE ReadyInv'
  <2>1. /\ "feed" \in ToSet(ready) /\ "give" \notin ToSet(ready)
        /\ \A g : g \in ToSet(ready') <=> g \in ToSet(ready) /\ g # "feed"
    BY <1>2, <1>3, <1>7 DEF Feed
  <2>2. feed' = <<>> /\ Len(feed') = 0 /\ UNCHANGED <<stdoutPipe, resendPipe, it>>
    BY <1>7 DEF Feed, pipeVars
  <2>3. QED BY <1>1, <1>2, <2>1, <2>2
<1>8. ASSUME Line PROVE ReadyInv'
  <2>1. \A g : g \in ToSet(ready') <=> g \in ToSet(ready) /\ g # "line"
    BY <1>3, <1>8 DEF Line
  <2>2. /\ Len(commands) < BufferSize => Len(commands') < BufferSize
        /\ UNCHANGED <<input, feed, resendPipe, it>>
    BY <1>8, ChildBufferAssumption DEF Line, Matches, TypeOK
  <2>3. QED BY <1>1, <1>2, <2>1, <2>2
<1>9. ASSUME Byte PROVE ReadyInv'
  <2>1. it = NoSlot /\ "resend" \notin ToSet(ready) /\ Runs("byte")
    BY <1>2, <1>3, <1>9 DEF Byte
  <2>2. UNCHANGED <<input, feed, commands, stdoutPipe>>
    BY <1>9 DEF Byte
  <2>3. \/ it' = NoSlot /\ ready' = Taken("byte")
        \/ it' = first /\ ready' = Append(Taken("byte"), "resend")
    BY <1>9, <2>1 DEF Byte, Rewrite, ResendFrom
  <2>4. first # NoSlot
    BY Typed DEF TypeOK
  <2>5. CASE it' = NoSlot
    <3>1. \A g : g \in ToSet(ready') <=> g \in ToSet(ready) /\ g # "byte"
      BY <1>3, <2>1, <2>3, <2>4, <2>5
    <3>2. QED BY <1>1, <1>2, <2>1, <2>2, <2>5, <3>1
  <2>6. CASE it' # NoSlot
    <3>1. \A g : g \in ToSet(ready') <=> (g \in ToSet(ready) /\ g # "byte") \/ g = "resend"
      <4>1. ready' = Append(Taken("byte"), "resend")
        BY <2>3, <2>6
      <4>2. "resend" \in AllHandlers
        BY DEF AllHandlers
      <4>3. QED BY <1>4, <2>1, <4>1, <4>2
    <3>2. QED BY <1>1, <1>2, <2>1, <2>2, <2>6, <3>1
  <2>7. QED BY <2>5, <2>6
<1>10. ASSUME Resend PROVE ReadyInv'
  <2>1. it # NoSlot /\ "byte" \notin ToSet(ready) /\ Runs("resend")
    BY <1>2, <1>3, <1>10 DEF Resend
  <2>2. UNCHANGED <<input, feed, commands, stdoutPipe, resendPipe>>
    BY <1>10 DEF Resend
  <2>3. \/ it' = NoSlot /\ ready' = Taken("resend")
        \/ it' = NextSlot /\ ready' = Append(Taken("resend"), "resend")
    BY <1>10 DEF Resend, Rewrite
  <2>4. NextSlot # NoSlot
    BY <2>1, Typed, NextOffset DEF TypeOK, NextSlot
  <2>5. CASE it' = NoSlot
    <3>1. \A g : g \in ToSet(ready') <=> g \in ToSet(ready) /\ g # "resend"
      BY <1>3, <2>1, <2>3, <2>4, <2>5
    <3>2. QED BY <1>1, <1>2, <2>1, <2>2, <2>5, <3>1
  <2>6. CASE it' # NoSlot
    <3>1. \A g : g \in ToSet(ready') <=> (g \in ToSet(ready) /\ g # "resend") \/ g = "resend"
      BY <1>4, <2>1, <2>3, <2>6 DEF AllHandlers
    <3>2. QED BY <1>1, <1>2, <2>1, <2>2, <2>6, <3>1
  <2>7. QED BY <2>5, <2>6
<1>11. ASSUME UNCHANGED <<input, ready, feed, commands, it>>,
              resendPipe # <<>> => resendPipe' # <<>>,
              stdoutPipe # <<>> => stdoutPipe' # <<>>
       PROVE  ReadyInv'
  BY <1>1, <1>2, <1>11
<1>12. ASSUME InputDone \/ Close \/ Waited \/ Reap \/ WorkerRead \/ WorkerKilled \/ WorkerEnd
              \/ Terminated
       PROVE  ReadyInv'
  BY <1>11, <1>12
  DEF InputDone, Close, Waited, Reap, WorkerRead, WorkerKilled, WorkerEnd, Terminated,
      vars, ringVars, pipeVars
<1>13. ASSUME Fork \/ WorkerGone PROVE ReadyInv'
  <2>1. \A b \in {"r", "x"} : Append(resendPipe, b) # <<>>
    BY AppendNotEmpty DEF TypeOK
  <2>2. QED BY <1>11, <1>13, <2>1 DEF Fork, WorkerGone, ringVars
<1>14. ASSUME WorkerEcho \/ WorkerCrash PROVE ReadyInv'
  <2>1. \A line \in Lines : Append(stdoutPipe, line) # <<>>
    BY AppendNotEmpty DEF TypeOK
  <2>2. Noise \in Lines /\ (wbuf # <<>> => Head(wbuf) \in Lines)
    BY DEF TypeOK, Lines
  <2>3. stdoutPipe # <<>> => stdoutPipe' # <<>>
    BY <1>14, <2>1, <2>2 DEF WorkerEcho, WorkerCrash
  <2>4. QED BY <1>11, <1>14, <2>3 DEF WorkerEcho, WorkerCrash, ringVars
<1>15. QED
  BY <1>5, <1>6, <1>7, <1>8, <1>9, <1>10, <1>12, <1>13, <1>14 DEF Next

(* Once input_complete is set there are no more jobs, a closed stdin means  *)
(* that nothing is outstanding, and the supervisor gives up for a reason.   *)
LEMMA PhaseStep ==
  ASSUME TypeOK, ReadyInv, PhaseInv, Next
  PROVE  PhaseInv'
<1>1. \A h : Runs(h) => h \in ToSet(ready)
  BY Popped
<1>2. ASSUME NEW h \in Handlers, Queue(h) PROVE PhaseInv'
  BY <1>2 DEF Queue, PhaseInv, Down, AllDoneHere, ringVars, pipeVars, childVars
<1>3. ASSUME Give PROVE PhaseInv'
  <2>1. ~inputComplete
    BY <1>1, <1>3 DEF Give, ReadyInv, Waits, PhaseInv
  <2>2. QED BY <1>3, <2>1 DEF Give, PhaseInv, Down, AllDoneHere, ringVars, childVars
<1>4. ASSUME Feed PROVE PhaseInv'
  <2>1. ~inputComplete
    BY <1>1, <1>4 DEF Feed, ReadyInv, Waits, PhaseInv
  <2>2. QED BY <1>4, <2>1 DEF Feed, PhaseInv, Down, AllDoneHere, pipeVars, childVars
<1>5. ASSUME Line PROVE PhaseInv'
  <2>1. commands = <<>> => commands' = <<>>
    BY <1>5 DEF Line, Matches
  <2>2. QED BY <1>5, <2>1 DEF Line, PhaseInv, Down, AllDoneHere, childVars
<1>6. ASSUME Byte PROVE PhaseInv'
  <2>1. "byte" \in ToSet(ready) /\ resendPipe # <<>>
    BY <1>1, <1>6 DEF Byte, ReadyInv, Waits
  <2>2. sup' = sup \/ (sup' = "exited" /\ AllDoneHere)
    BY <1>6 DEF Byte, Kill
  <2>3. \A n \in DOMAIN resendPipe' : n + 1 \in DOMAIN resendPipe /\ resendPipe'[n] = resendPipe[n + 1]
    BY <1>6, <2>1 DEF Byte, TypeOK
  <2>4. /\ UNCHANGED <<input, inputComplete, feed, commands, closed, worker, wbuf>>
    BY <1>6 DEF Byte
  <2>5. QED BY <2>2, <2>3, <2>4 DEF PhaseInv, Down, AllDoneHere
<1>7. ASSUME Resend PROVE PhaseInv'
  BY <1>7 DEF Resend, PhaseInv, Down, AllDoneHere, childVars
<1>8. ASSUME InputDone \/ Close \/ Waited \/ Reap PROVE PhaseInv'
  BY <1>8 DEF InputDone, Close, NothingOutstanding, Waited, Reap, PhaseInv, Down, AllDoneHere,
              ringVars, pipeVars, childVars
<1>9. ASSUME Fork PROVE PhaseInv'
  <2>1. worker = "none" /\ \A n \in DOMAIN resendPipe : resendPipe[n] # "x"
    BY <1>9 DEF Fork, PhaseInv
  <2>2. CASE worker' = "up" /\ UNCHANGED resendPipe
    BY <1>9, <2>1, <2>2 DEF Fork, PhaseInv, Down, AllDoneHere, ringVars
  <2>3. CASE worker' = "failed"
    BY <1>9, <2>1, <2>3 DEF Fork, PhaseInv, Down, AllDoneHere, ringVars
  <2>4. QED BY <1>9, <2>2, <2>3 DEF Fork
<1>10. ASSUME WorkerGone PROVE PhaseInv'
  <2>1. CASE ExitedZero /\ sup' = "exited" /\ UNCHANGED <<worker, resendPipe>>
    <3>1. Down \/ AllDoneHere
      BY <2>1 DEF ExitedZero, Down, PhaseInv, AllDoneHere
    <3>2. QED BY <1>10, <2>1, <3>1 DEF WorkerGone, PhaseInv, Down, AllDoneHere, ringVars
  <2>2. CASE worker = "crashed" /\ sup' = "fork" /\ worker' = "none"
             /\ resendPipe' = Append(resendPipe, "r")
    <3>1. \A n \in DOMAIN resendPipe : resendPipe[n] # "x"
      BY <2>2 DEF PhaseInv
    <3>2. \A n \in DOMAIN resendPipe' : resendPipe'[n] # "x"
      BY <2>2, <3>1 DEF TypeOK
    <3>3. QED BY <1>10, <2>2, <3>2 DEF WorkerGone, PhaseInv, Down, AllDoneHere, ringVars
  <2>3. QED BY <1>10, <2>1, <2>2 DEF WorkerGone
<1>11. ASSUME WorkerRead \/ WorkerEcho \/ WorkerCrash \/ WorkerKilled \/ WorkerEnd PROVE PhaseInv'
  <2>1. worker = "up" /\ \A n \in DOMAIN resendPipe : resendPipe[n] # "x"
    BY <1>11 DEF WorkerRead, WorkerEcho, WorkerCrash, WorkerKilled, WorkerEnd, PhaseInv
  <2>2. QED
    BY <1>11, <2>1
    DEF WorkerRead, WorkerEcho, WorkerCrash, WorkerKilled, WorkerEnd, PhaseInv, Down,
        AllDoneHere, ringVars, pipeVars
<1>12. ASSUME Terminated PROVE PhaseInv'
  BY <1>12 DEF Terminated, vars, PhaseInv, Down, AllDoneHere, ringVars, pipeVars, childVars
<1>13. QED
  BY <1>2, <1>3, <1>4, <1>5, <1>6, <1>7, <1>8, <1>9, <1>10, <1>11, <1>12 DEF Next

(* What comes out of stdout a worker has executed, and what is popped has   *)
(* come out of stdout.                                                      *)
LEMMA EchoStep ==
  ASSUME TypeOK, ReadyInv, EchoInv, Next
  PROVE  EchoInv'
<1>1. EchoInv' <=>
        /\ \A n \in DOMAIN stdoutPipe' : stdoutPipe'[n] = Noise \/ stdoutPipe'[n] \in executed'
        /\ \A n \in DOMAIN reported' : reported'[n] \in executed'
  BY DEF EchoInv, ReportedWasExecuted, ToSet
<1>2. /\ \A n \in DOMAIN stdoutPipe : stdoutPipe[n] = Noise \/ stdoutPipe[n] \in executed
      /\ \A n \in DOMAIN reported : reported[n] \in executed
  BY DEF EchoInv, ReportedWasExecuted, ToSet
<1>3. stdoutPipe \in Seq(Lines) /\ reported \in Seq(Jobs) /\ commands \in Seq(Jobs)
      /\ wbuf \in Seq(Lines)
  BY DEF TypeOK
<1>4. ASSUME Line PROVE EchoInv'
  <2>1. stdoutPipe # <<>>
    BY <1>4, Popped DEF Line, ReadyInv, Waits
  <2>2. stdoutPipe' = Tail(stdoutPipe) /\ executed' = executed
    BY <1>4 DEF Line, childVars
  <2>3. \A n \in DOMAIN stdoutPipe' : n + 1 \in DOMAIN stdoutPipe /\ stdoutPipe'[n] = stdoutPipe[n + 1]
    BY <1>3, <2>1, <2>2
  <2>4. CASE ~Matches(Head(stdoutPipe))
    BY <1>1, <1>2, <1>4, <2>2, <2>3, <2>4 DEF Line
  <2>5. CASE Matches(Head(stdoutPipe))
    <3>1. /\ commands # <<>> /\ Head(commands) = stdoutPipe[1] /\ 1 \in DOMAIN stdoutPipe
          /\ reported' = Append(reported, Head(commands))
      BY <1>3, <1>4, <2>1, <2>5 DEF Line, Matches
    <3>2. Head(commands) \in Jobs
      BY <1>3, <3>1
    <3>3. Head(commands) \in executed
      BY <1>2, <3>1, <3>2, LinesAssumption
    <3>4. \A n \in DOMAIN reported' :
            reported'[n] = Head(commands) \/ (n \in DOMAIN reported /\ reported'[n] = reported[n])
      BY <1>3, <3>1, <3>2
    <3>5. QED BY <1>1, <1>2, <2>2, <2>3, <3>3, <3>4
  <2>6. QED BY <2>4, <2>5
<1>5. ASSUME NEW line \in Lines, stdoutPipe' = Append(stdoutPipe, line),
             line = Noise \/ line \in executed', executed \subseteq executed', reported' = reported
      PROVE  EchoInv'
  <2>1. \A n \in DOMAIN stdoutPipe' :
          stdoutPipe'[n] = line \/ (n \in DOMAIN stdoutPipe /\ stdoutPipe'[n] = stdoutPipe[n])
    BY <1>3, <1>5
  <2>2. QED BY <1>1, <1>2, <1>5, <2>1
<1>6. ASSUME UNCHANGED <<stdoutPipe, reported, executed>> PROVE EchoInv'
  BY <1>1, <1>2, <1>6
<1>7. ASSUME WorkerEcho PROVE EchoInv'
  <2>1. Head(wbuf) \in Lines
    BY <1>3, <1>7 DEF WorkerEcho
  <2>2. QED BY <1>5, <1>7, <2>1 DEF WorkerEcho, ringVars
<1>8. ASSUME WorkerCrash PROVE EchoInv'
  <2>1. Noise \in Lines
    BY DEF Lines
  <2>2. QED BY <1>5, <1>6, <1>8, <2>1 DEF WorkerCrash, ringVars
<1>9. ASSUME Next, ~Line, ~WorkerEcho, ~WorkerCrash PROVE UNCHANGED <<stdoutPipe, reported, executed>>
  BY <1>9
  DEF Next, Queue, Give, Feed, Byte, Resend, InputDone, Close, Waited, Reap, Fork, WorkerGone,
      WorkerRead, WorkerKilled, WorkerEnd, Terminated, vars, ringVars, pipeVars, childVars
<1>10. QED BY <1>4, <1>6, <1>7, <1>8, <1>9

(* The resend loop finds a job, or stdin is still open: no write to a       *)
(* closed stdin.                                                            *)
LEMMA CloseStep ==
  ASSUME TypeOK, ReadyInv, LoopInv, PhaseInv, NoWriteAfterClose, Next
  PROVE  NoWriteAfterClose'
<1>1. ASSUME Byte PROVE NoWriteAfterClose'
  <2>1. commands # <<>> => ~closed
    BY DEF PhaseInv
  <2>2. QED BY <1>1, <2>1 DEF Byte, Rewrite, NoWriteAfterClose, ExecFailureExit
<1>2. ASSUME Resend PROVE NoWriteAfterClose'
  <2>1. it # NoSlot
    BY <1>2, Popped DEF Resend, ReadyInv, Waits
  <2>2. NextSlot # PastLast => Live(NextSlot) /\ NextSlot \in Slots
    BY <2>1, LoopGoesOn
  <2>3. NextSlot # PastLast => ~closed
    <3>1. ASSUME Live(NextSlot), NextSlot \in Slots, closed PROVE FALSE
      <4>1. commands = <<>>
        BY <3>1 DEF PhaseInv
      <4>2. Len(commands) = 0
        BY <4>1
      <4>3. R!Offset(first, NextSlot) \in 0 .. BufferSize - 1
        BY <3>1, OffsetValue DEF TypeOK
      <4>4. R!Offset(first, NextSlot) < Len(commands)
        BY <3>1 DEF Live, R!Live
      <4>5. QED BY <4>2, <4>3, <4>4, ChildBufferAssumption
    <3>2. QED BY <2>2, <3>1
  <2>4. QED BY <1>2, <2>3 DEF Resend, Rewrite, NoWriteAfterClose
<1>3. ASSUME Next, ~Byte, ~Resend PROVE outcome' \in {outcome, "finished", "exit4"}
  BY <1>3
  DEF Next, Queue, Give, Feed, Line, InputDone, Close, Waited, Reap, Fork, WorkerGone,
      WorkerRead, WorkerEcho, WorkerCrash, WorkerKilled, WorkerEnd, Terminated, vars
<1>4. QED BY <1>1, <1>2, <1>3 DEF NoWriteAfterClose

(* A pop under the resend loop is possible only while the slot of the loop  *)
(* holds a job: the loop then goes on at the new front before there can be  *)
(* another pop, and before the ring is full.                                *)
LEMMA LoopStep ==
  ASSUME TypeOK, ReadyInv, LoopInv, Next
  PROVE  LoopInv'
<1> DEFINE n == Len(commands)
           o == R!Offset(first, it)
           PoppedNext ==
             /\ R!Slot(it' + 1) = first'
             /\ ~Pre(ready', "line", "resend")
             /\ Len(commands') < BufferSize
             /\ Pre(ready', "feed", "resend") => Len(commands') + 1 < BufferSize
           PoppedNow ==
             /\ R!Slot(it + 1) = first
             /\ ~Pre(ready, "line", "resend")
             /\ Len(commands) < BufferSize
             /\ Pre(ready, "feed", "resend") => Len(commands) + 1 < BufferSize
<1>1. LoopInv' <=> (it' # NoSlot => R!Offset(first', it') < Len(commands') \/ PoppedNext)
  BY DEF LoopInv, Live, R!Live, PoppedUnderLoop, Before, Pre, NoSlot
<1>2. it # NoSlot => o < n \/ PoppedNow
  BY DEF LoopInv, Live, R!Live, PoppedUnderLoop, Before, Pre
<1>3. /\ BufferSize \in Nat \ {0} /\ n \in 0 .. BufferSize /\ Len(feed) \in Nat
      /\ n + Len(feed) <= BufferSize
      /\ first \in Slots
      /\ it # NoSlot => it \in Slots
      /\ commands \in Seq(Jobs) /\ feed \in Seq(Jobs)
  BY Typed DEF TypeOK
<1>4. it # NoSlot => o \in 0 .. BufferSize - 1
  BY <1>3, OffsetValue
<1>5. /\ "feed" \in ToSet(ready) <=> feed # <<>>
      /\ Len(feed) <= 1
      /\ "resend" \in ToSet(ready) <=> it # NoSlot
      /\ "byte" \in ToSet(ready) => it = NoSlot
  BY DEF ReadyInv, Waits
<1>6. feed # <<>> => Len(feed) = 1
  <2>1. feed \in Seq(Jobs) /\ Len(feed) \in Nat /\ Len(feed) <= 1
    BY <1>3, <1>5
  <2>2. feed # <<>> => Len(feed) # 0
    BY <2>1
  <2> DEFINE m == Len(feed)
  <2>3. m \in Nat /\ m <= 1 /\ (feed # <<>> => m # 0)
    BY <2>1, <2>2
  <2> HIDE DEF m
  <2>4. feed # <<>> => m = 1
    BY <2>3
  <2>5. QED BY <2>4 DEF m
<1>7. \A h : Runs(h) =>
        /\ h \in ToSet(ready)
        /\ \A g : g \in ToSet(Taken(h)) <=> g \in ToSet(ready) /\ g # h
        /\ \A g, k : Pre(Taken(h), g, k) <=> Pre(ready, g, k) /\ g # h
        /\ \A g : Pre(ready, h, g) <=> g \in ToSet(ready) /\ g # h
        /\ \A g : ~Pre(ready, g, h)
  BY Popped
<1> HIDE DEF n, o, PoppedNow
<1>8. ASSUME UNCHANGED <<it, first, commands>>,
             \A g \in {"line", "feed"} : Pre(ready', g, "resend") => Pre(ready, g, "resend")
      PROVE  LoopInv'
  BY <1>1, <1>2, <1>8 DEF PoppedNow, n, o
<1>9. ASSUME NEW h \in Handlers, Queue(h) PROVE LoopInv'
  <2>1. /\ h \in AllHandlers /\ h \notin ToSet(ready) /\ ready' = Append(ready, h)
        /\ h # "resend"
    BY <1>9 DEF Queue, AllHandlers, Handlers
  <2>2. \A g : Pre(ready', g, "resend") <=> Pre(ready, g, "resend")
    BY <2>1, Typed, QueueAppend
  <2>3. QED BY <1>8, <1>9, <2>2 DEF Queue, ringVars
<1>10. ASSUME Give PROVE LoopInv'
  <2>1. feed = <<>>
    BY <1>7, <1>10 DEF Give, ReadyInv, Waits
  <2>2. "feed" \in AllHandlers /\ "feed" \notin ToSet(ready)
    BY <1>5, <2>1 DEF AllHandlers
  <2>3. \A g : Pre(ready', g, "resend") => Pre(ready, g, "resend")
    BY <1>10, <2>2, PoppedAnd DEF Give
  <2>4. QED BY <1>8, <1>10, <2>3 DEF Give, ringVars
<1>11. ASSUME Feed PROVE LoopInv'
  <2>1. /\ commands' = commands \o feed /\ first' = first /\ it' = it
        /\ feed # <<>> /\ ready' = Taken("feed")
    BY <1>5, <1>7, <1>11 DEF Feed
  <2>2. Len(commands') = n + 1
    <3>1. Len(feed) = 1
      BY <1>6, <2>1
    <3>2. Len(commands \o feed) = n + Len(feed)
      BY <1>3 DEF n
    <3>3. QED BY <2>1, <3>1, <3>2
  <2>3. /\ ~Pre(ready', "feed", "resend")
        /\ Pre(ready', "line", "resend") => Pre(ready, "line", "resend")
    BY <1>7, <1>11, <2>1 DEF Feed
  <2>4. it # NoSlot => Pre(ready, "feed", "resend")
    BY <1>5, <1>7, <1>11 DEF Feed
  <2>5. ASSUME it # NoSlot, PoppedNow PROVE PoppedNext
    BY <2>1, <2>2, <2>3, <2>4, <2>5 DEF PoppedNow, n
  <2>6. ASSUME it # NoSlot, o < n PROVE R!Offset(first', it') < Len(commands')
    BY <1>3, <1>4, <2>1, <2>2, <2>6 DEF o
  <2>7. QED BY <1>1, <1>2, <2>1, <2>5, <2>6
<1>12. ASSUME Line PROVE LoopInv'
  <2>1. Runs("line") /\ ready' = Taken("line") /\ it' = it
    BY <1>12 DEF Line
  <2>2. /\ ~Pre(ready', "line", "resend")
        /\ Pre(ready', "feed", "resend") => Pre(ready, "feed", "resend")
    BY <1>7, <2>1
  <2>3. CASE ~Matches(Head(stdoutPipe))
    BY <1>8, <1>12, <2>1, <2>2, <2>3 DEF Line
  <2>4. CASE Matches(Head(stdoutPipe)) /\ it # NoSlot
    <3>1. commands # <<>> /\ commands' = Tail(commands) /\ first' = R!Slot(first + 1)
      BY <1>12, <2>4 DEF Line, Matches
    <3>2. Len(commands') = n - 1 /\ n > 0
      BY <1>3, <3>1 DEF n
    <3>3. Pre(ready, "line", "resend")
      BY <1>5, <1>7, <2>1, <2>4
    <3>4. o < n
      BY <1>2, <2>4, <3>3 DEF PoppedNow
    <3>5. R!Offset(first', it) = IF o = 0 THEN BufferSize - 1 ELSE o - 1
      BY <1>3, <2>4, <3>1, NextOffset DEF o
    <3>6. CASE o = 0
      <4>1. it = first
        BY <1>3, <2>4, <3>6, NextOffset DEF o
      <4>2. Len(commands') < BufferSize
        BY <1>3, <3>2
      <4>3. Pre(ready', "feed", "resend") => Len(commands') + 1 < BufferSize
        <5>1. ASSUME Pre(ready', "feed", "resend") PROVE Len(feed) = 1
          BY <1>5, <1>6, <2>2, <5>1, QueueMembers
        <5>2. Len(feed) = 1 => Len(commands') + 1 < BufferSize
          BY <1>3, <3>2
        <5>3. QED BY <5>1, <5>2
      <4>4. QED BY <1>1, <2>1, <2>2, <3>1, <4>1, <4>2, <4>3
    <3>7. CASE o # 0
      <4>1. R!Offset(first', it') < Len(commands')
        BY <1>3, <1>4, <2>1, <2>4, <3>2, <3>4, <3>5, <3>7
      <4>2. QED BY <1>1, <4>1
    <3>8. QED BY <3>6, <3>7
  <2>5. CASE it = NoSlot
    BY <1>1, <2>1, <2>5
  <2>6. QED BY <2>3, <2>4, <2>5
<1>13. ASSUME Byte PROVE LoopInv'
  <2>1. it = NoSlot
    BY <1>5, <1>7, <1>13 DEF Byte
  <2>2. it' = NoSlot \/ (it' = first /\ commands # <<>>)
    BY <1>13, <2>1 DEF Byte, Rewrite, ResendFrom
  <2>3. first' = first /\ commands' = commands
    BY <1>13 DEF Byte
  <2>4. ASSUME commands # <<>> PROVE R!Offset(first, first) < Len(commands)
    <3>1. R!Offset(first, first) = 0
      BY <1>3, NextOffset
    <3>2. Len(commands) \in Nat \ {0}
      BY <1>3, <2>4, EmptySeq
    <3>3. QED BY <3>1, <3>2
  <2>5. QED BY <1>1, <2>2, <2>3, <2>4
<1>14. ASSUME Resend PROVE LoopInv'
  <2>1. it # NoSlot
    BY <1>5, <1>7, <1>14 DEF Resend
  <2>2. it' = NoSlot \/ (it' = NextSlot /\ NextSlot # PastLast)
    BY <1>14 DEF Resend, Rewrite
  <2>3. NextSlot # PastLast => R!Offset(first, NextSlot) < Len(commands)
    BY <2>1, LoopGoesOn DEF Live, R!Live
  <2>4. first' = first /\ commands' = commands
    BY <1>14 DEF Resend
  <2>5. QED BY <1>1, <2>2, <2>3, <2>4
<1>15. ASSUME Next, \A h \in Handlers : ~Queue(h), ~Give, ~Feed, ~Line, ~Byte, ~Resend
       PROVE  LoopInv'
  <2>1. UNCHANGED <<ready, it, first, commands>>
    BY <1>15
    DEF Next, InputDone, Close, Waited, Reap, Fork, WorkerGone, WorkerRead, WorkerEcho,
        WorkerCrash, WorkerKilled, WorkerEnd, Terminated, vars, ringVars, pipeVars, childVars
  <2>2. QED BY <1>8, <2>1
<1>16. QED BY <1>9, <1>10, <1>11, <1>12, <1>13, <1>14, <1>15

-----------------------------------------------------------------------------
(* What the resend loop has still to write, of any ring and any queue.      *)
ToWrite(q, ring, f, s, fd) ==
  IF s = NoSlot THEN <<>>
  ELSE IF R!Behind(ring, f, s) # <<>> \/ Pre(q, "feed", "resend") THEN R!Behind(ring, f, s) \o fd
  ELSE <<>>

(* The jobs behind a slot.                                                  *)
LEMMA BehindType ==
  ASSUME NEW ring \in Seq(Jobs), NEW f \in Slots, NEW s \in Slots
  PROVE  R!Behind(ring, f, s) \in Seq(Jobs)
<1> DEFINE o == R!Offset(f, s)
           k == IF o < Len(ring) THEN o + 2 ELSE 1
<1>1. BufferSize \in Nat \ {0} /\ o \in 0 .. BufferSize - 1 /\ Len(ring) \in Nat
  BY OffsetValue, ChildBufferAssumption
<1>2. R!Behind(ring, f, s) = SubSeq(ring, k, Len(ring))
  BY DEF R!Behind, R!Live
<1> HIDE DEF o
<1>3. k \in Nat \ {0}
  BY <1>1
<1> HIDE DEF k
<1>4. \A i \in k .. Len(ring) : ring[i] \in Jobs
  BY <1>1, <1>3
<1>5. SubSeq(ring, k, Len(ring)) \in Seq(Jobs)
  BY <1>1, <1>3, <1>4, SubSeqProperties
<1>6. QED BY <1>2, <1>5

(* A job that is pushed comes behind all the others, if the ring does not   *)
(* fill up under the loop.                                                  *)
LEMMA BehindPush ==
  ASSUME NEW ring \in Seq(Jobs), NEW fd \in Seq(Jobs), NEW f \in Slots, NEW s \in Slots,
         R!Live(ring, f, s) \/ (R!Slot(s + 1) = f /\ Len(ring) + Len(fd) < BufferSize)
  PROVE  R!Behind(ring \o fd, f, s) = R!Behind(ring, f, s) \o fd
<1> DEFINE o == R!Offset(f, s)
           n == Len(ring)
           m == Len(fd)
           k == IF o < n THEN o + 2 ELSE 1
           r == ring \o fd
<1>1. BufferSize \in Nat \ {0} /\ o \in 0 .. BufferSize - 1 /\ n \in Nat /\ m \in Nat
  BY OffsetValue, ChildBufferAssumption
<1>2. o < n \/ (o = BufferSize - 1 /\ n + m < BufferSize)
  BY NextOffset DEF R!Live
<1>3. Len(r) = n + m
  OBVIOUS
<1>4. R!Behind(ring, f, s) = SubSeq(ring, k, n)
  BY DEF R!Behind, R!Live
<1>5. R!Behind(r, f, s) = SubSeq(r, IF o < Len(r) THEN o + 2 ELSE 1, Len(r))
  BY DEF R!Behind, R!Live
<1> HIDE DEF o, n, m, r
<1>6. k \in 1 .. n + 1 /\ k = (IF o < n + m THEN o + 2 ELSE 1)
  BY <1>1, <1>2
<1> HIDE DEF k
<1>7. SubSeq(r, k, n + m) = SubSeq(ring, k, n) \o fd
  BY <1>6, EndConcat DEF r, n, m
<1>8. R!Behind(r, f, s) = SubSeq(r, k, n + m)
  BY <1>3, <1>5, <1>6
<1>9. QED BY <1>4, <1>7, <1>8 DEF r

(* Popping the front takes nothing from what is behind the loop.            *)
LEMMA BehindPop ==
  ASSUME NEW ring \in Seq(Jobs), ring # <<>>, Len(ring) <= BufferSize,
         NEW f \in Slots, NEW s \in Slots, R!Live(ring, f, s)
  PROVE  R!Behind(Tail(ring), R!Slot(f + 1), s) = R!Behind(ring, f, s)
<1> DEFINE o == R!Offset(f, s)
           p == R!Offset(R!Slot(f + 1), s)
           n == Len(ring)
           r == Tail(ring)
           k == IF p < n - 1 THEN p + 2 ELSE 1
<1>1. /\ BufferSize \in Nat \ {0} /\ o \in 0 .. BufferSize - 1 /\ n \in Nat \ {0}
      /\ n <= BufferSize
  BY OffsetValue, ChildBufferAssumption, EmptySeq
<1>2. p = IF o = 0 THEN BufferSize - 1 ELSE o - 1
  BY NextOffset
<1>3. Len(r) = n - 1 /\ r \in Seq(Jobs) /\ o < n
  BY DEF R!Live
<1>4. R!Behind(ring, f, s) = SubSeq(ring, o + 2, n)
  BY <1>3 DEF R!Behind, R!Live
<1>5. R!Behind(r, R!Slot(f + 1), s) = SubSeq(r, k, n - 1)
  BY <1>3 DEF R!Behind, R!Live
<1> HIDE DEF o, p, r
<1>6. k \in 1 .. n /\ k + 1 = o + 2
  BY <1>1, <1>2, <1>3
<1> HIDE DEF k
<1>7. SubSeq(r, k, n - 1) = SubSeq(ring, k + 1, n)
  BY <1>6, EndTail DEF r
<1>8. QED BY <1>4, <1>5, <1>6, <1>7 DEF r

(* Behind the front is the rest of the ring.                                *)
LEMMA BehindFront ==
  ASSUME NEW ring \in Seq(Jobs), ring # <<>>, NEW f \in Slots
  PROVE  /\ R!Live(ring, f, f) /\ R!Offset(f, f) = 0
         /\ ring = <<ring[1]>> \o R!Behind(ring, f, f)
<1>1. Len(ring) \in Nat \ {0}
  BY EmptySeq
<1>2. R!Offset(f, f) = 0
  BY NextOffset
<1>3. R!Behind(ring, f, f) = SubSeq(ring, 2, Len(ring)) /\ R!Live(ring, f, f)
  BY <1>1, <1>2 DEF R!Behind, R!Live
<1>4. SubSeq(ring, 1, Len(ring)) = <<ring[1]>> \o SubSeq(ring, 1 + 1, Len(ring))
  <2>1. 1 \in 1 .. Len(ring) /\ Len(ring) \in 1 .. Len(ring)
    BY <1>1
  <2>2. QED BY <2>1, SubSeqRecursiveFirst
<1>5. SubSeq(ring, 1, Len(ring)) = ring
  BY SubSeqFull
<1>6. 1 + 1 = 2
  OBVIOUS
<1>7. QED BY <1>2, <1>3, <1>4, <1>5, <1>6

(* A loop at a slot writes all that is behind it, and the job in flight if  *)
(* there is one that will be pushed in time.                                *)
LEMMA WritesAll ==
  ASSUME NEW q, NEW ring \in Seq(Jobs), NEW fd \in Seq(Jobs), NEW f \in Slots,
         NEW s \in Slots \cup {NoSlot},
         fd # <<>> => Pre(q, "feed", "resend") \/ s = NoSlot
  PROVE  /\ ToWrite(q, ring, f, s, fd) \in Seq(Jobs)
         /\ s # NoSlot => ToWrite(q, ring, f, s, fd) = R!Behind(ring, f, s) \o fd
<1>1. CASE s = NoSlot
  BY <1>1 DEF ToWrite
<1>2. CASE s # NoSlot
  <2> DEFINE b == R!Behind(ring, f, s)
  <2>1. b \in Seq(Jobs)
    BY <1>2, BehindType
  <2>2. ToWrite(q, ring, f, s, fd) = IF b # <<>> \/ Pre(q, "feed", "resend") THEN b \o fd ELSE <<>>
    BY <1>2 DEF ToWrite
  <2> HIDE DEF b
  <2>3. b \o fd \in Seq(Jobs) /\ (b = <<>> /\ fd = <<>> => b \o fd = <<>>)
    BY <2>1, ConcatEmptySeq
  <2>4. QED BY <1>2, <2>1, <2>2, <2>3 DEF b
<1>3. QED BY <1>1, <1>2

-----------------------------------------------------------------------------
(* The lines that handle_stdout has not taken when the job in flight is     *)
(* pushed, and when FeedInv speaks of them, of any queue.                   *)
LeftOf(q, out) == IF Pre(q, "line", "feed") THEN Tail(out) ELSE out
Unasked(w, q, r) ==
  w \in {"none", "up"} /\ (r = <<>> \/ (Len(r) = 1 /\ Pre(q, "byte", "feed")))

(* FeedInv in these terms.                                                  *)
LEMMA FeedInvIs ==
  FeedInv <=> (feed # <<>> /\ Unasked(worker, ready, resendPipe)
                 => Among(feed, (LeftOf(ready, stdoutPipe) \o wbuf) \o stdinPipe))
BY DEF FeedInv, Unasked, Lived, BehindLine, LeftOf, Before, Pre

(* The line of the job in flight stays on its way, unless a crash swallows  *)
(* it and asks for it again in time.                                        *)
LEMMA FeedStep ==
  ASSUME TypeOK, ReadyInv, LoopInv, PhaseInv, FeedInv, Next
  PROVE  FeedInv'
<1>1. FeedInv' <=> (feed' # <<>> /\ Unasked(worker', ready', resendPipe')
                      => Among(feed', (LeftOf(ready', stdoutPipe') \o wbuf') \o stdinPipe'))
  BY DEF FeedInv, Unasked, Lived, BehindLine, LeftOf, Before, Pre
<1>2. feed # <<>> /\ Unasked(worker, ready, resendPipe)
        => Among(feed, (LeftOf(ready, stdoutPipe) \o wbuf) \o stdinPipe)
  BY FeedInvIs
<1>3. /\ Seq(Jobs) \subseteq Seq(Lines)
      /\ stdoutPipe \in Seq(Lines) /\ wbuf \in Seq(Lines) /\ stdinPipe \in Seq(Lines)
      /\ feed \in Seq(Lines) /\ <<>> \in Seq(Lines)
  <2>1. Seq(Jobs) \subseteq Seq(Lines)
    BY DEF Lines
  <2>2. QED BY <2>1 DEF TypeOK
<1>4. /\ "feed" \in ToSet(ready) <=> feed # <<>>
      /\ "line" \in ToSet(ready) => stdoutPipe # <<>>
      /\ "byte" \in ToSet(ready) => resendPipe # <<>>
      /\ "give" \in ToSet(ready) => feed = <<>> /\ input # <<>>
  BY DEF ReadyInv, Waits
<1>5. LeftOf(ready, stdoutPipe) \in Seq(Lines)
  <2>1. Pre(ready, "line", "feed") => stdoutPipe # <<>>
    BY <1>4, QueueMembers
  <2>2. QED BY <1>3, <2>1 DEF LeftOf
<1>6. \A h : Runs(h) =>
        /\ h \in ToSet(ready)
        /\ \A g, k : Pre(Taken(h), g, k) <=> Pre(ready, g, k) /\ g # h
        /\ \A g : Pre(ready, h, g) <=> g \in ToSet(ready) /\ g # h
  BY Popped
<1>7. \A h : \A k \in AllHandlers : Runs(h) /\ (k \notin ToSet(ready) \/ k = h) =>
        \A g, x : Pre(Append(Taken(h), k), g, x) <=>
                     \/ Pre(ready, g, x) /\ g # h
                     \/ x = k /\ g \in ToSet(ready) /\ g # h
  BY PoppedAnd
<1>8. ASSUME UNCHANGED <<feed, stdoutPipe, wbuf>>,
             Pre(ready', "line", "feed") <=> Pre(ready, "line", "feed"),
             stdinPipe' = stdinPipe \/ \E line \in Lines : stdinPipe' = Append(stdinPipe, line),
             feed # <<>> /\ Unasked(worker', ready', resendPipe')
               => Unasked(worker, ready, resendPipe)
      PROVE  FeedInv'
  <2> DEFINE a == LeftOf(ready, stdoutPipe) \o wbuf
  <2>1. LeftOf(ready', stdoutPipe') = LeftOf(ready, stdoutPipe)
    BY <1>8 DEF LeftOf
  <2>2. a \in Seq(Lines)
    BY <1>3, <1>5
  <2> HIDE DEF a
  <2>3. ASSUME feed # <<>>, Unasked(worker, ready, resendPipe) PROVE Among(feed, a \o stdinPipe')
    <3>1. Among(feed, a \o stdinPipe)
      BY <1>2, <2>3 DEF a
    <3>2. CASE stdinPipe' = stdinPipe
      BY <3>1, <3>2
    <3>3. ASSUME NEW line \in Lines, stdinPipe' = Append(stdinPipe, line)
          PROVE  Among(feed, a \o stdinPipe')
      <4>1. <<line>> \in Seq(Lines) /\ stdinPipe' = stdinPipe \o <<line>>
        BY <1>3, <3>3, AppendIsConcat
      <4>2. a \o stdinPipe \in Seq(Lines)
        BY <1>3, <2>2
      <4>3. Among(feed, (a \o stdinPipe) \o <<line>>)
        BY <1>3, <3>1, <4>1, <4>2, AmongAround
      <4>4. (a \o stdinPipe) \o <<line>> = a \o (stdinPipe \o <<line>>)
        <5>1. stdinPipe \in Seq(Lines) /\ <<line>> \in Seq(Lines)
          BY <1>3, <4>1
        <5>2. QED BY <2>2, <5>1, ConcatAssociative
      <4>5. QED BY <4>1, <4>3, <4>4
    <3>4. QED BY <1>8, <3>2, <3>3
  <2>4. QED BY <1>1, <1>8, <2>1, <2>3 DEF a
<1>9. ASSUME NEW h \in Handlers, Queue(h) PROVE FeedInv'
  <2>1. /\ h \in AllHandlers /\ h \notin ToSet(ready) /\ ready' = Append(ready, h)
        /\ h # "feed"
    BY <1>9 DEF Queue, AllHandlers, Handlers
  <2>2. \A g : Pre(ready', g, "feed") <=> Pre(ready, g, "feed")
    BY <2>1, Typed, QueueAppend
  <2>3. UNCHANGED <<feed, stdoutPipe, wbuf, stdinPipe, resendPipe, worker>>
    BY <1>9 DEF Queue, pipeVars, childVars
  <2>4. QED BY <1>8, <2>2, <2>3 DEF Unasked
<1>10. ASSUME Give PROVE FeedInv'
  <2>1. /\ input # <<>> /\ feed' = <<Head(input)>> /\ wbuf' = wbuf /\ stdoutPipe' = stdoutPipe
        /\ stdinPipe' = Append(stdinPipe, Head(input)) /\ "feed" \notin ToSet(ready)
    BY <1>4, <1>6, <1>10 DEF Give, childVars
  <2>2. Head(input) \in Lines
    BY <2>1 DEF TypeOK, Lines
  <2>3. feed' \in Seq(Lines) /\ stdinPipe' = stdinPipe \o feed'
    BY <1>3, <2>1, <2>2, AppendIsConcat
  <2>4. LeftOf(ready', stdoutPipe') \in Seq(Lines)
    <3>1. "feed" \in AllHandlers
      BY DEF AllHandlers
    <3>2. Pre(ready', "line", "feed") => "line" \in ToSet(ready)
      BY <1>7, <1>10, <2>1, <3>1, QueueMembers DEF Give
    <3>3. QED BY <1>3, <1>4, <2>1, <3>2 DEF LeftOf
  <2> DEFINE a == LeftOf(ready', stdoutPipe') \o wbuf'
  <2>5. a \in Seq(Lines)
    BY <1>3, <2>1, <2>4
  <2> HIDE DEF a
  <2>6. Among(feed', (a \o stdinPipe) \o feed')
    <3>1. a \o stdinPipe \in Seq(Lines)
      BY <1>3, <2>5
    <3>2. QED BY <2>3, <3>1, AmongSuffix
  <2>7. (a \o stdinPipe) \o feed' = a \o (stdinPipe \o feed')
    <3>1. stdinPipe \in Seq(Lines) /\ feed' \in Seq(Lines)
      BY <1>3, <2>3
    <3>2. QED BY <2>5, <3>1, ConcatAssociative
  <2>8. QED BY <1>1, <2>3, <2>6, <2>7 DEF a
<1>11. ASSUME Feed PROVE FeedInv'
  BY <1>1, <1>11 DEF Feed
<1>12. ASSUME Line PROVE FeedInv'
  <2>1. /\ Runs("line") /\ ready' = Taken("line") /\ stdoutPipe' = Tail(stdoutPipe)
        /\ UNCHANGED <<feed, wbuf, stdinPipe, resendPipe, worker>>
    BY <1>12 DEF Line, childVars
  <2>2. feed # <<>> => Pre(ready, "line", "feed")
    BY <1>4, <1>6, <2>1
  <2>3. ~Pre(ready', "line", "feed") /\ (Pre(ready', "byte", "feed") => Pre(ready, "byte", "feed"))
    BY <1>6, <2>1
  <2>4. feed # <<>> => LeftOf(ready', stdoutPipe') = LeftOf(ready, stdoutPipe)
    BY <2>1, <2>2, <2>3 DEF LeftOf
  <2>5. QED BY <1>1, <1>2, <2>1, <2>3, <2>4 DEF Unasked
<1>13. ASSUME NEW s \in Slots, NEW q, Rewrite(s, q)
       PROVE  stdinPipe' = stdinPipe \/ \E line \in Lines : stdinPipe' = Append(stdinPipe, line)
  BY <1>13, ContentType DEF Rewrite
<1>14. ASSUME Byte PROVE FeedInv'
  <2>1. /\ Runs("byte") /\ resendPipe # <<>> /\ resendPipe' = Tail(resendPipe)
        /\ UNCHANGED <<feed, stdoutPipe, wbuf, worker>>
        /\ resendPipe \in Seq({"r", "x"})
    BY <1>4, <1>6, <1>14 DEF Byte, TypeOK
  <2>2. ready' = Taken("byte") \/ ready' = Append(Taken("byte"), "resend")
    BY <1>14 DEF Byte, Rewrite
  <2>3. "resend" \in AllHandlers /\ "resend" \notin ToSet(ready)
    BY <1>6, <2>1 DEF ReadyInv, Waits, AllHandlers
  <2>4. \A g : Pre(ready', g, "feed") <=> Pre(ready, g, "feed") /\ g # "byte"
    <3>1. \A g : Pre(Taken("byte"), g, "feed") <=> Pre(ready, g, "feed") /\ g # "byte"
      BY <1>6, <2>1
    <3>2. \A g : Pre(Append(Taken("byte"), "resend"), g, "feed") <=> Pre(ready, g, "feed") /\ g # "byte"
      BY <2>1, <2>3, PoppedAnd
    <3>3. QED BY <2>2, <3>1, <3>2
  <2>5. stdinPipe' = stdinPipe \/ \E line \in Lines : stdinPipe' = Append(stdinPipe, line)
    <3>1. CASE Rewrite(first, Taken("byte"))
      BY <1>13, <3>1 DEF TypeOK
    <3>2. CASE ~Rewrite(first, Taken("byte"))
      BY <1>14, <3>2 DEF Byte, ResendFrom
    <3>3. QED BY <3>1, <3>2
  <2>6. Len(resendPipe') = Len(resendPipe) - 1 /\ Len(resendPipe) \in Nat \ {0}
    BY <2>1
  <2>7. resendPipe' = <<>> => Len(resendPipe) = 1
    BY <2>6
  <2>8. feed # <<>> => Pre(ready, "byte", "feed")
    BY <1>4, <1>6, <2>1
  <2>9. QED BY <1>8, <2>1, <2>4, <2>5, <2>7, <2>8 DEF Unasked
<1>15. ASSUME Resend PROVE FeedInv'
  <2>1. /\ Runs("resend") /\ UNCHANGED <<feed, stdoutPipe, wbuf, worker, resendPipe>>
    BY <1>15 DEF Resend, childVars
  <2>2. it # NoSlot
    BY <1>6, <2>1 DEF ReadyInv, Waits
  <2>3. ready' = Taken("resend") \/ ready' = Append(Taken("resend"), "resend")
    BY <1>15 DEF Resend, Rewrite
  <2>4. "resend" \in AllHandlers
    BY DEF AllHandlers
  <2>5. \A g : Pre(ready', g, "feed") <=> Pre(ready, g, "feed") /\ g # "resend"
    <3>1. \A g : Pre(Taken("resend"), g, "feed") <=> Pre(ready, g, "feed") /\ g # "resend"
      BY <1>6, <2>1
    <3>2. \A g : Pre(Append(Taken("resend"), "resend"), g, "feed") <=> Pre(ready, g, "feed") /\ g # "resend"
      BY <2>1, <2>4, PoppedAnd
    <3>3. QED BY <2>3, <3>1, <3>2
  <2>6. stdinPipe' = stdinPipe \/ \E line \in Lines : stdinPipe' = Append(stdinPipe, line)
    <3>1. CASE Rewrite(NextSlot, Taken("resend"))
      BY <1>13, <2>2, <3>1, LoopGoesOn
    <3>2. CASE ~Rewrite(NextSlot, Taken("resend"))
      BY <1>15, <3>2 DEF Resend
    <3>3. QED BY <3>1, <3>2
  <2>7. QED BY <1>8, <2>1, <2>5, <2>6 DEF Unasked
<1>16. ASSUME InputDone \/ Close \/ Waited \/ Reap \/ Terminated PROVE FeedInv'
  <2>1. UNCHANGED <<feed, stdoutPipe, wbuf, stdinPipe, resendPipe, worker, ready>>
    BY <1>16 DEF InputDone, Close, Waited, Reap, Terminated, vars, pipeVars, childVars
  <2>2. QED BY <1>8, <2>1
<1>17. ASSUME Fork PROVE FeedInv'
  <2>1. /\ worker = "none" /\ wbuf = <<>> /\ wbuf' = <<>>
        /\ UNCHANGED <<feed, stdoutPipe, stdinPipe, ready>>
        /\ worker' = "failed" \/ resendPipe' = resendPipe
    BY <1>17 DEF Fork, PhaseInv
  <2>2. QED BY <1>8, <2>1 DEF Unasked
<1>18. ASSUME WorkerGone PROVE FeedInv'
  <2>1. UNCHANGED <<feed, stdoutPipe, wbuf, stdinPipe, ready>>
    BY <1>18 DEF WorkerGone
  <2>2. CASE UNCHANGED <<worker, resendPipe>>
    BY <1>8, <2>1, <2>2
  <2>3. CASE resendPipe' = Append(resendPipe, "r")
    <3>1. ~Unasked(worker', ready', resendPipe')
      <4>1. resendPipe \in Seq({"r", "x"})
        BY DEF TypeOK
      <4>2. Len(resendPipe') = Len(resendPipe) + 1 /\ Len(resendPipe) \in Nat
        BY <2>3, <4>1
      <4>3. resendPipe' # <<>>
        BY <2>3, <4>1, AppendNotEmpty
      <4>4. Pre(ready, "byte", "feed") => Len(resendPipe) # 0
        BY <1>4, <4>1, QueueMembers
      <4>5. QED BY <2>1, <4>2, <4>3, <4>4 DEF Unasked
    <3>2. QED BY <1>1, <3>1
  <2>4. QED BY <1>18, <2>2, <2>3 DEF WorkerGone
<1>19. ASSUME WorkerRead PROVE FeedInv'
  <2>1. PICK n \in 1 .. Len(stdinPipe) :
          /\ wbuf' = SubSeq(stdinPipe, 1, n)
          /\ stdinPipe' = SubSeq(stdinPipe, n + 1, Len(stdinPipe))
    BY <1>19 DEF WorkerRead
  <2>2. wbuf' \in Seq(Lines) /\ stdinPipe' \in Seq(Lines) /\ wbuf' \o stdinPipe' = stdinPipe
    BY <1>3, <2>1, ReadAhead
  <2>3. wbuf = <<>> /\ UNCHANGED <<feed, stdoutPipe, ready, resendPipe, worker>>
    BY <1>19 DEF WorkerRead
  <2> DEFINE a == LeftOf(ready, stdoutPipe)
  <2> HIDE DEF a
  <2>4. a \in Seq(Lines)
    BY <1>5 DEF a
  <2>5. (a \o wbuf') \o stdinPipe' = (a \o wbuf) \o stdinPipe
    <3>1. (a \o wbuf') \o stdinPipe' = a \o (wbuf' \o stdinPipe')
      <4>1. wbuf' \in Seq(Lines) /\ stdinPipe' \in Seq(Lines)
        BY <2>2
      <4>2. QED BY <2>4, <4>1, ConcatAssociative, SMTT(30)
    <3>2. a \o wbuf = a
      BY <2>3, <2>4, ConcatEmptySeq
    <3>3. QED BY <2>2, <3>1, <3>2
  <2>6. QED BY <1>1, <1>2, <2>3, <2>5 DEF a
<1>20. ASSUME WorkerEcho PROVE FeedInv'
  <2>1. /\ wbuf # <<>> /\ stdoutPipe' = Append(stdoutPipe, Head(wbuf)) /\ wbuf' = Tail(wbuf)
        /\ UNCHANGED <<feed, stdinPipe, ready, resendPipe, worker>>
    BY <1>20 DEF WorkerEcho
  <2> DEFINE a == LeftOf(ready, stdoutPipe)
             e == <<Head(wbuf)>>
  <2>2. /\ e \in Seq(Lines) /\ wbuf' \in Seq(Lines) /\ wbuf = e \o wbuf'
        /\ stdoutPipe' = stdoutPipe \o e
    BY <1>3, <2>1, HeadAndTail, AppendIsConcat
  <2> HIDE DEF e
  <2>3. LeftOf(ready', stdoutPipe') = a \o e
    <3>1. Pre(ready, "line", "feed") => stdoutPipe # <<>>
      BY <1>4, QueueMembers
    <3>2. stdoutPipe # <<>> => Tail(stdoutPipe \o e) = Tail(stdoutPipe) \o e
      BY <1>3, <2>2, ConcatTail
    <3>3. QED BY <2>1, <2>2, <3>1, <3>2 DEF LeftOf
  <2> HIDE DEF a
  <2>4. a \in Seq(Lines)
    BY <1>5 DEF a
  <2>5. (a \o e) \o wbuf' = a \o wbuf
    BY <2>2, <2>4, ConcatAssociative, SMTT(30)
  <2>6. QED BY <1>1, <1>2, <2>1, <2>3, <2>5 DEF a
<1>21. ASSUME WorkerCrash \/ WorkerKilled \/ WorkerEnd PROVE FeedInv'
  BY <1>1, <1>21 DEF WorkerCrash, WorkerKilled, WorkerEnd, Unasked
<1>22. QED
  BY <1>9, <1>10, <1>11, <1>12, <1>14, <1>15, <1>16, <1>17, <1>18, <1>19, <1>20, <1>21
  DEF Next

(* What is written last comes out last.                                     *)
LEMMA StdinGrows ==
  ASSUME stdoutPipe \in Seq(Lines), wbuf \in Seq(Lines), stdinPipe \in Seq(Lines),
         NEW e \in Seq(Lines)
  PROVE  (stdoutPipe \o wbuf) \o (stdinPipe \o e) = ((stdoutPipe \o wbuf) \o stdinPipe) \o e
<1> DEFINE a == stdoutPipe \o wbuf
<1>1. a \in Seq(Lines) /\ stdinPipe \in Seq(Lines) /\ e \in Seq(Lines)
  OBVIOUS
<1> HIDE DEF a
<1>2. Cat(Cat(a, stdinPipe), e) = Cat(a, Cat(stdinPipe, e))
  BY <1>1, Associative
<1>3. (a \o stdinPipe) \o e = a \o (stdinPipe \o e)
  BY <1>2 DEF Cat
<1>4. QED BY <1>3 DEF a

(* Every line that is taken, every job that is pushed, and every line that  *)
(* the resend loop writes leaves the jobs of the ring recoverable, and a    *)
(* request to resend is answered for all of them.                           *)
LEMMA RecoverStep ==
  ASSUME TypeOK, ReadyInv, LoopInv, PhaseInv, FeedInv, RecoverInv, Next
  PROVE  RecoverInv'
<1> DEFINE X == (stdoutPipe \o wbuf) \o stdinPipe
           T == ToWrite(ready, commands, first, it, feed)
           J == commands \o feed
           NextX == (stdoutPipe' \o wbuf') \o stdinPipe'
           NextT == ToWrite(ready', commands', first', it', feed')
           NextJ == commands' \o feed'
           Quiet == worker \in {"none", "up"} /\ resendPipe = <<>>
           NextQuiet == worker' \in {"none", "up"} /\ resendPipe' = <<>>
           B == R!Behind(commands, first, it)
<1>1. RecoverInv' <=> (NextQuiet => Among(NextJ, NextX \o NextT))
  BY DEF RecoverInv, Lived, OnTheWay, ToResend, RestOfRing, ToWrite, Before, Pre, NoSlot
<1>2. Quiet => Among(J, X \o T)
  BY DEF RecoverInv, Lived, OnTheWay, ToResend, RestOfRing, ToWrite, Before, Pre
<1>3. /\ stdoutPipe \in Seq(Lines) /\ wbuf \in Seq(Lines) /\ stdinPipe \in Seq(Lines)
      /\ commands \in Seq(Jobs) /\ feed \in Seq(Jobs) /\ input \in Seq(Jobs)
      /\ resendPipe \in Seq({"r", "x"})
      /\ first \in Slots
      /\ it # NoSlot => it \in Slots
  BY DEF TypeOK
<1>4. /\ "feed" \in ToSet(ready) <=> feed # <<>>
      /\ "resend" \in ToSet(ready) <=> it # NoSlot
      /\ "line" \in ToSet(ready) => stdoutPipe # <<>>
      /\ "byte" \in ToSet(ready) => resendPipe # <<>> /\ it = NoSlot
      /\ "give" \in ToSet(ready) => feed = <<>> /\ input # <<>>
  BY DEF ReadyInv, Waits
<1>5. \A h : Runs(h) =>
        /\ h \in ToSet(ready)
        /\ \A g, k : Pre(Taken(h), g, k) <=> Pre(ready, g, k) /\ g # h
        /\ \A g : Pre(ready, h, g) <=> g \in ToSet(ready) /\ g # h
        /\ \A g : ~Pre(ready, g, h)
  BY Popped
<1>6. Seq(Jobs) \subseteq Seq(Lines)
  BY DEF Lines
<1>7. J \in Seq(Lines) /\ X \in Seq(Lines) /\ <<>> \in Seq(Lines)
  <2>1. commands \in Seq(Lines) /\ feed \in Seq(Lines)
    BY <1>3, <1>6
  <2>2. QED BY <1>3, <2>1
<1>8. T \in Seq(Lines)
  <2>1. CASE it = NoSlot
    BY <1>7, <2>1 DEF ToWrite
  <2>2. CASE it # NoSlot
    <3>1. B \in Seq(Jobs)
      BY <1>3, <2>2, BehindType
    <3>2. B \o feed \in Seq(Jobs)
      <4> HIDE DEF B
      <4>1. QED BY <1>3, <3>1
    <3>3. T \in {B \o feed, <<>>}
      BY <2>2 DEF ToWrite
    <3>4. QED BY <1>6, <1>7, <3>2, <3>3
  <2>3. QED BY <2>1, <2>2
<1> HIDE DEF X, T, J, NextX, NextT, NextJ, B
<1>9. ASSUME NextQuiet => Quiet, NextJ = J, NextX \o NextT = X \o T PROVE RecoverInv'
  BY <1>1, <1>2, <1>9
<1>10. ASSUME UNCHANGED <<commands, feed, stdoutPipe, wbuf, stdinPipe, it, first>>,
              Pre(ready', "feed", "resend") <=> Pre(ready, "feed", "resend"),
              NextQuiet => Quiet
       PROVE  RecoverInv'
  <2>1. NextJ = J /\ NextX = X /\ NextT = T
    BY <1>10 DEF J, NextJ, X, NextX, T, NextT, ToWrite
  <2>2. QED BY <1>9, <1>10, <2>1
<1>11. ASSUME NEW h \in Handlers, Queue(h) PROVE RecoverInv'
  <2>1. /\ h \in AllHandlers /\ h \notin ToSet(ready) /\ ready' = Append(ready, h)
        /\ h # "resend"
    BY <1>11 DEF Queue, AllHandlers, Handlers
  <2>2. Pre(ready', "feed", "resend") <=> Pre(ready, "feed", "resend")
    BY <2>1, Typed, QueueAppend
  <2>3. UNCHANGED <<commands, feed, stdoutPipe, wbuf, stdinPipe, it, first, resendPipe, worker>>
    BY <1>11 DEF Queue, ringVars, pipeVars, childVars
  <2>4. QED BY <1>10, <2>2, <2>3
<1>12. ASSUME Give PROVE RecoverInv'
  <2> DEFINE e == <<Head(input)>>
  <2>1. /\ Runs("give") /\ feed = <<>> /\ input # <<>> /\ feed' = e
        /\ stdinPipe' = Append(stdinPipe, Head(input))
        /\ ready' = Append(Taken("give"), "feed")
        /\ UNCHANGED <<commands, first, it, stdoutPipe, wbuf, worker, resendPipe>>
    BY <1>4, <1>5, <1>12 DEF Give, ringVars, childVars
  <2>2. e \in Seq(Lines) /\ stdinPipe' = stdinPipe \o e
    <3>1. Head(input) \in Lines
      BY <1>3, <2>1 DEF Lines
    <3>2. QED BY <1>3, <2>1, <3>1, AppendIsConcat
  <2> HIDE DEF e
  <2>3. NextX = X \o e
    BY <1>3, <2>1, <2>2, StdinGrows DEF NextX, X
  <2>4. J = commands /\ NextJ = commands \o e
    BY <1>3, <2>1, ConcatEmptySeq DEF J, NextJ
  <2>5. ~Pre(ready, "feed", "resend") /\ ~Pre(ready', "feed", "resend")
    <3>1. "feed" \in AllHandlers /\ "feed" \notin ToSet(ready)
      BY <1>4, <2>1 DEF AllHandlers
    <3>2. ~Pre(ready, "feed", "resend")
      BY <3>1, QueueMembers
    <3>3. QED BY <2>1, <3>1, <3>2, PoppedAnd
  <2>6. \/ T = <<>> /\ NextT = <<>>
        \/ T = B /\ NextT = B \o e
    <3>1. CASE it = NoSlot \/ B = <<>>
      BY <2>1, <2>5, <3>1 DEF T, NextT, ToWrite, B
    <3>2. CASE it # NoSlot /\ B # <<>>
      <4>1. T = B \o <<>> /\ NextT = B \o e
        BY <2>1, <3>2 DEF T, NextT, ToWrite, B
      <4>2. B \in Seq(Jobs)
        BY <1>3, <3>2, BehindType DEF B
      <4>3. QED BY <4>1, <4>2, ConcatEmptySeq
    <3>3. QED BY <3>1, <3>2
  <2>7. Quiet => Among(NextJ, NextX \o NextT)
    <3>1. ASSUME Quiet PROVE Among(J \o e, (X \o e) \o NextT)
      <4>1. /\ Among(J \o e, (X \o e) \o (T \o e))
            /\ T = <<>> => Among(J \o e, (X \o e) \o <<>>)
        BY <1>2, <1>7, <1>8, <2>2, <3>1, AmongAppended
      <4>2. QED BY <2>6, <4>1
    <3>2. QED BY <2>3, <2>4, <3>1
  <2>8. QED BY <1>1, <2>1, <2>7
<1>13. ASSUME Feed PROVE RecoverInv'
  <2>1. /\ Runs("feed") /\ ready' = Taken("feed") /\ commands' = J /\ feed' = <<>>
        /\ UNCHANGED <<first, it, stdoutPipe, wbuf, stdinPipe, worker, resendPipe>>
    BY <1>13 DEF Feed, pipeVars, childVars, J
  <2>2. J \in Seq(Jobs)
    BY <1>3 DEF J
  <2>3. NextJ = J /\ NextX = X
    BY <2>1, <2>2, ConcatEmptySeq DEF NextJ, X, NextX
  <2>4. NextT = T
    <3>1. CASE it = NoSlot
      BY <2>1, <3>1 DEF T, NextT, ToWrite
    <3>2. CASE it # NoSlot
      <4>1. Pre(ready, "feed", "resend") /\ ~Pre(ready', "feed", "resend")
        BY <1>4, <1>5, <2>1, <3>2
      <4>2. T = B \o feed
        BY <3>2, <4>1 DEF T, ToWrite, B
      <4>3. R!Behind(J, first, it) = B \o feed
        <5>1. R!Live(commands, first, it) \/ (R!Slot(it + 1) = first /\ Len(commands) + 1 < BufferSize)
          BY <3>2, <4>1, BeforeIsPre DEF LoopInv, Live, PoppedUnderLoop
        <5>2. feed # <<>> /\ Len(feed) <= 1
          BY <1>4, <1>5, <2>1 DEF ReadyInv
        <5>3. Len(feed) = 1
          <6> DEFINE m == Len(feed)
          <6>1. m \in Nat /\ m <= 1 /\ m # 0
            BY <1>3, <5>2
          <6> HIDE DEF m
          <6>2. m = 1
            BY <6>1
          <6>3. QED BY <6>2 DEF m
        <5>4. R!Live(commands, first, it) \/ (R!Slot(it + 1) = first /\ Len(commands) + Len(feed) < BufferSize)
          BY <5>1, <5>3
        <5>5. QED BY <1>3, <3>2, <5>4, BehindPush DEF J, B
      <4>4. B \o feed \in Seq(Jobs)
        <5>1. B \in Seq(Jobs)
          BY <1>3, <3>2, BehindType DEF B
        <5>2. QED BY <1>3, <5>1
      <4>5. NextT = IF B \o feed # <<>> THEN (B \o feed) \o <<>> ELSE <<>>
        BY <2>1, <3>2, <4>1, <4>3 DEF NextT, ToWrite
      <4>6. QED BY <4>2, <4>4, <4>5, ConcatEmptySeq
    <3>3. QED BY <3>1, <3>2
  <2>5. QED BY <1>9, <2>1, <2>3, <2>4
<1>14. ASSUME Line PROVE RecoverInv'
  <2>1. /\ Runs("line") /\ ready' = Taken("line") /\ stdoutPipe' = Tail(stdoutPipe)
        /\ stdoutPipe # <<>>
        /\ UNCHANGED <<feed, it, wbuf, stdinPipe, worker, resendPipe>>
    BY <1>4, <1>5, <1>14 DEF Line, childVars
  <2>2. X # <<>> /\ Head(X) = Head(stdoutPipe) /\ Tail(X) = NextX
    <3> DEFINE a == stdoutPipe \o wbuf
    <3>1. /\ a # <<>> /\ Head(a) = Head(stdoutPipe) /\ Tail(a) = Tail(stdoutPipe) \o wbuf
          /\ a \in Seq(Lines)
      <4>1. a \in Seq(Lines)
        BY <1>3
      <4>2. stdoutPipe \in Seq(Lines) /\ wbuf \in Seq(Lines) /\ stdoutPipe # <<>>
        BY <1>3, <2>1
      <4>3. /\ stdoutPipe \o wbuf # <<>> /\ Head(stdoutPipe \o wbuf) = Head(stdoutPipe)
            /\ Tail(stdoutPipe \o wbuf) = Tail(stdoutPipe) \o wbuf
        BY <4>2, ConcatTail
      <4>4. QED BY <4>1, <4>3
    <3> HIDE DEF a
    <3>2. /\ a \o stdinPipe # <<>> /\ Head(a \o stdinPipe) = Head(a)
          /\ Tail(a \o stdinPipe) = Tail(a) \o stdinPipe
      BY <1>3, <3>1, ConcatTail
    <3>3. QED BY <2>1, <3>1, <3>2 DEF X, NextX, a
  <2>3. /\ X \o T \in Seq(Lines) /\ X \o T # <<>> /\ Head(X \o T) = Head(stdoutPipe)
        /\ Tail(X \o T) = NextX \o T
    <3>1. X \o T \in Seq(Lines)
      BY <1>7, <1>8
    <3>2. X \o T # <<>> /\ Head(X \o T) = Head(X) /\ Tail(X \o T) = Tail(X) \o T
      BY <1>7, <1>8, <2>2, ConcatTail
    <3>3. QED BY <2>2, <3>1, <3>2
  <2>4. it # NoSlot => Live(it)
    BY <1>4, <1>5, <2>1, BeforeIsPre DEF LoopInv, PoppedUnderLoop
  <2>5. Pre(ready', "feed", "resend") <=> Pre(ready, "feed", "resend")
    BY <1>5, <2>1
  <2>6. CASE Matches(Head(stdoutPipe))
    <3>1. /\ commands # <<>> /\ commands' = Tail(commands) /\ first' = R!Slot(first + 1)
      BY <1>14, <2>6 DEF Line, Matches
    <3>2. J # <<>> /\ Tail(J) = NextJ
      BY <1>3, <2>1, <3>1, ConcatTail DEF J, NextJ
    <3>3. it # NoSlot => R!Behind(commands', first', it) = B
      <4>1. Len(commands) <= BufferSize
        BY Typed
      <4>2. QED BY <1>3, <2>4, <3>1, <4>1, BehindPop DEF Live, B
    <3>4. NextT = T
      BY <2>1, <2>5, <3>3 DEF T, NextT, ToWrite, B
    <3>5. Quiet => Among(NextJ, NextX \o NextT)
      BY <1>2, <1>7, <2>3, <3>2, <3>4, AmongTail
    <3>6. QED BY <1>1, <2>1, <3>5
  <2>7. CASE ~Matches(Head(stdoutPipe))
    <3>1. commands' = commands /\ first' = first
      BY <1>14, <2>7 DEF Line
    <3>2. NextJ = J /\ NextT = T
      BY <2>1, <2>5, <3>1 DEF J, NextJ, T, NextT, ToWrite
    <3>3. CASE commands # <<>>
      <4>1. J # <<>> /\ Head(J) = Head(commands)
        BY <1>3, <3>3, ConcatTail DEF J
      <4>2. Head(commands) # Head(stdoutPipe)
        BY <2>7, <3>3 DEF Matches
      <4>3. Quiet => Among(J, NextX \o T)
        BY <1>2, <1>7, <2>3, <4>1, <4>2, AmongSkip
      <4>4. QED BY <1>1, <2>1, <3>2, <4>3
    <3>4. CASE commands = <<>> /\ feed # <<>>
      <4>1. J = feed
        BY <1>3, <3>4, ConcatEmptySeq DEF J
      <4>2. Pre(ready, "line", "feed")
        BY <1>4, <1>5, <2>1, <3>4
      <4>3. Quiet => Among(feed, NextX)
        BY <2>1, <3>4, <4>2, FeedInvIs DEF Unasked, LeftOf, NextX
      <4>4. NextX \in Seq(Lines)
        BY <1>7, <2>2
      <4>5. Quiet => Among(J, NextX \o T)
        BY <1>7, <1>8, <4>1, <4>3, <4>4, AmongAround
      <4>6. QED BY <1>1, <2>1, <3>2, <4>5
    <3>5. CASE commands = <<>> /\ feed = <<>>
      <4>1. J = <<>>
        BY <1>3, <3>5, ConcatEmptySeq DEF J
      <4>2. QED BY <1>1, <3>2, <4>1, AmongEmpty
    <3>6. QED BY <3>3, <3>4, <3>5
  <2>8. QED BY <2>6, <2>7
<1>15. ASSUME Byte PROVE RecoverInv'
  <2>1. /\ Runs("byte") /\ resendPipe # <<>> /\ resendPipe' = Tail(resendPipe) /\ it = NoSlot
        /\ UNCHANGED <<feed, commands, first, stdoutPipe, wbuf, worker>>
    BY <1>4, <1>5, <1>15 DEF Byte
  <2>2. resendPipe' = <<>> => Len(resendPipe) = 1
    <3>1. Len(resendPipe') = Len(resendPipe) - 1 /\ Len(resendPipe) \in Nat \ {0}
      BY <1>3, <2>1
    <3>2. QED BY <3>1
  <2>3. NextJ = J
    BY <2>1 DEF J, NextJ
  <2>4. CASE commands = <<>> /\ feed = <<>>
    <3>1. J = <<>>
      BY <1>3, <2>4, ConcatEmptySeq DEF J
    <3>2. QED BY <1>1, <2>3, <3>1, AmongEmpty
  <2>5. CASE Head(resendPipe) = "x"
    <3>1. 1 \in DOMAIN resendPipe /\ resendPipe[1] = "x"
      BY <1>3, <2>1, <2>5
    <3>2. worker = "failed"
      BY <3>1 DEF PhaseInv
    <3>3. QED BY <1>1, <2>1, <3>2
  <2>6. CASE Head(resendPipe) = "r" /\ ~Kill /\ commands = <<>> /\ feed # <<>>
    <3>1. it' = NoSlot /\ stdinPipe' = stdinPipe
      BY <1>15, <2>1, <2>6 DEF Byte
    <3>2. NextX = X /\ NextT = <<>> /\ J = feed
      BY <1>3, <2>1, <2>6, <3>1, ConcatEmptySeq DEF X, NextX, NextT, ToWrite, J
    <3>3. Pre(ready, "byte", "feed")
      BY <1>4, <1>5, <2>1, <2>6
    <3> DEFINE a == (LeftOf(ready, stdoutPipe) \o wbuf) \o stdinPipe
    <3>4. NextQuiet => Among(feed, a)
      BY <2>1, <2>2, <2>6, <3>3, FeedInvIs DEF Unasked
    <3>5. CASE ~Pre(ready, "line", "feed")
      <4>1. a = X
        BY <3>5 DEF LeftOf, X
      <4>2. X \o <<>> = X
        BY <1>7, ConcatEmptySeq
      <4>3. QED BY <1>1, <2>3, <3>2, <3>4, <4>1, <4>2
    <3>6. CASE Pre(ready, "line", "feed")
      <4> DEFINE e == <<Head(stdoutPipe)>>
                 b == Tail(stdoutPipe)
      <4>1. stdoutPipe # <<>>
        BY <1>4, <3>6, QueueMembers
      <4>2. e \in Seq(Lines) /\ b \in Seq(Lines) /\ stdoutPipe = e \o b
        BY <1>3, <4>1, HeadAndTail
      <4>3. a = (b \o wbuf) \o stdinPipe
        BY <3>6 DEF LeftOf
      <4> HIDE DEF a, b, e
      <4>4. a \in Seq(Lines)
        BY <1>3, <4>2, <4>3
      <4>5. X = e \o a
        <5>1. b \o wbuf \in Seq(Lines)
          BY <1>3, <4>2
        <5>2. wbuf \in Seq(Lines) /\ stdinPipe \in Seq(Lines) /\ e \in Seq(Lines) /\ b \in Seq(Lines)
          BY <1>3, <4>2
        <5>3. (e \o b) \o wbuf = e \o (b \o wbuf)
          BY <5>2, ConcatAssociative
        <5>4. (e \o (b \o wbuf)) \o stdinPipe = e \o ((b \o wbuf) \o stdinPipe)
          BY <5>1, <5>2, ConcatAssociative, SMTT(30)
        <5>5. QED BY <4>2, <4>3, <5>3, <5>4 DEF X
      <4>6. NextQuiet => Among(feed, X)
        <5>1. feed \in Seq(Lines)
          BY <1>3, <1>6
        <5>2. QED BY <3>4, <4>2, <4>4, <4>5, <5>1, AmongAround
      <4>7. X \o <<>> = X
        BY <1>7, ConcatEmptySeq
      <4>8. QED BY <1>1, <2>3, <3>2, <4>6, <4>7
    <3>7. QED BY <3>5, <3>6
  <2>7. CASE Head(resendPipe) = "r" /\ ~Kill /\ commands # <<>>
    <3> DEFINE e == <<commands[1]>>
               b == R!Behind(commands, first, first)
    <3>1. /\ R!Live(commands, first, first) /\ R!Offset(first, first) = 0
          /\ commands = e \o b
      BY <1>3, <2>7, BehindFront
    <3>2. ~closed
      BY <2>7 DEF PhaseInv
    <3>3. Rewrite(first, Taken("byte"))
      BY <1>15, <2>7 DEF Byte, ResendFrom
    <3>4. /\ it' = first /\ ready' = Append(Taken("byte"), "resend")
          /\ stdinPipe' = Append(stdinPipe, commands[1])
      <4>1. Content(first) = {commands[0 + 1]}
        BY <3>1 DEF Content, Live
      <4>2. QED BY <3>2, <3>3, <4>1 DEF Rewrite
    <3>5. e \in Seq(Lines) /\ b \in Seq(Lines) /\ stdinPipe' = stdinPipe \o e
      <4>1. commands[1] \in Lines
        BY <1>3, <2>7 DEF Lines
      <4>2. b \in Seq(Jobs)
        BY <1>3, BehindType
      <4>3. stdinPipe \in Seq(Lines)
        BY <1>3
      <4>4. Append(stdinPipe, commands[1]) = stdinPipe \o e
        BY <4>1, <4>3, AppendIsConcat
      <4>5. QED BY <1>6, <3>4, <4>1, <4>2, <4>4
    <3>6. NextT = b \o feed
      <4>1. feed # <<>> => Pre(ready', "feed", "resend")
        <5>1. "resend" \in AllHandlers /\ "resend" \notin ToSet(ready)
          BY <1>4, <2>1 DEF AllHandlers
        <5>2. QED BY <1>4, <2>1, <3>4, <5>1, PoppedAnd
      <4>2. first # NoSlot
        BY <1>3, Typed
      <4>3. /\ commands \in Seq(Jobs) /\ feed \in Seq(Jobs) /\ first \in Slots
            /\ first \in Slots \cup {NoSlot}
        BY <1>3
      <4>4. ToWrite(ready', commands, first, first, feed) = b \o feed
        <5> DEFINE q == ready'
        <5> HIDE DEF q
        <5>1. feed # <<>> => Pre(q, "feed", "resend") \/ first = NoSlot
          BY <4>1 DEF q
        <5>2. ToWrite(q, commands, first, first, feed) = b \o feed
          BY <4>2, <4>3, <5>1, WritesAll, ZenonT(60)
        <5>3. QED BY <5>2 DEF q
      <4>5. QED BY <2>1, <3>4, <4>4 DEF NextT
    <3> HIDE DEF e, b
    <3>7. NextX = X \o e
      BY <1>3, <2>1, <3>5, StdinGrows DEF NextX, X
    <3>8. NextX \o NextT = X \o J
      <4>1. X \in Seq(Lines) /\ e \in Seq(Lines) /\ b \in Seq(Lines) /\ feed \in Seq(Lines)
        BY <1>3, <1>6, <1>7, <3>5
      <4>2. (X \o e) \o (b \o feed) = X \o ((e \o b) \o feed)
        <5>1. Cat(Cat(X, e), Cat(b, feed)) = Cat(X, Cat(Cat(e, b), feed))
          BY <4>1, Regroup
        <5>2. QED BY <5>1 DEF Cat
      <4>3. QED BY <3>1, <3>6, <3>7, <4>2 DEF J
    <3>9. Among(J, X \o J)
      BY <1>7, AmongSuffix
    <3>10. QED BY <1>1, <2>3, <3>8, <3>9
  <2>8. CASE Head(resendPipe) = "r" /\ Kill
    <3>1. commands = <<>> /\ feed = <<>>
      BY <2>8 DEF Kill, AllDoneHere, PhaseInv
    <3>2. QED BY <2>4, <3>1
  <2>9. Head(resendPipe) \in {"r", "x"}
    BY <1>3, <2>1
  <2>10. QED BY <2>4, <2>5, <2>6, <2>7, <2>8, <2>9
<1>16. ASSUME Resend PROVE RecoverInv'
  <2>1. /\ Runs("resend") /\ it # NoSlot
        /\ UNCHANGED <<feed, commands, first, stdoutPipe, wbuf, worker, resendPipe>>
    BY <1>4, <1>5, <1>16 DEF Resend, childVars
  <2>2. NextJ = J
    BY <2>1 DEF J, NextJ
  <2>3. /\ NextSlot \in Slots
        /\ NextSlot = PastLast => B = <<>>
        /\ NextSlot # PastLast =>
             /\ Live(NextSlot)
             /\ B = <<commands[R!Offset(first, NextSlot) + 1]>> \o R!Behind(commands, first, NextSlot)
    BY <2>1, LoopGoesOn DEF B, RestOfRing
  <2>4. CASE NextSlot = PastLast
    <3>1. it' = NoSlot /\ stdinPipe' = stdinPipe
      BY <1>16, <2>4 DEF Resend
    <3>2. ~Pre(ready, "feed", "resend")
      BY <1>5, <2>1
    <3>3. NextX = X /\ NextT = <<>> /\ T = <<>>
      BY <2>1, <2>3, <2>4, <3>1, <3>2 DEF X, NextX, NextT, T, ToWrite, B
    <3>4. QED BY <1>9, <2>1, <2>2, <3>3
  <2>5. CASE NextSlot # PastLast
    <3> DEFINE o == R!Offset(first, NextSlot)
               e == <<commands[o + 1]>>
               b == R!Behind(commands, first, NextSlot)
    <3>1. Live(NextSlot) /\ B = e \o b /\ b \in Seq(Jobs)
      BY <1>3, <2>3, <2>5, BehindType
    <3>2. o + 1 \in 1 .. Len(commands) /\ commands # <<>> /\ commands[o + 1] \in Lines
      <4>1. o \in 0 .. BufferSize - 1 /\ o < Len(commands) /\ Len(commands) \in Nat
        BY <1>3, <2>3, <3>1, OffsetValue DEF Live, R!Live
      <4> HIDE DEF o
      <4>2. o + 1 \in 1 .. Len(commands) /\ Len(commands) # 0
        BY <4>1, ChildBufferAssumption
      <4>3. commands[o + 1] \in Jobs
        BY <1>3, <4>2, ElementOfSeq
      <4>4. QED BY <4>2, <4>3 DEF Lines
    <3>3. ~closed
      BY <3>2 DEF PhaseInv
    <3>4. Rewrite(NextSlot, Taken("resend"))
      BY <1>16, <2>5 DEF Resend
    <3>5. /\ it' = NextSlot /\ ready' = Append(Taken("resend"), "resend")
          /\ stdinPipe' = Append(stdinPipe, commands[o + 1])
      <4>1. Content(NextSlot) = {commands[o + 1]}
        BY <3>1 DEF Content
      <4>2. QED BY <3>3, <3>4, <4>1 DEF Rewrite
    <3>6. e \in Seq(Lines) /\ b \in Seq(Lines) /\ stdinPipe' = stdinPipe \o e
      <4>1. stdinPipe \in Seq(Lines)
        BY <1>3
      <4>2. Append(stdinPipe, commands[o + 1]) = stdinPipe \o e
        BY <3>2, <4>1, AppendIsConcat
      <4>3. QED BY <1>6, <3>1, <3>2, <3>5, <4>2
    <3>7. NextT = b \o feed
      <4>1. feed # <<>> => Pre(ready', "feed", "resend")
        <5>1. "resend" \in AllHandlers
          BY DEF AllHandlers
        <5>2. QED BY <1>4, <2>1, <3>5, <5>1, PoppedAnd
      <4>2. NextSlot # NoSlot
        BY <2>3, Typed
      <4>3. /\ commands \in Seq(Jobs) /\ feed \in Seq(Jobs) /\ first \in Slots
            /\ NextSlot \in Slots \cup {NoSlot}
        BY <1>3, <2>3
      <4>4. ToWrite(ready', commands, first, NextSlot, feed) = b \o feed
        <5> DEFINE q == ready'
        <5> HIDE DEF q
        <5>1. feed # <<>> => Pre(q, "feed", "resend") \/ NextSlot = NoSlot
          BY <4>1 DEF q
        <5>2. ToWrite(q, commands, first, NextSlot, feed) = b \o feed
          BY <4>2, <4>3, <5>1, WritesAll, ZenonT(60)
        <5>3. QED BY <5>2 DEF q
      <4>5. QED BY <2>1, <3>5, <4>4 DEF NextT
    <3>8. T = B \o feed
      <4>1. B # <<>>
        <5> HIDE DEF e, b
        <5>1. b \in Seq(Lines) /\ e \in Seq(Lines)
          BY <3>6
        <5>2. Len(e) = 1
          BY DEF e
        <5>3. e # <<>>
          BY <5>2
        <5>4. QED BY <3>1, <5>1, <5>3, ConcatTail
      <4>2. QED BY <2>1, <4>1 DEF T, ToWrite, B
    <3> HIDE DEF e, b, o
    <3>9. NextX = X \o e
      BY <1>3, <2>1, <3>6, StdinGrows DEF NextX, X
    <3>10. NextX \o NextT = X \o T
      <4>1. X \in Seq(Lines) /\ e \in Seq(Lines) /\ b \in Seq(Lines) /\ feed \in Seq(Lines)
        BY <1>3, <1>6, <1>7, <3>6
      <4>2. (X \o e) \o (b \o feed) = X \o ((e \o b) \o feed)
        <5>1. Cat(Cat(X, e), Cat(b, feed)) = Cat(X, Cat(Cat(e, b), feed))
          BY <4>1, Regroup
        <5>2. QED BY <5>1 DEF Cat
      <4>3. QED BY <3>1, <3>7, <3>8, <3>9, <4>2
    <3>11. QED BY <1>9, <2>1, <2>2, <3>10
  <2>6. QED BY <2>4, <2>5
<1>17. ASSUME InputDone \/ Close \/ Waited \/ Reap \/ Terminated PROVE RecoverInv'
  <2>1. UNCHANGED <<commands, feed, stdoutPipe, wbuf, stdinPipe, it, first, resendPipe, worker,
                    ready>>
    BY <1>17 DEF InputDone, Close, Waited, Reap, Terminated, vars, ringVars, pipeVars, childVars
  <2>2. QED BY <1>10, <2>1
<1>18. ASSUME Fork PROVE RecoverInv'
  <2>1. /\ worker = "none" /\ wbuf = <<>> /\ wbuf' = <<>>
        /\ UNCHANGED <<commands, feed, stdoutPipe, stdinPipe, it, first, ready>>
        /\ worker' = "failed" \/ resendPipe' = resendPipe
    BY <1>18 DEF Fork, PhaseInv, ringVars
  <2>2. QED BY <1>10, <2>1
<1>19. ASSUME WorkerGone PROVE RecoverInv'
  <2>1. UNCHANGED <<commands, feed, stdoutPipe, wbuf, stdinPipe, it, first, ready>>
    BY <1>19 DEF WorkerGone, ringVars
  <2>2. resendPipe' = Append(resendPipe, "r") => resendPipe' # <<>>
    BY <1>3, AppendNotEmpty
  <2>3. QED BY <1>10, <1>19, <2>1, <2>2 DEF WorkerGone
<1>20. ASSUME WorkerRead PROVE RecoverInv'
  <2>1. PICK n \in 1 .. Len(stdinPipe) :
          /\ wbuf' = SubSeq(stdinPipe, 1, n)
          /\ stdinPipe' = SubSeq(stdinPipe, n + 1, Len(stdinPipe))
    BY <1>20 DEF WorkerRead
  <2>2. wbuf' \in Seq(Lines) /\ stdinPipe' \in Seq(Lines) /\ wbuf' \o stdinPipe' = stdinPipe
    BY <1>3, <2>1, ReadAhead
  <2>3. wbuf = <<>> /\ UNCHANGED <<commands, feed, stdoutPipe, it, first, ready, resendPipe, worker>>
    BY <1>20 DEF WorkerRead, ringVars
  <2>4. (stdoutPipe \o wbuf') \o stdinPipe' = stdoutPipe \o (wbuf' \o stdinPipe')
    <3>1. stdoutPipe \in Seq(Lines) /\ wbuf' \in Seq(Lines) /\ stdinPipe' \in Seq(Lines)
      BY <1>3, <2>2
    <3>2. QED BY <3>1, ConcatAssociative, SMTT(30)
  <2>5. stdoutPipe \o wbuf = stdoutPipe
    BY <1>3, <2>3, ConcatEmptySeq
  <2>6. NextX = X
    BY <2>2, <2>3, <2>4, <2>5 DEF X, NextX
  <2>7. NextJ = J /\ NextT = T
    BY <2>3 DEF J, NextJ, T, NextT
  <2>8. QED BY <1>9, <2>3, <2>6, <2>7
<1>21. ASSUME WorkerEcho PROVE RecoverInv'
  <2>1. /\ wbuf # <<>> /\ stdoutPipe' = Append(stdoutPipe, Head(wbuf)) /\ wbuf' = Tail(wbuf)
        /\ UNCHANGED <<commands, feed, stdinPipe, it, first, ready, resendPipe, worker>>
    BY <1>21 DEF WorkerEcho, ringVars
  <2> DEFINE e == <<Head(wbuf)>>
  <2>2. /\ e \in Seq(Lines) /\ wbuf' \in Seq(Lines) /\ wbuf = e \o wbuf'
        /\ stdoutPipe' = stdoutPipe \o e
    <3>1. wbuf \in Seq(Lines) /\ stdoutPipe \in Seq(Lines)
      BY <1>3
    <3>2. e \in Seq(Lines) /\ Tail(wbuf) \in Seq(Lines) /\ wbuf = e \o Tail(wbuf)
      BY <2>1, <3>1, HeadAndTail
    <3>3. Head(wbuf) \in Lines
      BY <2>1, <3>1
    <3>4. Append(stdoutPipe, Head(wbuf)) = stdoutPipe \o e
      BY <3>1, <3>3, AppendIsConcat
    <3>5. QED BY <2>1, <3>2, <3>4
  <2> HIDE DEF e
  <2>3. (stdoutPipe \o e) \o wbuf' = stdoutPipe \o (e \o wbuf')
    <3>1. stdoutPipe \in Seq(Lines) /\ e \in Seq(Lines) /\ wbuf' \in Seq(Lines)
      BY <1>3, <2>2
    <3>2. QED BY <3>1, ConcatAssociative
  <2>4. NextX = X
    BY <2>1, <2>2, <2>3 DEF X, NextX
  <2>5. NextJ = J /\ NextT = T
    BY <2>1 DEF J, NextJ, T, NextT
  <2>6. QED BY <1>9, <2>1, <2>4, <2>5
<1>22. ASSUME WorkerCrash \/ WorkerKilled \/ WorkerEnd PROVE RecoverInv'
  BY <1>1, <1>22 DEF WorkerCrash, WorkerKilled, WorkerEnd
<1>23. QED
  BY <1>11, <1>12, <1>13, <1>14, <1>15, <1>16, <1>17, <1>18, <1>19, <1>20, <1>21, <1>22
  DEF Next

-----------------------------------------------------------------------------
(* At the start nothing is anywhere, and the first worker is still to come. *)
LEMMA LinkInit ==
  ASSUME Init
  PROVE  LinkInv
<1>1. BufferSize \in Nat \ {0} /\ 0 \in Slots /\ MaxCrashes \in Nat /\ 0 \in 0 .. MaxCrashes
  BY ChildBufferAssumption, MaxCrashesAssumption DEF Slots, R!Slots
<1>2. /\ input \in Seq(Jobs) /\ inputComplete = FALSE
      /\ ready = <<>> /\ feed = <<>> /\ commands = <<>> /\ reported = <<>>
      /\ first = 0 /\ it = NoSlot /\ closed = FALSE
      /\ stdinPipe = <<>> /\ stdoutPipe = <<>> /\ resendPipe = <<>> /\ wbuf = <<>>
      /\ sup = "fork" /\ worker = "none" /\ executed = {} /\ crashes = 0
      /\ outcome = "run"
  BY ChildInputsAssumption DEF Init
<1>3. \A h : h \notin ToSet(ready)
  BY <1>2 DEF ToSet
<1>4. TypeOK
  <2>1. ready \in Seq(Handlers \cup {"feed", "resend"}) /\ IsInjective(ready)
    BY <1>2 DEF IsInjective
  <2>2. Len(commands) = 0 /\ Len(feed) = 0
    BY <1>2
  <2>3. Len(commands) + Len(feed) <= BufferSize
    BY <1>1, <2>2
  <2>4. /\ feed \in Seq(Jobs) /\ commands \in Seq(Jobs) /\ reported \in Seq(Jobs)
        /\ stdinPipe \in Seq(Lines) /\ stdoutPipe \in Seq(Lines) /\ wbuf \in Seq(Lines)
        /\ resendPipe \in Seq({"r", "x"})
    BY <1>2
  <2>5. /\ inputComplete \in BOOLEAN /\ first \in Slots /\ it \in Slots \cup {NoSlot}
        /\ executed \subseteq Lines /\ crashes \in 0 .. MaxCrashes /\ closed \in BOOLEAN
    BY <1>1, <1>2
  <2>6. /\ sup \in {"wait", "fork", "exited", "reaped"}
        /\ worker \in {"none", "up", "crashed", "signalled", "failed", "ended"}
        /\ outcome \in {"run", "exit4", "exit7", "exit10", "finished"}
    BY <1>2
  <2>7. input \in Seq(Jobs)
    BY <1>2
  <2>8. QED BY <2>1, <2>3, <2>4, <2>5, <2>6, <2>7 DEF TypeOK
<1>5. ReadyInv
  BY <1>2, <1>3 DEF ReadyInv, Waits
<1>6. LoopInv
  BY <1>2 DEF LoopInv
<1>7. PhaseInv
  BY <1>2 DEF PhaseInv
<1>8. EchoInv
  BY <1>2 DEF EchoInv, ReportedWasExecuted, ToSet
<1>9. NoWriteAfterClose
  BY <1>2 DEF NoWriteAfterClose
<1>10. FeedInv
  BY <1>2 DEF FeedInv
<1>11. RecoverInv
  <2>1. commands \o feed = <<>>
    BY <1>2
  <2>2. Among(<<>>, OnTheWay \o ToResend)
    BY AmongEmpty
  <2>3. QED BY <2>1, <2>2 DEF RecoverInv
<1>12. QED
  BY <1>4, <1>5, <1>6, <1>7, <1>8, <1>9, <1>10, <1>11 DEF LinkInv

(* Every step of every actor keeps the invariant.                           *)
LEMMA LinkNext ==
  ASSUME LinkInv, [Next]_vars
  PROVE  LinkInv'
<1>1. CASE Next
  BY <1>1, TypeStep, ReadyStep, LoopStep, PhaseStep, EchoStep, CloseStep, FeedStep, RecoverStep
  DEF LinkInv
<1>2. CASE UNCHANGED vars
  <2> USE <1>2 DEF vars, ringVars, pipeVars, childVars
  <2>1. TypeOK'
    BY DEF LinkInv, TypeOK
  <2>2. ReadyInv'
    BY DEF LinkInv, ReadyInv, Waits, HasRoom
  <2>3. LoopInv'
    BY DEF LinkInv, LoopInv, Live, PoppedUnderLoop, Before
  <2>4. PhaseInv' /\ EchoInv' /\ NoWriteAfterClose'
    BY DEF LinkInv, PhaseInv, Down, AllDoneHere, EchoInv, ReportedWasExecuted,
           NoWriteAfterClose
  <2>5. FeedInv'
    BY DEF LinkInv, FeedInv, Lived, BehindLine, Before
  <2>6. RecoverInv'
    BY DEF LinkInv, RecoverInv, Lived, OnTheWay, ToResend, RestOfRing, Before
  <2>7. QED BY <2>1, <2>2, <2>3, <2>4, <2>5, <2>6 DEF LinkInv
<1>3. QED BY <1>1, <1>2

(* The invariant of the child: types, queue, resend loop, phases and echoes *)
(* as above, and the lines that report what is in the ring.                 *)
THEOREM LinkInvariance == Spec => []LinkInv
BY LinkInit, LinkNext, PTL DEF Spec

(* The shape of every variable; the ring has room for what is pushed after  *)
(* the yield of next_job (exec.capacity.cpp:54-63).                         *)
THEOREM LinkTyping == Spec => []TypeOK
<1>1. LinkInv => TypeOK
  BY DEF LinkInv
<1>2. QED BY LinkInvariance, <1>1, PTL

(* A job is reported only after a worker has executed it, however many late *)
(* answers there are (exec.childproc.cpp:304-347).                          *)
THEOREM ReportsAreHonest == Spec => []ReportedWasExecuted
<1>1. LinkInv => ReportedWasExecuted
  BY DEF LinkInv, EchoInv
<1>2. QED BY LinkInvariance, <1>1, PTL

(* The iterator that handle_child_requests keeps over its yields is never   *)
(* moved on to a job that has been destroyed (exec.childproc.cpp:228-232).  *)
THEOREM ResendIsSafe == Spec => []ResendReadsLive
<1>1. ASSUME LinkInv PROVE ResendReadsLive
  <2>1. TypeOK /\ ReadyInv /\ LoopInv
    BY <1>1 DEF LinkInv
  <2>2. ASSUME Runs("resend") PROVE it # NoSlot
    BY <2>1, <2>2, Popped DEF ReadyInv, Waits
  <2>3. QED BY <2>1, <2>2, LoopGoesOn DEF ResendReadsLive
<1>2. QED BY LinkInvariance, <1>1, PTL

(* Nothing but a signal, or a worker that cannot be started, makes the      *)
(* supervisor end while its child has jobs (exec.childproc.cpp:215-222,     *)
(* 405-449).                                                                *)
THEOREM NobodyIsStranded == Spec => []NeverStranded
<1>1. LinkInv => NeverStranded
  BY DEF LinkInv, PhaseInv, NeverStranded, AllDoneHere
<1>2. QED BY LinkInvariance, <1>1, PTL

(* No handler writes to the stdin that the main thread has closed           *)
(* (exec.capacity.cpp:141, exec.childproc.cpp:150-155).                     *)
THEOREM ClosedForGood == Spec => []NoWriteAfterClose
<1>1. LinkInv => NoWriteAfterClose
  BY DEF LinkInv
<1>2. QED BY LinkInvariance, <1>1, PTL

(* After any number of crashes, at any points of the resend loops they call *)
(* for, the lines on their way report every job that is left.               *)
THEOREM NothingIsLost == Spec => []Recoverable
<1>1. LinkInv => Recoverable
  BY DEF LinkInv, RecoverInv, Recoverable, CrashPending, Lived, OnTheWay
<1>2. QED BY LinkInvariance, <1>1, PTL

-----------------------------------------------------------------------------
(* What a step of the child is for the queue that Capacity sees: the push   *)
(* of a job that was written is Give, the line of the job at the front is   *)
(* Report, the end of the worker or of the manager is Fail.                 *)
LEMMA QueueStep ==
  ASSUME LinkInv, [Next]_vars
  PROVE  [Queued!Next]_(Queued!queueVars)
<1> DEFINE Gone == Down \/ ~Running
           NextGone == (Down \/ ~Running)'
           Same == UNCHANGED <<commands, reported>>
<1>1. /\ TypeOK /\ ReadyInv /\ PhaseInv
      /\ feed \in Seq(Jobs) /\ commands \in Seq(Jobs)
      /\ Len(commands) + Len(feed) <= BufferSize
  BY DEF LinkInv, TypeOK
<1>2. Queued!queueVars = <<commands, reported, Gone>>
  BY DEF Queued!queueVars
<1>3. ASSUME Same, NextGone = Gone PROVE Queued!queueVars' = Queued!queueVars
  BY <1>3 DEF Queued!queueVars
<1>4. ASSUME Same, NextGone PROVE [Queued!Next]_(Queued!queueVars)
  <2>1. NextGone = TRUE
    BY <1>4, Zenon DEF Down, Running
  <2>2. Queued!Fail
    BY <1>4, <2>1 DEF Queued!Fail
  <2>3. QED BY <2>2 DEF Queued!Next
<1>5. ASSUME Same, UNCHANGED <<worker, outcome>> PROVE [Queued!Next]_(Queued!queueVars)
  BY <1>3, <1>5 DEF Down, Running
<1>6. ASSUME Feed PROVE [Queued!Next]_(Queued!queueVars)
  <2>1. feed # <<>> /\ Len(feed) <= 1
    BY <1>1, <1>6, Popped DEF Feed, ReadyInv, Waits
  <2>2. PICK j \in Jobs : feed = <<j>>
    <3> DEFINE m == Len(feed)
    <3>1. m \in Nat /\ m <= 1 /\ m # 0
      BY <1>1, <2>1
    <3> HIDE DEF m
    <3>2. m = 1
      BY <3>1
    <3>3. feed[1] \in Jobs /\ feed = <<feed[1]>>
      BY <1>1, <3>2, SMTT(30) DEF m
    <3>4. QED BY <3>3
  <2>3. Len(commands) < BufferSize
    BY <1>1, <2>2, ChildBufferAssumption
  <2>4. commands' = Append(commands, j)
    BY <1>1, <1>6, <2>2, AppendIsConcat DEF Feed
  <2>5. reported' = reported /\ UNCHANGED <<worker, outcome>>
    BY <1>6 DEF Feed, childVars
  <2>6. NextGone = Gone
    BY <2>5 DEF Down, Running
  <2>7. Queued!Give(j)
    BY <2>3, <2>4, <2>5, <2>6 DEF Queued!Give
  <2>8. QED BY <2>7 DEF Queued!Next
<1>7. ASSUME Line PROVE [Queued!Next]_(Queued!queueVars)
  <2>1. UNCHANGED <<worker, outcome>>
    BY <1>7 DEF Line, childVars
  <2>2. NextGone = Gone
    BY <2>1 DEF Down, Running
  <2>3. CASE Matches(Head(stdoutPipe))
    <3>1. Queued!Report
      BY <1>7, <2>2, <2>3 DEF Line, Matches, Queued!Report
    <3>2. QED BY <3>1 DEF Queued!Next
  <2>4. CASE ~Matches(Head(stdoutPipe))
    BY <1>5, <1>7, <2>1, <2>4 DEF Line
  <2>5. QED BY <2>3, <2>4
<1>8. ASSUME (\E h \in Handlers : Queue(h)) \/ Give \/ InputDone \/ Close \/ WorkerRead \/ WorkerEcho
      PROVE  [Queued!Next]_(Queued!queueVars)
  BY <1>5, <1>8
  DEF Queue, Give, InputDone, Close, WorkerRead, WorkerEcho, ringVars, childVars
<1>9. ASSUME Byte \/ Resend \/ Waited \/ Reap PROVE [Queued!Next]_(Queued!queueVars)
  <2>1. Same /\ worker' = worker
    BY <1>9 DEF Byte, Resend, Waited, Reap, ringVars, childVars
  <2>2. Running /\ outcome' \in {outcome, "exit7", "exit10", "finished", "exit4"}
    BY <1>9 DEF Byte, Resend, Rewrite, Waited, Reap, ExecFailureExit
  <2>3. CASE outcome' = outcome
    BY <1>5, <2>1, <2>3
  <2>4. CASE outcome' # outcome
    <3>1. NextGone
      BY <2>2, <2>4 DEF Running
    <3>2. QED BY <1>4, <2>1, <3>1
  <2>5. QED BY <2>3, <2>4
<1>10. ASSUME Fork PROVE [Queued!Next]_(Queued!queueVars)
  <2>1. worker = "none" /\ Same /\ outcome' = outcome /\ worker' \in {"up", "failed"}
    BY <1>1, <1>10 DEF Fork, PhaseInv, ringVars
  <2>2. CASE worker' = "failed"
    <3>1. NextGone
      BY <2>2 DEF Down
    <3>2. QED BY <1>4, <2>1, <3>1
  <2>3. CASE worker' = "up"
    <3>1. NextGone = Gone
      BY <2>1, <2>3 DEF Down, Running
    <3>2. QED BY <1>3, <2>1, <3>1
  <2>4. QED BY <2>1, <2>2, <2>3
<1>11. ASSUME WorkerGone \/ WorkerCrash \/ WorkerEnd PROVE [Queued!Next]_(Queued!queueVars)
  <2>1. /\ Same /\ outcome' = outcome
        /\ \/ worker' = worker
           \/ worker \in {"crashed", "up"} /\ worker' \in {"none", "crashed", "ended"}
    BY <1>11 DEF WorkerGone, WorkerCrash, WorkerEnd, ringVars
  <2>2. NextGone = Gone
    BY <2>1 DEF Down, Running
  <2>3. QED BY <1>3, <2>1, <2>2
<1>12. ASSUME WorkerKilled PROVE [Queued!Next]_(Queued!queueVars)
  <2>1. Same /\ worker' = "signalled"
    BY <1>12 DEF WorkerKilled, ringVars
  <2>2. NextGone
    BY <2>1 DEF Down
  <2>3. QED BY <1>4, <2>1, <2>2
<1>13. ASSUME Terminated \/ UNCHANGED vars PROVE [Queued!Next]_(Queued!queueVars)
  BY <1>5, <1>13 DEF Terminated, vars, ringVars, childVars
<1>14. QED
  BY <1>6, <1>7, <1>8, <1>9, <1>10, <1>11, <1>12, <1>13 DEF Next

(* The pipes, the supervisor and a worker that crashes now and then are the *)
(* bounded queue that Capacity takes a child for: no job is reported that   *)
(* was not given, none twice, and none out of order.  (That it goes on      *)
(* reporting them is liveness, and checked in ImplementsQueue.)             *)
THEOREM ChildIsAQueue == Spec => Queued!Safety
<1>1. Init => Queued!Init
  BY DEF Init, Queued!Init, Down, Running
<1>2. QED BY LinkInvariance, QueueStep, <1>1, PTL DEF Spec, Queued!Safety

=============================================================================
