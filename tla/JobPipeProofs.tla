---------------------------- MODULE JobPipeProofs ----------------------------
(***************************************************************************)
(* Theorems about JobPipe for any ring, pipes of any size that can take the *)
(* lines of the jobs, jobs of any length, and any number of crashes.        *)
(***************************************************************************)
EXTENDS JobPipe, SequenceLemmas

(* The jobs and the garbage that are written.                               *)
Texts == Jobs \cup {<<Garbage>>}
Ops ==
  [by : {"feed", "resend", "dangling"}, job : Texts,
   writes : {Writes(text) : text \in Texts}, waits : BOOLEAN]

HasFeed(q) == \E n \in DOMAIN q : q[n].by = "feed"

(* Each coroutine waits in one write at most, for one whole line; the one   *)
(* of the resend loop waits exactly while the loop is at a slot.            *)
Queue(q, i) ==
  /\ q \in Seq(Ops)
  /\ \A n \in DOMAIN q :
       q[n].writes = Writes(q[n].job) /\ (q[n].by = "feed" => q[n].job \in Jobs)
  /\ \A m, n \in DOMAIN q : (q[m].by = "feed" <=> q[n].by = "feed") => m = n
  /\ i # R!NoSlot <=> \E n \in DOMAIN q : q[n].by # "feed"
WritingInv == Queue(writing, it)

(* Between any place of a stream and the next newline: a job, the end of    *)
(* one, or garbage.  So what is left of a stream after any of its bytes are *)
(* lost is still made of such lines.                                        *)
Known(line) ==
  line = <<>> \/ ToSet(line) = {Garbage} \/ \E job \in Jobs : IsEndOf(line, job)
Lines(bytes) ==
  /\ bytes # <<>> => bytes[Len(bytes)] = Newline
  /\ \A n \in 1 .. Len(bytes) : \A i \in 1 .. n :
       bytes[n] = Newline /\ (\A m \in i .. n - 1 : bytes[m] # Newline) =>
         Known(SubSeq(bytes, i, n - 1))

OnTheWay == wbuf \o stdinPipe
LinesInv == Lines(OnTheWay)

(* The resend loop waits with the job of its slot; or that has been popped, *)
(* and no job that is pushed before the loop goes on comes to the slot.     *)
AtLive(op, i, ring, f) ==
  /\ op.by = "resend" /\ R!Live(ring, f, i)
  /\ op.job = ring[R!Offset(f, i) + 1]
AtLost(op, n, i, ring, f) ==
  /\ op.by = "dangling" \/ op.job = <<Garbage>>
  /\ R!Offset(f, i) >= Len(ring) + (IF n = 1 THEN 0 ELSE 1)
Loop(q, i, ring, f) ==
  i # R!NoSlot =>
    \A n \in DOMAIN q :
      q[n].by # "feed" => AtLive(q[n], i, ring, f) \/ AtLost(q[n], n, i, ring, f)
LoopInv == Loop(writing, it, commands, first)

PipeInv == TypeOK /\ WritingInv /\ LinesInv /\ NeverMerged
RecoverInv == PipeInv /\ LoopInv /\ Recoverable

-----------------------------------------------------------------------------
(* The constants.                                                           *)
LEMMA TextFacts ==
  /\ Newline \notin Letters /\ Garbage \notin Letters /\ Garbage # Newline
  /\ Letters \subseteq Bytes /\ Newline \in Bytes /\ Garbage \in Bytes
  /\ \A job \in Jobs : job \in Seq(Letters) /\ job # <<>>
  /\ Texts \subseteq Seq(Bytes)
<1>1. /\ Newline \notin Letters /\ Garbage \notin Letters /\ Garbage # Newline
      /\ Letters \subseteq Bytes /\ Newline \in Bytes /\ Garbage \in Bytes
  BY PipeTextAssumption DEF Bytes
<1>2. ASSUME NEW job \in Jobs PROVE job \in Seq(Letters) /\ job # <<>>
  <2>1. PICK jobs \in Inputs : job \in ToSet(jobs)
    BY DEF Jobs
  <2>2. PICK n \in DOMAIN jobs : job = jobs[n]
    BY <2>1 DEF ToSet
  <2>3. QED BY <2>1, <2>2, PipeTextAssumption
<1>3. \A job \in Jobs : job \in Seq(Bytes)
  <2>1. Seq(Letters) \subseteq Seq(Bytes)
    BY <1>1
  <2>2. QED BY <1>2, <2>1
<1>4. <<Garbage>> \in Seq(Bytes)
  BY <1>1
<1>5. QED BY <1>1, <1>2, <1>3, <1>4 DEF Texts

(* What is written for a text: its line.                                    *)
LEMMA LineFacts ==
  ASSUME NEW text \in Texts
  PROVE  /\ Append(text, Newline) \in Seq(Bytes)
         /\ Len(text) \in Nat
         /\ Len(Append(text, Newline)) = Len(text) + 1
         /\ Append(text, Newline)[Len(text) + 1] = Newline
         /\ \A n \in 1 .. Len(text) : Append(text, Newline)[n] = text[n] /\ text[n] # Newline
         /\ Writes(text) \in Seq(Seq(Bytes)) /\ Len(Writes(text)) = 1
         /\ Head(Writes(text)) = Append(text, Newline)
<1>1. text \in Seq(Bytes) /\ Newline \in Bytes
  BY TextFacts
<1>2. /\ Append(text, Newline) \in Seq(Bytes)
      /\ Len(text) \in Nat
      /\ Len(Append(text, Newline)) = Len(text) + 1
      /\ Append(text, Newline)[Len(text) + 1] = Newline
      /\ \A n \in 1 .. Len(text) : Append(text, Newline)[n] = text[n]
  BY <1>1, AppendProperties
<1>3. ASSUME NEW n \in 1 .. Len(text) PROVE text[n] # Newline
  <2>1. CASE text \in Jobs
    BY <2>1, TextFacts
  <2>2. CASE text = <<Garbage>>
    BY <2>2, TextFacts
  <2>3. QED BY <2>1, <2>2 DEF Texts
<1> DEFINE line == Append(text, Newline)
<1> HIDE DEF line
<1>4. line \in Seq(Bytes)
  BY <1>2 DEF line
<1>5. Writes(text) = <<line>>
  BY DEF Writes, line
<1>6. Writes(text) \in Seq(Seq(Bytes)) /\ Len(Writes(text)) = 1 /\ Head(Writes(text)) = line
  BY <1>4, <1>5
<1>7. QED BY <1>2, <1>3, <1>6 DEF line

(* The search for a newline finds the first one.                            *)
LEMMA FirstNewline ==
  ASSUME NEW b \in Seq(Bytes), HasLine(b)
  PROVE  \E n \in 1 .. Len(b) :
           /\ b[n] = Newline /\ \A i \in 1 .. n - 1 : b[i] # Newline
           /\ FirstLine(b) = SubSeq(b, 1, n - 1)
           /\ AfterLine(b) = SubSeq(b, n + 1, Len(b))
<1> DEFINE I == {i \in 1 .. Len(b) : b[i] = Newline}
           n == Min(I)
<1>1. I # {}
  <2>1. PICK i \in DOMAIN b : b[i] = Newline
    BY DEF HasLine, ToSet
  <2>2. DOMAIN b = 1 .. Len(b)
    OBVIOUS
  <2>3. QED BY <2>1, <2>2
<1>2. I \subseteq Nat
  OBVIOUS
<1>3. SelectInSeq(b, LAMBDA c : c = Newline) = n
  BY <1>1 DEF SelectInSeq
<1> HIDE DEF I
<1>4. \E k \in I : \A m \in I : k <= m
  BY <1>1, <1>2, Least
<1>5. n \in I /\ \A m \in I : n <= m
  BY <1>4 DEF Min
<1>6. FirstLine(b) = SubSeq(b, 1, n - 1)
  BY <1>3 DEF FirstLine
<1> HIDE DEF n
<1>7. n \in 1 .. Len(b) /\ b[n] = Newline
  BY <1>5 DEF I
<1>8. \A i \in 1 .. n - 1 : b[i] # Newline
  BY <1>5, <1>7 DEF I
<1>9. Len(SubSeq(b, 1, n - 1)) = n - 1
  BY <1>7
<1>10. AfterLine(b) = SubSeq(b, n + 1, Len(b))
  <2>1. Len(FirstLine(b)) + 2 = n + 1
    BY <1>6, <1>7, <1>9
  <2>2. QED BY <2>1 DEF AfterLine
<1>11. QED BY <1>6, <1>7, <1>8, <1>10

-----------------------------------------------------------------------------
(* A part of one of two sequences joined.                                   *)
LEMMA Within ==
  ASSUME NEW S, NEW u \in Seq(S), NEW v \in Seq(S)
  PROVE  /\ \A k \in 0 .. Len(u) : \A i \in 1 .. k + 1 :
              SubSeq(u \o v, i, k) = SubSeq(u, i, k)
         /\ \A k \in 0 .. Len(v) : \A i \in 1 .. k + 1 :
              SubSeq(u \o v, Len(u) + i, Len(u) + k) = SubSeq(v, i, k)
<1> DEFINE w == u \o v
           l == Len(u)
<1>1. /\ w \in Seq(S) /\ Len(w) = l + Len(v) /\ l \in Nat /\ Len(v) \in Nat
      /\ \A i \in 1 .. l : w[i] = u[i]
      /\ \A i \in 1 .. Len(v) : w[l + i] = v[i]
  OBVIOUS
<1> HIDE DEF w
<1>2. ASSUME NEW k \in 0 .. l, NEW i \in 1 .. k + 1
      PROVE  SubSeq(w, i, k) = SubSeq(u, i, k)
  <2> DEFINE x == SubSeq(w, i, k)
             y == SubSeq(u, i, k)
  <2>1. x \in Seq(S) /\ Len(x) = k - i + 1 /\ \A m \in 1 .. k - i + 1 : x[m] = w[i + m - 1]
    BY <1>1
  <2>2. y \in Seq(S) /\ Len(y) = k - i + 1 /\ \A m \in 1 .. k - i + 1 : y[m] = u[i + m - 1]
    BY <1>1
  <2>3. \A m \in 1 .. k - i + 1 : i + m - 1 \in 1 .. l
    BY <1>1
  <2> HIDE DEF x, y
  <2>4. x = y
    <3>1. Len(x) = Len(y) /\ \A m \in 1 .. Len(x) : x[m] = y[m]
      BY <1>1, <2>1, <2>2, <2>3
    <3>2. QED BY <2>1, <2>2, <3>1, SeqEqual
  <2>5. QED BY <2>4 DEF x, y
<1>3. ASSUME NEW k \in 0 .. Len(v), NEW i \in 1 .. k + 1
      PROVE  SubSeq(w, l + i, l + k) = SubSeq(v, i, k)
  <2> DEFINE x == SubSeq(w, l + i, l + k)
             y == SubSeq(v, i, k)
  <2>1. /\ x \in Seq(S) /\ Len(x) = k - i + 1
        /\ \A m \in 1 .. k - i + 1 : x[m] = w[l + (i + m - 1)]
    <3>1. l + i \in Nat /\ l + k \in Nat /\ \A m \in l + i .. l + k : w[m] \in S
      BY <1>1
    <3>2. /\ x \in Seq(S)
          /\ Len(x) = IF l + i <= l + k THEN (l + k) - (l + i) + 1 ELSE 0
          /\ \A m \in 1 .. (l + k) - (l + i) + 1 : x[m] = w[l + i + m - 1]
      BY <3>1, SubSeqProperties
    <3>3. (l + k) - (l + i) + 1 = k - i + 1 /\ (l + i <= l + k <=> i <= k)
      BY <1>1
    <3> HIDE DEF x
    <3>4. \A m \in 1 .. k - i + 1 : l + i + m - 1 = l + (i + m - 1)
      BY <1>1
    <3>5. QED BY <3>2, <3>3, <3>4
  <2>2. y \in Seq(S) /\ Len(y) = k - i + 1 /\ \A m \in 1 .. k - i + 1 : y[m] = v[i + m - 1]
    BY <1>1
  <2>3. \A m \in 1 .. k - i + 1 : i + m - 1 \in 1 .. Len(v)
    BY <1>1
  <2> HIDE DEF x, y
  <2>4. \A m \in 1 .. k - i + 1 : x[m] = y[m]
    BY <1>1, <2>1, <2>2, <2>3
  <2>5. x = y
    BY <2>1, <2>2, <2>4, SeqEqual
  <2>6. QED BY <2>5 DEF x, y
<1>4. QED BY <1>2, <1>3 DEF w

(* The first bytes are read and lost, or executed.                          *)
LEMMA LinesDropped ==
  ASSUME NEW u \in Seq(Bytes), NEW v \in Seq(Bytes), Lines(u \o v)
  PROVE  Lines(v)
<1> DEFINE w == u \o v
           l == Len(u)
<1>1. /\ Len(w) = l + Len(v) /\ l \in Nat /\ Len(v) \in Nat
      /\ \A i \in 1 .. Len(v) : w[l + i] = v[i]
      /\ v # <<>> => Len(v) > 0 /\ w # <<>>
  OBVIOUS
<1>2. /\ w # <<>> => w[Len(w)] = Newline
      /\ \A n \in 1 .. Len(w) : \A i \in 1 .. n :
           w[n] = Newline /\ (\A m \in i .. n - 1 : w[m] # Newline) =>
             Known(SubSeq(w, i, n - 1))
  BY DEF Lines
<1>3. ASSUME NEW n \in 1 .. Len(v), NEW i \in 1 .. n,
             v[n] = Newline, \A m \in i .. n - 1 : v[m] # Newline
      PROVE  Known(SubSeq(v, i, n - 1))
  <2>1. l + n \in 1 .. Len(w) /\ l + i \in 1 .. l + n /\ w[l + n] = Newline
    BY <1>1, <1>3
  <2>2. ASSUME NEW m \in l + i .. (l + n) - 1 PROVE w[m] # Newline
    <3>1. m - l \in i .. n - 1 /\ m - l \in 1 .. Len(v) /\ l + (m - l) = m
      BY <1>1
    <3>2. w[m] = v[m - l]
      BY <1>1, <3>1
    <3>3. QED BY <1>3, <3>1, <3>2
  <2>3. Known(SubSeq(w, l + i, (l + n) - 1))
    BY <1>2, <2>1, <2>2
  <2>4. n - 1 \in 0 .. Len(v) /\ i \in 1 .. (n - 1) + 1 /\ l + (n - 1) = (l + n) - 1
    BY <1>1
  <2>5. SubSeq(w, l + i, l + (n - 1)) = SubSeq(v, i, n - 1)
    BY <2>4, Within
  <2>6. QED BY <2>3, <2>4, <2>5
<1>4. v # <<>> => v[Len(v)] = Newline
  <2>1. SUFFICES ASSUME v # <<>> PROVE v[Len(v)] = Newline
    OBVIOUS
  <2>2. Len(v) \in 1 .. Len(v)
    BY <1>1, <2>1
  <2>3. w[l + Len(v)] = v[Len(v)]
    BY <1>1, <2>2
  <2>4. QED BY <1>1, <1>2, <2>1, <2>3
<1>5. QED BY <1>3, <1>4 DEF Lines

(* Lines are written behind lines.                                          *)
LEMMA LinesJoined ==
  ASSUME NEW u \in Seq(Bytes), NEW v \in Seq(Bytes), Lines(u), Lines(v)
  PROVE  Lines(u \o v)
<1> DEFINE w == u \o v
           l == Len(u)
<1>1. /\ w \in Seq(Bytes) /\ Len(w) = l + Len(v) /\ l \in Nat /\ Len(v) \in Nat
      /\ \A i \in 1 .. l : w[i] = u[i]
      /\ \A i \in 1 .. Len(v) : w[l + i] = v[i]
      /\ u # <<>> <=> l > 0
      /\ v # <<>> <=> Len(v) > 0
      /\ w # <<>> <=> l > 0 \/ Len(v) > 0
  OBVIOUS
<1>2. (l > 0 => u[l] = Newline) /\ (Len(v) > 0 => v[Len(v)] = Newline)
  BY <1>1 DEF Lines
<1>3. w # <<>> => w[Len(w)] = Newline
  <2> HIDE DEF w
  <2>1. CASE Len(v) > 0
    <3>1. Len(v) \in 1 .. Len(v)
      BY <1>1, <2>1
    <3>2. w[l + Len(v)] = v[Len(v)]
      BY <1>1, <3>1
    <3>3. QED BY <1>1, <1>2, <2>1, <3>2
  <2>2. CASE Len(v) = 0
    <3>1. Len(w) = l
      BY <1>1, <2>2
    <3>2. w # <<>> => l \in 1 .. l /\ w[l] = u[l]
      BY <1>1, <2>2
    <3>3. QED BY <1>1, <1>2, <2>2, <3>1, <3>2
  <2>3. QED BY <1>1, <2>1, <2>2
<1>4. ASSUME NEW n \in 1 .. Len(w), NEW i \in 1 .. n,
             w[n] = Newline, \A m \in i .. n - 1 : w[m] # Newline
      PROVE  Known(SubSeq(w, i, n - 1))
  <2>1. CASE n <= l
    <3>1. n \in 1 .. l /\ n - 1 \in 0 .. l /\ i \in 1 .. (n - 1) + 1
      BY <1>1, <2>1
    <3>2. u[n] = Newline /\ \A m \in i .. n - 1 : u[m] # Newline
      BY <1>1, <1>4, <3>1
    <3>3. Known(SubSeq(u, i, n - 1))
      BY <3>1, <3>2 DEF Lines
    <3>4. SubSeq(w, i, n - 1) = SubSeq(u, i, n - 1)
      BY <3>1, Within
    <3>5. QED BY <3>3, <3>4
  <2>2. CASE n > l
    <3>1. i > l
      <4>1. SUFFICES ASSUME i <= l PROVE FALSE
        BY <1>1
      <4>2. l \in i .. n - 1 /\ l \in 1 .. l
        BY <1>1, <2>2, <4>1
      <4>3. w[l] = Newline
        BY <1>1, <1>2, <4>2
      <4>4. QED BY <1>4, <4>2, <4>3
    <3> DEFINE k == n - l
               j == i - l
    <3>2. /\ k \in 1 .. Len(v) /\ j \in 1 .. k /\ l + k = n /\ l + j = i
          /\ k - 1 \in 0 .. Len(v) /\ j \in 1 .. (k - 1) + 1 /\ l + (k - 1) = n - 1
      BY <1>1, <2>2, <3>1
    <3> HIDE DEF k, j
    <3>3. v[k] = Newline
      BY <1>1, <1>4, <3>2
    <3>4. ASSUME NEW m \in j .. k - 1 PROVE v[m] # Newline
      <4>1. l + m \in i .. n - 1 /\ m \in 1 .. Len(v)
        BY <1>1, <3>2
      <4>2. w[l + m] = v[m]
        BY <1>1, <4>1
      <4>3. QED BY <1>4, <4>1, <4>2
    <3>5. Known(SubSeq(v, j, k - 1))
      BY <3>2, <3>3, <3>4 DEF Lines
    <3>6. SubSeq(w, l + j, l + (k - 1)) = SubSeq(v, j, k - 1)
      BY <3>2, Within
    <3>7. QED BY <3>2, <3>5, <3>6
  <2>3. QED BY <1>1, <2>1, <2>2
<1>5. QED BY <1>3, <1>4 DEF Lines

(* A part of garbage is garbage.                                            *)
LEMMA GarbagePart ==
  ASSUME NEW line \in Seq(Bytes), \A n \in 1 .. Len(line) : line[n] = Garbage
  PROVE  Known(line)
<1>1. CASE line = <<>>
  BY <1>1 DEF Known
<1>2. CASE line # <<>>
  <2>1. DOMAIN line = 1 .. Len(line) /\ 1 \in 1 .. Len(line)
    BY <1>2
  <2>2. ToSet(line) = {Garbage}
    BY <2>1 DEF ToSet
  <2>3. QED BY <2>2 DEF Known
<1>3. QED BY <1>1, <1>2

(* The line of a text, and what is written for one that has been destroyed. *)
LEMMA TextLines ==
  ASSUME NEW text \in Texts
  PROVE  Lines(Append(text, Newline))
<1> DEFINE line == Append(text, Newline)
           l == Len(text)
<1>1. /\ line \in Seq(Bytes) /\ l \in Nat /\ Len(line) = l + 1 /\ line[l + 1] = Newline
      /\ \A n \in 1 .. l : line[n] = text[n] /\ text[n] # Newline
  BY LineFacts
<1>2. text \in Seq(Bytes)
  BY TextFacts
<1> HIDE DEF line
<1>3. ASSUME NEW n \in 1 .. Len(line), NEW i \in 1 .. n,
             line[n] = Newline, \A m \in i .. n - 1 : line[m] # Newline
      PROVE  Known(SubSeq(line, i, n - 1))
  <2>1. n - 1 = l /\ i \in 1 .. l + 1
    BY <1>1, <1>3
  <2> DEFINE x == SubSeq(line, i, l)
             y == SubSeq(text, i, l)
  <2>2. x \in Seq(Bytes) /\ Len(x) = l - i + 1 /\ \A m \in 1 .. l - i + 1 : x[m] = line[i + m - 1]
    BY <1>1, <2>1
  <2>3. y \in Seq(Bytes) /\ Len(y) = l - i + 1 /\ \A m \in 1 .. l - i + 1 : y[m] = text[i + m - 1]
    BY <1>1, <1>2, <2>1
  <2>4. \A m \in 1 .. l - i + 1 : i + m - 1 \in 1 .. l
    BY <1>1, <2>1
  <2> HIDE DEF x, y
  <2>5. x = y
    <3>1. Len(x) = Len(y) /\ \A m \in 1 .. Len(x) : x[m] = y[m]
      BY <1>1, <2>2, <2>3, <2>4
    <3>2. QED BY <2>2, <2>3, <3>1, SeqEqual
  <2>6. Known(y)
    <3>1. CASE i = l + 1
      <4>1. y = <<>>
        BY <1>1, <2>3, <3>1
      <4>2. QED BY <4>1 DEF Known
    <3>2. CASE i # l + 1 /\ text \in Jobs
      <4>1. i \in 1 .. Len(text)
        BY <1>1, <2>1, <3>2
      <4>2. IsEndOf(y, text)
        BY <4>1 DEF IsEndOf, y
      <4>3. QED BY <3>2, <4>2 DEF Known
    <3>3. CASE text = <<Garbage>>
      <4>1. \A m \in 1 .. l : text[m] = Garbage
        BY <3>3
      <4>2. \A m \in 1 .. Len(y) : y[m] = Garbage
        BY <2>3, <2>4, <4>1
      <4>3. QED BY <2>3, <4>2, GarbagePart
    <3>4. QED BY <3>1, <3>2, <3>3 DEF Texts
  <2>7. QED BY <2>1, <2>5, <2>6 DEF x
<1>4. line # <<>> => line[Len(line)] = Newline
  BY <1>1
<1>5. Lines(line)
  BY <1>3, <1>4 DEF Lines
<1>6. QED BY <1>5 DEF line

(* ... which is garbage but for the newline of its own.                      *)
LEMMA GarbageLines ==
  ASSUME NEW text \in Texts
  PROVE  LET g == GarbageFor(Append(text, Newline))
         IN g \in Seq(Bytes) /\ Len(g) = Len(Append(text, Newline)) /\ Lines(g)
<1> DEFINE line == Append(text, Newline)
           l == Len(text)
           g == GarbageFor(line)
<1>1. /\ line \in Seq(Bytes) /\ l \in Nat /\ Len(line) = l + 1 /\ line[l + 1] = Newline
      /\ \A n \in 1 .. l : line[n] # Newline
  BY LineFacts
<1> HIDE DEF line
<1>2. DOMAIN line = 1 .. l + 1
  BY <1>1
<1>3. g = [n \in 1 .. l + 1 |-> IF line[n] = Newline THEN Newline ELSE Garbage]
  BY <1>2 DEF GarbageFor
<1> HIDE DEF g
<1>4. g \in [1 .. l + 1 -> Bytes]
  BY <1>3, TextFacts
<1>5. g \in Seq(Bytes) /\ Len(g) = l + 1
  <2>1. l + 1 \in Nat
    BY <1>1
  <2>2. QED BY <1>4, <2>1
<1>6. g[l + 1] = Newline /\ \A n \in 1 .. l : g[n] = Garbage
  BY <1>1, <1>3
<1>7. ASSUME NEW n \in 1 .. Len(g), NEW i \in 1 .. n,
             g[n] = Newline, \A m \in i .. n - 1 : g[m] # Newline
      PROVE  Known(SubSeq(g, i, n - 1))
  <2>1. n - 1 = l /\ i \in 1 .. l + 1
    BY <1>1, <1>5, <1>6, <1>7, TextFacts
  <2> DEFINE x == SubSeq(g, i, l)
  <2>2. x \in Seq(Bytes) /\ Len(x) = l - i + 1 /\ \A m \in 1 .. l - i + 1 : x[m] = g[i + m - 1]
    BY <1>1, <1>5, <2>1
  <2>3. \A m \in 1 .. l - i + 1 : i + m - 1 \in 1 .. l
    BY <1>1, <2>1
  <2> HIDE DEF x
  <2>4. \A m \in 1 .. Len(x) : x[m] = Garbage
    BY <1>6, <2>2, <2>3
  <2>5. Known(x)
    BY <2>2, <2>4, GarbagePart
  <2>6. QED BY <2>1, <2>5 DEF x
<1>8. g # <<>> => g[Len(g)] = Newline
  BY <1>5, <1>6
<1>9. Lines(g)
  BY <1>7, <1>8 DEF Lines
<1>10. QED BY <1>1, <1>5, <1>9 DEF g, line

-----------------------------------------------------------------------------
(* Places of the ring.                                                      *)
LEMMA RingSlots ==
  /\ \A n \in Int : R!Slot(n) \in R!Slots
  /\ R!Slots \subseteq Int /\ R!NoSlot \notin R!Slots /\ 0 \in R!Slots
<1>1. BufferSize \in Nat /\ BufferSize > 0
  BY PipeBufferAssumption
<1>2. \A n \in Int : n % BufferSize \in 0 .. BufferSize - 1
  BY <1>1
<1>3. QED BY <1>1, <1>2 DEF R!Slot, R!Slots, R!NoSlot

(* Slot n, counted around.                                                  *)
LEMMA SlotValue ==
  ASSUME NEW n \in 0 .. 2 * BufferSize - 1
  PROVE  R!Slot(n) = (IF n < BufferSize THEN n ELSE n - BufferSize) /\ R!Slot(n) \in R!Slots
BY PipeBufferAssumption, Around DEF R!Slot, R!Slots

(* Slot s is so many slots behind slot f: what moving either on by one does *)
(* to that, when the loop is at the end, and what is behind it.             *)
LEMMA RingSteps ==
  ASSUME NEW f \in R!Slots, NEW s \in R!Slots
  PROVE  /\ R!Offset(f, s) \in 0 .. BufferSize - 1 /\ (R!Offset(f, s) = 0 <=> s = f)
         /\ R!Slot(s + 1) \in R!Slots /\ R!Slot(f + 1) \in R!Slots
         /\ R!Offset(f, R!Slot(s + 1)) =
              IF R!Offset(f, s) = BufferSize - 1 THEN 0 ELSE R!Offset(f, s) + 1
         /\ R!Offset(R!Slot(f + 1), s) =
              IF R!Offset(f, s) = 0 THEN BufferSize - 1 ELSE R!Offset(f, s) - 1
         /\ \A ring : Len(ring) \in 0 .. BufferSize =>
              (R!Slot(s + 1) = R!PastLast(ring, f) <=>
                 \/ R!Offset(f, s) + 1 = Len(ring)
                 \/ R!Offset(f, s) = BufferSize - 1 /\ Len(ring) = 0)
         /\ \A ring : R!Live(ring, f, s) <=> R!Offset(f, s) < Len(ring)
         /\ \A ring : R!Behind(ring, f, s) = After(ring, R!Offset(f, s))
<1> DEFINE b == BufferSize
           o == R!Offset(f, s)
           t == R!Slot(s + 1)
           g == R!Slot(f + 1)
<1>1. b \in Nat \ {0} /\ f \in 0 .. b - 1 /\ s \in 0 .. b - 1 /\ R!Slots = 0 .. b - 1
  BY PipeBufferAssumption DEF R!Slots
<1>2. \A x, y \in 0 .. b - 1 :
        /\ R!Offset(x, y) = IF x <= y THEN y - x ELSE y + b - x
        /\ R!Offset(x, y) \in 0 .. b - 1
  <2>1. SUFFICES ASSUME NEW x \in 0 .. b - 1, NEW y \in 0 .. b - 1
                 PROVE  /\ R!Offset(x, y) = IF x <= y THEN y - x ELSE y + b - x
                        /\ R!Offset(x, y) \in 0 .. b - 1
    OBVIOUS
  <2> DEFINE z == y + b - x
  <2>2. z \in 0 .. 2 * b - 1 /\ (z < b <=> ~(x <= y)) /\ z - b = y - x
    BY <1>1
  <2> HIDE DEF z
  <2>3. R!Slot(z) = (IF z < b THEN z ELSE z - b) /\ R!Slot(z) \in 0 .. b - 1
    BY <1>1, <2>2, SlotValue
  <2>4. R!Offset(x, y) = R!Slot(z)
    BY DEF R!Offset, R!Slot, z
  <2>5. QED BY <2>2, <2>3, <2>4 DEF z
<1>3. ASSUME NEW x \in 0 .. b - 1, NEW n \in 0 .. b
      PROVE  /\ R!Slot(x + n) = IF x + n < b THEN x + n ELSE x + n - b
             /\ R!Slot(x + n) \in 0 .. b - 1
  <2> DEFINE z == x + n
  <2>1. z \in 0 .. 2 * b - 1
    BY <1>1
  <2> HIDE DEF z
  <2>2. R!Slot(z) = (IF z < b THEN z ELSE z - b) /\ R!Slot(z) \in 0 .. b - 1
    BY <1>1, <2>1, SlotValue
  <2>3. QED BY <1>1, <2>1, <2>2 DEF z
<1> HIDE DEF b, o, t, g
<1>4. /\ o = (IF f <= s THEN s - f ELSE s + b - f) /\ o \in 0 .. b - 1
      /\ t = (IF s + 1 < b THEN s + 1 ELSE s + 1 - b) /\ t \in 0 .. b - 1
      /\ g = (IF f + 1 < b THEN f + 1 ELSE f + 1 - b) /\ g \in 0 .. b - 1
  <2>1. o = (IF f <= s THEN s - f ELSE s + b - f) /\ o \in 0 .. b - 1
    BY <1>1, <1>2 DEF o
  <2>2. 1 \in 0 .. b
    BY <1>1
  <2>3. t = (IF s + 1 < b THEN s + 1 ELSE s + 1 - b) /\ t \in 0 .. b - 1
    BY <1>1, <1>3, <2>2 DEF t
  <2>4. g = (IF f + 1 < b THEN f + 1 ELSE f + 1 - b) /\ g \in 0 .. b - 1
    BY <1>1, <1>3, <2>2 DEF g
  <2>5. QED BY <2>1, <2>3, <2>4
<1>5. R!Offset(f, t) = IF o = b - 1 THEN 0 ELSE o + 1
  <2>1. R!Offset(f, t) = IF f <= t THEN t - f ELSE t + b - f
    BY <1>1, <1>2, <1>4
  <2>2. QED BY <1>1, <1>4, <2>1
<1>6. R!Offset(g, s) = IF o = 0 THEN b - 1 ELSE o - 1
  <2>1. R!Offset(g, s) = IF g <= s THEN s - g ELSE s + b - g
    BY <1>1, <1>2, <1>4
  <2>2. QED BY <1>1, <1>4, <2>1
<1>7. ASSUME NEW ring, Len(ring) \in 0 .. b
      PROVE  t = R!PastLast(ring, f) <=> o + 1 = Len(ring) \/ (o = b - 1 /\ Len(ring) = 0)
  <2> DEFINE n == Len(ring)
             e == R!PastLast(ring, f)
  <2>1. e = IF f + n < b THEN f + n ELSE f + n - b
    BY <1>1, <1>3, <1>7 DEF R!PastLast
  <2>2. n \in 0 .. b
    BY <1>7
  <2> HIDE DEF n, e
  <2>3. t = e <=> o + 1 = n \/ (o = b - 1 /\ n = 0)
    BY <1>1, <1>4, <2>1, <2>2
  <2>4. QED BY <2>3 DEF n, e
<1>8. /\ \A ring : R!Live(ring, f, s) <=> o < Len(ring)
      /\ \A ring : R!Behind(ring, f, s) = After(ring, o)
  BY DEF R!Live, R!Behind, After, o
<1>9. o = 0 <=> s = f
  BY <1>1, <1>4
<1>10. QED BY <1>1, <1>4, <1>5, <1>6, <1>7, <1>8, <1>9 DEF b, o, t, g

(* What the resend loop is at is a job, or garbage.                         *)
LEMMA TextKnown ==
  ASSUME commands \in Seq(Jobs), first \in R!Slots, NEW s \in R!Slots
  PROVE  Text(s) \in Texts
<1> DEFINE n == R!Offset(first, s)
<1>1. n \in Nat
  <2>1. s + BufferSize - first \in Int
    BY RingSlots, PipeBufferAssumption
  <2>2. n \in R!Slots
    BY <2>1, RingSlots DEF R!Offset
  <2>3. QED BY <2>2, PipeBufferAssumption DEF R!Slots
<1>2. CASE R!Live(commands, first, s)
  <2>1. n < Len(commands)
    BY <1>2 DEF R!Live
  <2> HIDE DEF n
  <2>2. commands[n + 1] \in Jobs
    BY <1>1, <2>1
  <2>3. QED BY <1>2, <2>2 DEF Text, Texts, n
<1>3. CASE ~R!Live(commands, first, s)
  BY <1>3 DEF Text, Texts
<1>4. QED BY <1>2, <1>3

(* A write that begins.                                                     *)
LEMMA Begun ==
  ASSUME NEW by \in {"feed", "resend"}, NEW text \in Texts, NEW q, NEW p
  PROVE  /\ Operation(by, text, q, p) \in Ops
         /\ Operation(by, text, q, p).by = by
         /\ Operation(by, text, q, p).job = text
         /\ Operation(by, text, q, p).writes = Writes(text)
<1> DEFINE w == q # <<>> \/ ~Fits(Head(Writes(text)), p)
           ws == Writes(text)
<1>1. Operation(by, text, q, p) = [by |-> by, job |-> text, writes |-> ws, waits |-> w]
  BY DEF Operation
<1>2. w \in BOOLEAN /\ ws \in {Writes(t) : t \in Texts}
  OBVIOUS
<1> HIDE DEF w, ws
<1>3. [by |-> by, job |-> text, writes |-> ws, waits |-> w] \in Ops
  BY <1>2 DEF Ops
<1>4. QED BY <1>1, <1>3 DEF ws

-----------------------------------------------------------------------------
(* Another write is queued.                                                 *)
LEMMA QueueMore ==
  ASSUME NEW q, NEW i, Queue(q, i), NEW op \in Ops, op.writes = Writes(op.job),
         op.by = "feed" => op.job \in Jobs,
         \A n \in DOMAIN q : (q[n].by = "feed") # (op.by = "feed"),
         NEW k, k # R!NoSlot <=> i # R!NoSlot \/ op.by # "feed"
  PROVE  /\ Queue(Append(q, op), k)
         /\ HasFeed(Append(q, op)) <=> HasFeed(q) \/ op.by = "feed"
<1> DEFINE r == Append(q, op)
           l == Len(q)
<1>1. q \in Seq(Ops)
  BY DEF Queue
<1>2. /\ r \in Seq(Ops) /\ l \in Nat /\ DOMAIN q = 1 .. l /\ DOMAIN r = 1 .. l + 1
      /\ r[l + 1] = op /\ \A n \in 1 .. l : r[n] = q[n]
  <2>1. /\ r \in Seq(Ops) /\ l \in Nat /\ DOMAIN q = 1 .. l /\ Len(r) = l + 1
        /\ r[l + 1] = op /\ \A n \in 1 .. l : r[n] = q[n]
    BY <1>1, AppendProperties
  <2> HIDE DEF r
  <2>2. QED BY <2>1
<1> HIDE DEF r, l
<1>3. ASSUME NEW n \in DOMAIN r
      PROVE  r[n].writes = Writes(r[n].job) /\ (r[n].by = "feed" => r[n].job \in Jobs)
  <2>1. CASE n = l + 1
    BY <1>2, <2>1
  <2>2. CASE n \in 1 .. l
    BY <1>2, <2>2 DEF Queue
  <2>3. QED BY <1>2, <2>1, <2>2
<1>4. ASSUME NEW m \in DOMAIN r, NEW n \in DOMAIN r, r[m].by = "feed" <=> r[n].by = "feed"
      PROVE  m = n
  <2>1. CASE m \in 1 .. l /\ n \in 1 .. l
    BY <1>2, <1>4, <2>1 DEF Queue
  <2>2. CASE m = l + 1 /\ n \in 1 .. l
    BY <1>2, <1>4, <2>2
  <2>3. CASE m \in 1 .. l /\ n = l + 1
    BY <1>2, <1>4, <2>3
  <2>4. QED BY <1>2, <2>1, <2>2, <2>3
<1>5. k # R!NoSlot <=> \E n \in DOMAIN r : r[n].by # "feed"
  <2>1. (\E n \in DOMAIN r : r[n].by # "feed")
          <=> (\E n \in DOMAIN q : q[n].by # "feed") \/ op.by # "feed"
    BY <1>2
  <2>2. i # R!NoSlot <=> \E n \in DOMAIN q : q[n].by # "feed"
    BY DEF Queue
  <2>3. QED BY <2>1, <2>2
<1>6. HasFeed(r) <=> HasFeed(q) \/ op.by = "feed"
  BY <1>2 DEF HasFeed
<1>7. Queue(r, k)
  BY <1>2, <1>3, <1>4, <1>5 DEF Queue
<1>8. QED BY <1>6, <1>7 DEF r

(* The first write is done.                                                 *)
LEMMA QueueLess ==
  ASSUME NEW q, NEW i, Queue(q, i), q # <<>>
  PROVE  /\ Queue(Tail(q), IF Head(q).by = "feed" THEN i ELSE R!NoSlot)
         /\ \A n \in DOMAIN Tail(q) : (Tail(q)[n].by = "feed") # (Head(q).by = "feed")
         /\ HasFeed(q) <=> HasFeed(Tail(q)) \/ Head(q).by = "feed"
         /\ Head(q).by = "feed" => ~HasFeed(Tail(q))
         /\ Head(q).by # "feed" => i # R!NoSlot
         /\ Head(q) \in Ops /\ Head(q).writes = Writes(Head(q).job)
         /\ Head(q).by = "feed" => Head(q).job \in Jobs
<1> DEFINE r == Tail(q)
           l == Len(q)
           op == Head(q)
<1>1. q \in Seq(Ops)
  BY DEF Queue
<1>2. /\ r \in Seq(Ops) /\ l \in Nat \ {0} /\ DOMAIN q = 1 .. l /\ DOMAIN r = 1 .. l - 1
      /\ op = q[1] /\ \A n \in 1 .. l - 1 : r[n] = q[n + 1]
  <2>1. /\ r \in Seq(Ops) /\ l \in Nat \ {0} /\ DOMAIN q = 1 .. l /\ Len(r) = l - 1
        /\ op = q[1] /\ \A n \in 1 .. l - 1 : r[n] = q[n + 1]
    BY <1>1, HeadTailProperties
  <2> HIDE DEF r
  <2>2. QED BY <2>1
<1> HIDE DEF r, l, op
<1>3. /\ op \in Ops /\ op.writes = Writes(op.job) /\ (op.by = "feed" => op.job \in Jobs)
  BY <1>1, <1>2 DEF Queue
<1>4. ASSUME NEW n \in DOMAIN r
      PROVE  /\ r[n].writes = Writes(r[n].job) /\ (r[n].by = "feed" => r[n].job \in Jobs)
             /\ (r[n].by = "feed") # (op.by = "feed")
  <2>1. n + 1 \in DOMAIN q /\ 1 \in DOMAIN q /\ n + 1 # 1 /\ r[n] = q[n + 1] /\ op = q[1]
    BY <1>2
  <2>2. ~(q[n + 1].by = "feed" <=> q[1].by = "feed")
    BY <2>1 DEF Queue
  <2>3. QED BY <2>1, <2>2 DEF Queue
<1>5. ASSUME NEW m \in DOMAIN r, NEW n \in DOMAIN r, r[m].by = "feed" <=> r[n].by = "feed"
      PROVE  m = n
  <2>1. m + 1 \in DOMAIN q /\ n + 1 \in DOMAIN q /\ r[m] = q[m + 1] /\ r[n] = q[n + 1]
    BY <1>2
  <2>2. m + 1 = n + 1
    BY <1>5, <2>1 DEF Queue
  <2>3. QED BY <1>2, <2>2
<1>6. /\ \A n \in DOMAIN q : n = 1 \/ (n - 1 \in DOMAIN r /\ q[n] = r[n - 1])
      /\ 1 \in DOMAIN q /\ \A n \in DOMAIN r : n + 1 \in DOMAIN q /\ q[n + 1] = r[n]
  BY <1>2
<1>7. i # R!NoSlot <=> \E n \in DOMAIN q : q[n].by # "feed"
  BY DEF Queue
<1>8. Queue(r, IF op.by = "feed" THEN i ELSE R!NoSlot)
  <2>1. (IF op.by = "feed" THEN i ELSE R!NoSlot) # R!NoSlot
          <=> \E n \in DOMAIN r : r[n].by # "feed"
    BY <1>2, <1>4, <1>6, <1>7
  <2>2. QED BY <1>2, <1>4, <1>5, <2>1 DEF Queue
<1>9. /\ HasFeed(q) <=> HasFeed(r) \/ op.by = "feed"
      /\ op.by = "feed" => ~HasFeed(r)
  <2>1. HasFeed(q) => HasFeed(r) \/ op.by = "feed"
    BY <1>2, <1>6 DEF HasFeed
  <2>2. HasFeed(r) \/ op.by = "feed" => HasFeed(q)
    BY <1>2, <1>6 DEF HasFeed
  <2>3. op.by = "feed" => ~HasFeed(r)
    BY <1>4 DEF HasFeed
  <2>4. QED BY <2>1, <2>2, <2>3
<1>10. op.by # "feed" => i # R!NoSlot
  BY <1>2, <1>6, <1>7
<1>11. QED BY <1>3, <1>4, <1>8, <1>9, <1>10 DEF r, op

(* A write is left without its job.                                         *)
LEMMA QueueDangling ==
  ASSUME NEW q, NEW i, Queue(q, i), NEW r, DOMAIN r = DOMAIN q, r \in Seq(Ops),
         \A n \in DOMAIN q : /\ r[n].job = q[n].job /\ r[n].writes = q[n].writes
                             /\ r[n].by = "feed" <=> q[n].by = "feed"
  PROVE  Queue(r, i) /\ (HasFeed(r) <=> HasFeed(q))
<1>1. HasFeed(r) <=> HasFeed(q)
  BY DEF HasFeed
<1>2. \A n \in DOMAIN r : /\ r[n].writes = Writes(r[n].job)
                          /\ r[n].by = "feed" => r[n].job \in Jobs
  BY DEF Queue
<1>3. \A m, n \in DOMAIN r : (r[m].by = "feed" <=> r[n].by = "feed") => m = n
  BY DEF Queue
<1>4. i # R!NoSlot <=> \E n \in DOMAIN r : r[n].by # "feed"
  BY DEF Queue
<1>5. QED BY <1>1, <1>2, <1>3, <1>4 DEF Queue

(* What TypeOK asks of a queue.                                             *)
LEMMA QueueShape ==
  ASSUME NEW q, NEW i, Queue(q, i)
  PROVE  \A n \in DOMAIN q :
           /\ q[n].by \in {"feed", "resend", "dangling"}
           /\ \A m \in DOMAIN q : q[n].by = q[m].by => n = m
<1>1. ASSUME NEW n \in DOMAIN q PROVE q[n].by \in {"feed", "resend", "dangling"}
  <2>1. q[n] \in Ops
    BY DEF Queue
  <2>2. QED BY <2>1 DEF Ops
<1>2. QED BY <1>1 DEF Queue

-----------------------------------------------------------------------------
(* The variables, apart from the queue of writes.                           *)
LEMMA PipeShapes ==
  ASSUME PipeInv
  PROVE  /\ input \in Seq(Jobs) /\ commands \in Seq(Jobs) /\ reported \in Seq(Jobs)
         /\ first \in R!Slots /\ it \in R!Slots \cup {R!NoSlot}
         /\ Len(commands) + (IF HasFeed(writing) THEN 1 ELSE 0) <= BufferSize
         /\ stdinPipe \in Seq(Bytes) /\ Len(stdinPipe) <= PipeSize
         /\ stdoutPipe \in Seq(Seq(Bytes)) /\ Len(stdoutPipe) <= OutSize
         /\ asks \in Nat /\ worker \in {"up", "down"}
         /\ wbuf \in Seq(Bytes) /\ executed \subseteq Seq(Bytes)
         /\ crashes \in 0 .. MaxCrashes
         /\ Len(commands) \in Nat /\ Queue(writing, it)
         /\ Lines(wbuf \o stdinPipe)
<1>1. Feeding <=> HasFeed(writing)
  BY DEF Feeding, HasFeed
<1>2. Len(commands) + (IF HasFeed(writing) THEN 1 ELSE 0) <= BufferSize
  BY <1>1 DEF PipeInv, TypeOK
<1>3. commands \in Seq(Jobs)
  BY DEF PipeInv, TypeOK
<1>4. Len(commands) \in Nat
  BY <1>3
<1>5. QED BY <1>2, <1>4 DEF PipeInv, TypeOK, WritingInv, LinesInv, OnTheWay

(* What a step has to show.                                                 *)
LEMMA PipeTyped ==
  ASSUME Queue(writing', it'),
         input' \in Seq(Jobs), commands' \in Seq(Jobs), reported' \in Seq(Jobs),
         first' \in R!Slots, it' \in R!Slots \cup {R!NoSlot},
         Len(commands') + (IF HasFeed(writing') THEN 1 ELSE 0) <= BufferSize,
         stdinPipe' \in Seq(Bytes), Len(stdinPipe') <= PipeSize,
         stdoutPipe' \in Seq(Seq(Bytes)), Len(stdoutPipe') <= OutSize,
         asks' \in Nat, worker' \in {"up", "down"},
         wbuf' \in Seq(Bytes), executed' \subseteq Seq(Bytes),
         crashes' \in 0 .. MaxCrashes
  PROVE  TypeOK' /\ WritingInv'
<1>1. \A n \in DOMAIN writing' :
        /\ writing'[n].by \in {"feed", "resend", "dangling"}
        /\ \A m \in DOMAIN writing' : writing'[n].by = writing'[m].by => n = m
  BY QueueShape
<1>2. Feeding' <=> HasFeed(writing')
  BY DEF Feeding, HasFeed
<1>3. Len(commands') + (IF Feeding' THEN 1 ELSE 0) <= BufferSize
  BY <1>2
<1>4. WritingInv'
  BY DEF WritingInv
<1>5. TypeOK'
  BY <1>1, <1>3 DEF TypeOK
<1>6. QED BY <1>4, <1>5

(* Nothing is executed, and the bytes on their way stay where they are.     *)
LEMMA BytesKept ==
  ASSUME PipeInv, UNCHANGED <<stdinPipe, wbuf, executed>>
  PROVE  LinesInv' /\ NeverMerged'
<1>1. LinesInv /\ NeverMerged
  BY DEF PipeInv
<1>2. QED BY <1>1 DEF LinesInv, OnTheWay, NeverMerged

(* Nothing is written yet.                                                  *)
LEMMA PipeInit == Init => PipeInv
<1> SUFFICES ASSUME Init PROVE PipeInv
  OBVIOUS
<1>1. /\ input \in Inputs
      /\ commands = <<>> /\ first = 0 /\ it = R!NoSlot /\ reported = <<>>
      /\ writing = <<>> /\ stdinPipe = <<>> /\ stdoutPipe = <<>> /\ asks = 0
      /\ worker = "up" /\ wbuf = <<>> /\ executed = {} /\ crashes = 0
  BY DEF Init
<1>2. input \in Seq(Jobs)
  <2>1. input \in Seq(Seq(Letters) \ {<<>>})
    BY <1>1, PipeTextAssumption
  <2>2. \A n \in DOMAIN input : input[n] \in Jobs
    BY <1>1 DEF Jobs, ToSet
  <2>3. input \in [1 .. Len(input) -> Jobs] /\ Len(input) \in Nat
    BY <2>1, <2>2
  <2>4. QED BY <2>3
<1>3. DOMAIN writing = {}
  BY <1>1
<1>4. Queue(writing, it)
  BY <1>1, <1>3 DEF Queue
<1>5. ~Feeding
  BY <1>3 DEF Feeding
<1>6. TypeOK
  BY <1>1, <1>2, <1>3, <1>5, RingSlots, PipeBufferAssumption, PipeBoundsAssumption DEF TypeOK
<1>7. Lines(wbuf \o stdinPipe)
  BY <1>1 DEF Lines
<1>8. QED BY <1>1, <1>4, <1>6, <1>7 DEF PipeInv, WritingInv, LinesInv, OnTheWay, NeverMerged

(* next_job: there is no other write of its own, and the ring has room.     *)
LEMMA GiveStep == ASSUME PipeInv, Give PROVE PipeInv'
<1> DEFINE job == Head(input)
           op == Operation("feed", job, writing, stdinPipe)
<1>1. /\ input # <<>> /\ ~Feeding /\ Len(commands) < BufferSize
      /\ writing' = Append(writing, op) /\ input' = Tail(input)
      /\ UNCHANGED <<ringVars, stdinPipe, stdoutPipe, asks, workerVars>>
  BY DEF Give, HasRoom
<1>2. job \in Jobs /\ Tail(input) \in Seq(Jobs)
  BY <1>1, PipeShapes
<1>3. job \in Texts
  BY <1>2 DEF Texts
<1>4. op \in Ops /\ op.by = "feed" /\ op.job = job /\ op.writes = Writes(job)
  BY <1>3, Begun
<1> HIDE DEF op, job
<1>5. Queue(writing, it) /\ \A n \in DOMAIN writing : writing[n].by # "feed"
  BY <1>1, PipeShapes DEF Feeding
<1>6. Queue(Append(writing, op), it)
  BY <1>2, <1>4, <1>5, QueueMore
<1>7. UNCHANGED <<commands, first, it, reported, stdinPipe, stdoutPipe, asks, worker, wbuf,
                  executed, crashes>>
  BY <1>1 DEF ringVars, workerVars
<1>8. Len(commands') + (IF HasFeed(writing') THEN 1 ELSE 0) <= BufferSize
  BY <1>1, <1>7, PipeShapes, PipeBufferAssumption
<1>9. Queue(writing', it')
  BY <1>1, <1>6, <1>7
<1>10. input' \in Seq(Jobs)
  BY <1>1, <1>2
<1>11. TypeOK' /\ WritingInv'
  BY <1>7, <1>8, <1>9, <1>10, PipeShapes, PipeTyped
<1>12. QED BY <1>7, <1>11, BytesKept DEF PipeInv

(* The resend loop begins a write.                                          *)
LEMMA ResendQueued ==
  ASSUME PipeInv, NEW s \in R!Slots, NEW q, NEW i, Queue(q, i),
         \A n \in DOMAIN q : q[n].by = "feed", NEW p, Resend(s, q, p)
  PROVE  Queue(writing', it') /\ it' \in R!Slots /\ (HasFeed(writing') <=> HasFeed(q))
<1> DEFINE op == Operation("resend", Text(s), q, p)
<1>1. writing' = Append(q, op) /\ it' = s
  BY DEF Resend
<1>2. Text(s) \in Texts
  BY PipeShapes, TextKnown
<1>3. op \in Ops /\ op.by = "resend" /\ op.job = Text(s) /\ op.writes = Writes(Text(s))
  BY <1>2, Begun
<1> HIDE DEF op
<1>4. s # R!NoSlot
  BY RingSlots
<1>5. Queue(Append(q, op), s) /\ (HasFeed(Append(q, op)) <=> HasFeed(q))
  BY <1>3, <1>4, QueueMore
<1>6. QED BY <1>1, <1>5

(* handle_child_requests: the loop begins when no other one is under way.   *)
LEMMA ByteStep == ASSUME PipeInv, Byte PROVE PipeInv'
<1>1. /\ asks > 0 /\ it = R!NoSlot /\ asks' = asks - 1
      /\ UNCHANGED <<input, commands, first, reported, stdinPipe, stdoutPipe, workerVars>>
  BY DEF Byte
<1>2. /\ Queue(writing', it') /\ it' \in R!Slots \cup {R!NoSlot}
      /\ HasFeed(writing') <=> HasFeed(writing)
  <2>1. CASE UNCHANGED <<writing, it>>
    BY <2>1, PipeShapes
  <2>2. CASE Resend(first, writing, stdinPipe)
    <3>1. Queue(writing, it) /\ first \in R!Slots
      BY PipeShapes
    <3>2. \A n \in DOMAIN writing : writing[n].by = "feed"
      BY <1>1, <3>1 DEF Queue
    <3>3. QED BY <2>2, <3>1, <3>2, ResendQueued
  <2>3. QED BY <2>1, <2>2 DEF Byte, ResendFrom
<1>3. UNCHANGED <<worker, wbuf, executed, crashes>>
  BY <1>1 DEF workerVars
<1>4. asks' \in Nat
  BY <1>1, PipeShapes
<1>5. Len(commands') + (IF HasFeed(writing') THEN 1 ELSE 0) <= BufferSize
  BY <1>1, <1>2, PipeShapes
<1>6. TypeOK' /\ WritingInv'
  BY <1>1, <1>2, <1>3, <1>4, <1>5, PipeShapes, PipeTyped
<1>7. QED BY <1>1, <1>3, <1>6, BytesKept DEF PipeInv

(* The line that is written is one of a job, or garbage with a newline.     *)
LEMMA WrittenLine ==
  ASSUME PipeInv, Write
  PROVE  \E line \in Seq(Bytes) :
           /\ Lines(line) /\ stdinPipe' = stdinPipe \o line
           /\ Len(stdinPipe) + Len(line) <= PipeSize
<1> DEFINE op == Head(writing)
           line == Append(op.job, Newline)
<1>1. writing # <<>> /\ Queue(writing, it)
  BY PipeShapes DEF Write
<1>2. op \in Ops /\ op.writes = Writes(op.job)
  BY <1>1, QueueLess
<1>3. op.job \in Texts
  BY <1>2 DEF Ops
<1>4. line \in Seq(Bytes) /\ Head(op.writes) = line /\ Lines(line)
  BY <1>2, <1>3, LineFacts, TextLines
<1>5. /\ GarbageFor(line) \in Seq(Bytes) /\ Len(GarbageFor(line)) = Len(line)
      /\ Lines(GarbageFor(line))
  BY <1>3, GarbageLines
<1>6. /\ Fits(Head(op.writes), stdinPipe)
      /\ \/ stdinPipe' = stdinPipe \o Head(op.writes)
         \/ stdinPipe' = stdinPipe \o GarbageFor(Head(op.writes))
  BY DEF Write
<1> HIDE DEF line, op
<1>7. Len(stdinPipe) + Len(line) <= PipeSize
  BY <1>4, <1>6 DEF Fits
<1>8. CASE stdinPipe' = stdinPipe \o line
  BY <1>4, <1>7, <1>8
<1>9. CASE stdinPipe' = stdinPipe \o GarbageFor(line)
  BY <1>5, <1>7, <1>9
<1>10. QED BY <1>4, <1>6, <1>8, <1>9

(* childproc::write is done: the job is pushed, or the loop goes on.        *)
LEMMA WriteQueue ==
  ASSUME PipeInv, Write
  PROVE  /\ Queue(writing', it') /\ it' \in R!Slots \cup {R!NoSlot}
         /\ commands' \in Seq(Jobs)
         /\ Len(commands') + (IF HasFeed(writing') THEN 1 ELSE 0) <= BufferSize
<1> DEFINE op == Head(writing)
           q == Tail(writing)
<1>1. writing # <<>> /\ Queue(writing, it)
  BY PipeShapes DEF Write
<1>2. /\ Queue(q, IF op.by = "feed" THEN it ELSE R!NoSlot)
      /\ \A n \in DOMAIN q : (q[n].by = "feed") # (op.by = "feed")
      /\ HasFeed(writing) <=> HasFeed(q) \/ op.by = "feed"
      /\ op.by = "feed" => ~HasFeed(q)
      /\ op.by # "feed" => it # R!NoSlot
      /\ op \in Ops /\ op.writes = Writes(op.job)
      /\ op.by = "feed" => op.job \in Jobs
  BY <1>1, QueueLess
<1>3. Completed(op, q)
  <2>1. op.job \in Texts
    BY <1>2 DEF Ops
  <2>2. Len(op.writes) = 1
    BY <1>2, <2>1, LineFacts
  <2>3. \/ Len(op.writes) = 1 /\ Completed(op, q)
        \/ Len(op.writes) > 1
    BY DEF Write
  <2> HIDE DEF op, q
  <2>4. QED BY <2>2, <2>3
<1> HIDE DEF op, q
<1>4. /\ commands \in Seq(Jobs) /\ Len(commands) \in Nat
      /\ it \in R!Slots \cup {R!NoSlot}
      /\ Len(commands) + (IF HasFeed(writing) THEN 1 ELSE 0) <= BufferSize
  BY PipeShapes
<1>5. CASE /\ op.by = "feed" /\ commands' = Append(commands, op.job)
           /\ writing' = q /\ UNCHANGED it
  <2>1. commands' \in Seq(Jobs) /\ Len(commands') = Len(commands) + 1
    BY <1>2, <1>4, <1>5, AppendProperties
  <2>2. HasFeed(writing) /\ ~HasFeed(writing')
    BY <1>2, <1>5
  <2>3. Len(commands') + (IF HasFeed(writing') THEN 1 ELSE 0) <= BufferSize
    BY <1>4, <2>1, <2>2
  <2>4. QED BY <1>2, <1>4, <1>5, <2>1, <2>3
<1>6. CASE op.by # "feed" /\ it' = R!NoSlot /\ writing' = q /\ UNCHANGED commands
  <2>1. HasFeed(writing') <=> HasFeed(writing)
    BY <1>2, <1>6
  <2>2. QED BY <1>2, <1>4, <1>6, <2>1
<1>7. CASE op.by # "feed" /\ Resend(R!Slot(it + 1), q, stdinPipe') /\ UNCHANGED commands
  <2>1. it \in R!Slots
    BY <1>2, <1>4, <1>7
  <2>2. R!Slot(it + 1) \in R!Slots
    BY <2>1, RingSlots
  <2>3. \A n \in DOMAIN q : q[n].by = "feed"
    BY <1>2, <1>7
  <2>4. Queue(writing', it') /\ it' \in R!Slots /\ (HasFeed(writing') <=> HasFeed(q))
    BY <1>2, <1>7, <2>2, <2>3, ResendQueued
  <2>5. QED BY <1>2, <1>4, <1>7, <2>4
<1>8. QED BY <1>3, <1>5, <1>6, <1>7 DEF Completed

(* The line of a job comes behind other whole lines.                        *)
LEMMA WriteStep == ASSUME PipeInv, Write PROVE PipeInv'
<1>1. UNCHANGED <<input, first, reported, stdoutPipe, asks, worker, wbuf, executed, crashes>>
  BY DEF Write, workerVars
<1>2. PICK line \in Seq(Bytes) :
        /\ Lines(line) /\ stdinPipe' = stdinPipe \o line
        /\ Len(stdinPipe) + Len(line) <= PipeSize
  BY WrittenLine
<1>3. /\ stdinPipe \in Seq(Bytes) /\ wbuf \in Seq(Bytes) /\ Lines(wbuf \o stdinPipe)
  BY PipeShapes
<1>4. stdinPipe' \in Seq(Bytes) /\ Len(stdinPipe') <= PipeSize
  BY <1>2, <1>3
<1>5. LinesInv'
  <2>1. Cat(Cat(wbuf, stdinPipe), line) = Cat(wbuf, Cat(stdinPipe, line))
    BY <1>3, Associative
  <2>2. wbuf' \o stdinPipe' = (wbuf \o stdinPipe) \o line
    BY <1>1, <1>2, <2>1 DEF Cat
  <2>3. wbuf \o stdinPipe \in Seq(Bytes)
    BY <1>3
  <2>4. Lines((wbuf \o stdinPipe) \o line)
    BY <1>2, <1>3, <2>3, LinesJoined
  <2>5. QED BY <2>2, <2>4 DEF LinesInv, OnTheWay
<1>6. NeverMerged'
  BY <1>1 DEF PipeInv, NeverMerged
<1>7. TypeOK' /\ WritingInv'
  BY <1>1, <1>4, WriteQueue, PipeShapes, PipeTyped
<1>8. QED BY <1>5, <1>6, <1>7 DEF PipeInv

(* handle_stdout: the writes stay what they are, with or without their job. *)
LEMMA LineStep == ASSUME PipeInv, Line PROVE PipeInv'
<1>1. /\ stdoutPipe # <<>> /\ stdoutPipe' = Tail(stdoutPipe)
      /\ UNCHANGED <<input, it, stdinPipe, asks, worker, wbuf, executed, crashes>>
  BY DEF Line, workerVars
<1>2. stdoutPipe' \in Seq(Seq(Bytes)) /\ Len(stdoutPipe') <= OutSize
  <2>1. stdoutPipe \in Seq(Seq(Bytes)) /\ Len(stdoutPipe) <= OutSize
    BY PipeShapes
  <2>2. Len(Tail(stdoutPipe)) = Len(stdoutPipe) - 1 /\ Tail(stdoutPipe) \in Seq(Seq(Bytes))
    BY <1>1, <2>1, HeadTailProperties
  <2>3. QED BY <1>1, <2>1, <2>2, PipeBoundsAssumption
<1>3. /\ commands \in Seq(Jobs) /\ Len(commands) \in Nat /\ reported \in Seq(Jobs)
      /\ first \in R!Slots /\ Queue(writing, it)
      /\ Len(commands) + (IF HasFeed(writing) THEN 1 ELSE 0) <= BufferSize
  BY PipeShapes
<1>4. /\ commands' \in Seq(Jobs) /\ reported' \in Seq(Jobs) /\ first' \in R!Slots
      /\ Queue(writing', it)
      /\ Len(commands') + (IF HasFeed(writing') THEN 1 ELSE 0) <= BufferSize
  <2>1. CASE UNCHANGED <<commands, first, reported, writing>>
    BY <1>3, <2>1
  <2>2. CASE /\ commands # <<>>
             /\ reported' = Append(reported, Head(commands))
             /\ commands' = Tail(commands)
             /\ first' = R!Slot(first + 1)
             /\ writing' = [n \in DOMAIN writing |->
                              IF first = it THEN Dangling(writing[n]) ELSE writing[n]]
    <3>1. /\ Tail(commands) \in Seq(Jobs) /\ Len(Tail(commands)) = Len(commands) - 1
          /\ Head(commands) \in Jobs
      BY <1>3, <2>2, HeadTailProperties
    <3>2. first' \in R!Slots
      BY <1>3, <2>2, RingSlots
    <3>3. /\ writing \in Seq(Ops) /\ DOMAIN writing' = DOMAIN writing
          /\ \A n \in DOMAIN writing :
               writing'[n] = IF first = it THEN Dangling(writing[n]) ELSE writing[n]
      BY <1>3, <2>2 DEF Queue
    <3>4. ASSUME NEW op \in Ops
          PROVE  /\ Dangling(op) \in Ops
                 /\ Dangling(op).job = op.job /\ Dangling(op).writes = op.writes
                 /\ Dangling(op).by = "feed" <=> op.by = "feed"
      BY DEF Dangling, Ops
    <3>5. ASSUME NEW n \in DOMAIN writing
          PROVE  /\ writing'[n] \in Ops
                 /\ writing'[n].job = writing[n].job /\ writing'[n].writes = writing[n].writes
                 /\ writing'[n].by = "feed" <=> writing[n].by = "feed"
      <4>1. writing[n] \in Ops
        BY <3>3
      <4>2. QED BY <3>3, <3>4, <4>1
    <3>6. writing' \in Seq(Ops)
      <4>1. Len(writing) \in Nat /\ DOMAIN writing = 1 .. Len(writing)
        BY <3>3
      <4>2. writing' = [n \in 1 .. Len(writing) |-> writing'[n]]
        BY <2>2, <3>3, <4>1
      <4>3. writing' \in [1 .. Len(writing) -> Ops]
        BY <3>5, <4>1, <4>2
      <4>4. QED BY <4>1, <4>3
    <3>7. Queue(writing', it) /\ (HasFeed(writing') <=> HasFeed(writing))
      BY <1>3, <3>3, <3>5, <3>6, QueueDangling
    <3>8. Len(commands') + (IF HasFeed(writing') THEN 1 ELSE 0) <= BufferSize
      BY <1>3, <2>2, <3>1, <3>7, PipeBufferAssumption
    <3>9. QED BY <1>3, <2>2, <3>1, <3>2, <3>7, <3>8, AppendProperties
  <2>3. QED BY <2>1, <2>2 DEF Line, Matches
<1>5. TypeOK' /\ WritingInv'
  BY <1>1, <1>2, <1>4, PipeShapes, PipeTyped
<1>6. QED BY <1>1, <1>5, BytesKept DEF PipeInv

(* The worker takes what the pipe has.                                      *)
LEMMA WorkerReadStep == ASSUME PipeInv, WorkerRead PROVE PipeInv'
<1>1. UNCHANGED <<input, commands, first, it, reported, writing, stdoutPipe, asks, worker,
                  executed, crashes>>
  BY DEF WorkerRead, ringVars
<1>2. /\ stdinPipe \in Seq(Bytes) /\ wbuf \in Seq(Bytes) /\ Len(stdinPipe) <= PipeSize
      /\ Lines(wbuf \o stdinPipe)
  BY PipeShapes
<1>3. PICK n \in 1 .. Len(stdinPipe) :
        /\ wbuf' = wbuf \o SubSeq(stdinPipe, 1, n)
        /\ stdinPipe' = SubSeq(stdinPipe, n + 1, Len(stdinPipe))
  BY DEF WorkerRead
<1> DEFINE x == SubSeq(stdinPipe, 1, n)
           y == SubSeq(stdinPipe, n + 1, Len(stdinPipe))
<1>4. x \in Seq(Bytes) /\ y \in Seq(Bytes) /\ x \o y = stdinPipe
  BY <1>2, ReadAhead
<1> HIDE DEF x, y
<1>5. Len(y) <= PipeSize
  <2>1. Len(x \o y) = Len(x) + Len(y) /\ Len(x) \in Nat /\ Len(y) \in Nat
    BY <1>4, ConcatProperties
  <2>2. QED BY <1>2, <1>4, <2>1, PipeBoundsAssumption
<1>6. wbuf' \in Seq(Bytes) /\ stdinPipe' \in Seq(Bytes) /\ Len(stdinPipe') <= PipeSize
  <2>1. wbuf \o x \in Seq(Bytes)
    BY <1>2, <1>4
  <2>2. QED BY <1>3, <1>4, <1>5, <2>1 DEF x, y
<1>7. LinesInv'
  <2>1. Cat(Cat(wbuf, x), y) = Cat(wbuf, Cat(x, y))
    BY <1>2, <1>4, Associative
  <2>2. wbuf' \o stdinPipe' = wbuf \o stdinPipe
    BY <1>3, <1>4, <2>1 DEF Cat, x, y
  <2>3. QED BY <1>2, <2>2 DEF LinesInv, OnTheWay
<1>8. NeverMerged'
  BY <1>1 DEF PipeInv, NeverMerged
<1>9. TypeOK' /\ WritingInv'
  BY <1>1, <1>6, PipeShapes, PipeTyped
<1>10. QED BY <1>7, <1>8, <1>9 DEF PipeInv

(* The worker executes a line: all before the first newline it has read.    *)
LEMMA WorkerLineStep == ASSUME PipeInv, WorkerLine PROVE PipeInv'
<1>1. /\ HasLine(wbuf) /\ wbuf' = AfterLine(wbuf)
      /\ UNCHANGED <<input, commands, first, it, reported, writing, stdinPipe, asks, worker,
                     crashes>>
  BY DEF WorkerLine, ringVars
<1> DEFINE b == wbuf
           line == FirstLine(b)
           l == Len(b)
<1>2. /\ b \in Seq(Bytes) /\ stdinPipe \in Seq(Bytes) /\ Lines(b \o stdinPipe)
      /\ stdoutPipe \in Seq(Seq(Bytes)) /\ Len(stdoutPipe) <= OutSize
      /\ executed \subseteq Seq(Bytes)
  BY PipeShapes
<1>3. PICK n \in 1 .. l :
        /\ b[n] = Newline /\ \A i \in 1 .. n - 1 : b[i] # Newline
        /\ line = SubSeq(b, 1, n - 1) /\ AfterLine(b) = SubSeq(b, n + 1, l)
  BY <1>1, <1>2, FirstNewline
<1>4. line \in Seq(Bytes)
  <2>1. l \in Nat /\ \A i \in 1 .. l : b[i] \in Bytes
    BY <1>2
  <2>2. SubSeq(b, 1, n - 1) \in Seq(Bytes)
    BY <1>2, <2>1
  <2>3. QED BY <1>3, <2>2
<1>5. Known(line)
  <2> DEFINE w == b \o stdinPipe
  <2>1. Len(w) = l + Len(stdinPipe) /\ l \in Nat /\ Len(stdinPipe) \in Nat
        /\ \A i \in 1 .. l : w[i] = b[i]
    BY <1>2
  <2>2. n \in 1 .. Len(w) /\ 1 \in 1 .. n /\ n - 1 \in 0 .. l /\ 1 \in 1 .. (n - 1) + 1
    BY <2>1
  <2>3. w[n] = Newline /\ \A i \in 1 .. n - 1 : w[i] # Newline
    BY <1>3, <2>1
  <2>4. Known(SubSeq(w, 1, n - 1))
    BY <1>2, <2>2, <2>3 DEF Lines
  <2>5. SubSeq(w, 1, n - 1) = SubSeq(b, 1, n - 1)
    BY <1>2, <2>2, Within
  <2>6. QED BY <1>3, <2>4, <2>5
<1>6. wbuf' \in Seq(Bytes) /\ LinesInv'
  <2> DEFINE x == SubSeq(b, 1, n)
             y == SubSeq(b, n + 1, l)
  <2>1. x \in Seq(Bytes) /\ y \in Seq(Bytes) /\ x \o y = b
    BY <1>2, ReadAhead
  <2>2. wbuf' = y
    BY <1>1, <1>3
  <2> HIDE DEF x, y
  <2>3. Cat(Cat(x, y), stdinPipe) = Cat(x, Cat(y, stdinPipe))
    BY <1>2, <2>1, Associative
  <2>4. Lines(x \o (y \o stdinPipe)) /\ y \o stdinPipe \in Seq(Bytes)
    BY <1>2, <2>1, <2>3 DEF Cat
  <2>5. Lines(y \o stdinPipe)
    BY <2>1, <2>4, LinesDropped
  <2>6. QED BY <1>1, <2>1, <2>2, <2>5 DEF LinesInv, OnTheWay
<1> HIDE DEF line, l
<1>7. /\ executed' \subseteq Seq(Bytes) /\ NeverMerged'
      /\ stdoutPipe' \in Seq(Seq(Bytes)) /\ Len(stdoutPipe') <= OutSize
  <2>1. CASE UNCHANGED <<executed, stdoutPipe>>
    BY <1>2, <2>1 DEF PipeInv, NeverMerged
  <2>2. CASE /\ line # <<>> /\ Len(stdoutPipe) < OutSize
             /\ executed' = executed \cup {line}
             /\ stdoutPipe' = Append(stdoutPipe, line)
    <3>1. ToSet(line) = {Garbage} \/ \E job \in Jobs : IsEndOf(line, job)
      BY <1>5, <2>2 DEF Known
    <3>2. NeverMerged'
      BY <2>2, <3>1 DEF PipeInv, NeverMerged
    <3>3. /\ Append(stdoutPipe, line) \in Seq(Seq(Bytes))
          /\ Len(Append(stdoutPipe, line)) = Len(stdoutPipe) + 1 /\ Len(stdoutPipe) \in Nat
      BY <1>2, <1>4, AppendProperties
    <3>4. Len(stdoutPipe') <= OutSize
      BY <2>2, <3>3, PipeBoundsAssumption
    <3>5. QED BY <1>2, <1>4, <2>2, <3>2, <3>3, <3>4
  <2>3. QED BY <2>1, <2>2 DEF WorkerLine, line
<1>8. TypeOK' /\ WritingInv'
  BY <1>1, <1>6, <1>7, PipeShapes, PipeTyped
<1>9. QED BY <1>6, <1>7, <1>8 DEF PipeInv

(* What the worker has read is lost: the rest still consists of lines.      *)
LEMMA WorkerCrashStep == ASSUME PipeInv, WorkerCrash PROVE PipeInv'
<1>1. /\ crashes < MaxCrashes /\ crashes' = crashes + 1 /\ worker' = "down" /\ wbuf' = <<>>
      /\ UNCHANGED <<input, commands, first, it, reported, writing, stdinPipe, stdoutPipe, asks,
                     executed>>
  BY DEF WorkerCrash, ringVars
<1>2. /\ stdinPipe \in Seq(Bytes) /\ wbuf \in Seq(Bytes) /\ Lines(wbuf \o stdinPipe)
      /\ crashes \in 0 .. MaxCrashes
  BY PipeShapes
<1>3. Lines(stdinPipe)
  BY <1>2, LinesDropped
<1>4. LinesInv'
  <2>1. <<>> \o stdinPipe = stdinPipe
    BY <1>2, ConcatEmptySeq
  <2>2. wbuf' \o stdinPipe' = stdinPipe
    BY <1>1, <2>1
  <2>3. QED BY <1>3, <2>2 DEF LinesInv, OnTheWay
<1>5. NeverMerged'
  BY <1>1 DEF PipeInv, NeverMerged
<1>6. crashes' \in 0 .. MaxCrashes
  BY <1>1, <1>2, PipeBoundsAssumption
<1>7. wbuf' \in Seq(Bytes)
  BY <1>1
<1>8. TypeOK' /\ WritingInv'
  BY <1>1, <1>6, <1>7, PipeShapes, PipeTyped
<1>9. QED BY <1>4, <1>5, <1>8 DEF PipeInv

(* fork_worker asks for a resend.                                           *)
LEMMA RestartStep == ASSUME PipeInv, Restart PROVE PipeInv'
<1>1. /\ worker' = "up" /\ asks' = asks + 1
      /\ UNCHANGED <<input, commands, first, it, reported, writing, stdinPipe, stdoutPipe, wbuf,
                     executed, crashes>>
  BY DEF Restart, ringVars
<1>2. asks' \in Nat
  BY <1>1, PipeShapes
<1>3. TypeOK' /\ WritingInv'
  BY <1>1, <1>2, PipeShapes, PipeTyped
<1>4. QED BY <1>1, <1>3, BytesKept DEF PipeInv

(* Nothing happens.                                                         *)
LEMMA PipeStutter == ASSUME PipeInv, UNCHANGED vars PROVE PipeInv'
<1>1. UNCHANGED <<input, commands, first, it, reported, writing, stdinPipe, stdoutPipe, asks,
                  worker, wbuf, executed, crashes>>
  BY DEF vars, ringVars, workerVars
<1>2. TypeOK' /\ WritingInv'
  BY <1>1, PipeShapes, PipeTyped
<1>3. QED BY <1>1, <1>2, BytesKept DEF PipeInv

-----------------------------------------------------------------------------
(* A line begins behind the last newline before it, if there is one.        *)
Begins(b, n, k) ==
  (\A m \in k .. n - 1 : b[m] # Newline) /\ (k = 1 \/ b[k - 1] = Newline)

LEMMA LineBeginValue ==
  ASSUME NEW b \in Seq(Bytes), NEW n \in 1 .. Len(b)
  PROVE  /\ \A k \in 1 .. n : Begins(b, n, k) => LineBegin(b, n) = k
         /\ \E k \in 1 .. n : Begins(b, n, k)
<1> DEFINE I == {i \in 1 .. n - 1 : b[i] = Newline}
           last == IF I # {} THEN Max(I) ELSE 0
<1>1. Len(b) \in Nat /\ n \in Nat \ {0}
  OBVIOUS
<1>2. LineBegin(b, n) = last + 1
  BY DEF LineBegin, SelectLastInSubSeq
<1>3. ASSUME NEW k \in 1 .. n, Begins(b, n, k) PROVE LineBegin(b, n) = k
  <2>1. CASE k = 1
    <3>1. I = {}
      BY <1>3, <2>1 DEF Begins
    <3>2. QED BY <1>2, <2>1, <3>1
  <2>2. CASE k # 1
    <3>1. k - 1 \in I /\ \A i \in I : i <= k - 1
      BY <1>1, <1>3, <2>2 DEF Begins
    <3>2. I \subseteq Int
      OBVIOUS
    <3> HIDE DEF I
    <3>3. Max(I) \in I /\ \A i \in I : Max(I) >= i
      BY <3>1, <3>2 DEF Max
    <3>4. Max(I) = k - 1
      <4> DEFINE m == Max(I)
      <4>1. m \in Int /\ m <= k - 1 /\ m >= k - 1
        BY <3>1, <3>2, <3>3
      <4> HIDE DEF m
      <4>2. m = k - 1
        BY <4>1
      <4>3. QED BY <4>2 DEF m
    <3>5. QED BY <1>2, <3>1, <3>2, <3>4
  <2>3. QED BY <2>1, <2>2
<1>4. \E k \in 1 .. n : Begins(b, n, k)
  <2> DEFINE T == {k \in 1 .. n : \A m \in k .. n - 1 : b[m] # Newline}
  <2>1. n \in T /\ T \subseteq Nat
    BY <1>1
  <2> HIDE DEF T
  <2>2. PICK k \in T : \A m \in T : k <= m
    <3>1. T # {}
      BY <2>1
    <3>2. QED BY <2>1, <3>1, Least
  <2>3. k \in 1 .. n /\ \A m \in k .. n - 1 : b[m] # Newline
    BY <2>2 DEF T
  <2>4. ASSUME k # 1, b[k - 1] # Newline PROVE FALSE
    <3>1. k - 1 \in T
      BY <1>1, <2>3, <2>4 DEF T
    <3>2. QED BY <2>2, <2>3, <3>1
  <2>5. QED BY <2>3, <2>4 DEF Begins
<1>5. QED BY <1>3, <1>4

(* Every line is of the stream.                                             *)
LEMMA LinesOfType ==
  ASSUME NEW b \in Seq(Bytes)
  PROVE  LinesOf(b) \in Seq(Seq(Bytes)) /\ Len(LinesOf(b)) = Len(b)
<1> DEFINE line(n) == IF b[n] = Newline THEN SubSeq(b, LineBegin(b, n), n - 1) ELSE <<>>
           l == Len(b)
<1>1. l \in Nat /\ DOMAIN b = 1 .. l /\ \A n \in 1 .. l : b[n] \in Bytes
  OBVIOUS
<1>2. LinesOf(b) = [n \in 1 .. l |-> line(n)]
  BY <1>1 DEF LinesOf
<1>3. ASSUME NEW n \in 1 .. l PROVE line(n) \in Seq(Bytes)
  <2>1. LineBegin(b, n) \in 1 .. n
    BY LineBeginValue
  <2>2. /\ LineBegin(b, n) \in Nat /\ n - 1 \in Nat
        /\ \A i \in LineBegin(b, n) .. n - 1 : b[i] \in Bytes
    BY <1>1, <2>1
  <2>3. SubSeq(b, LineBegin(b, n), n - 1) \in Seq(Bytes)
    BY <2>2, SubSeqProperties
  <2>4. QED BY <2>3
<1> HIDE DEF line, l
<1>4. LinesOf(b) \in [1 .. l -> Seq(Bytes)]
  BY <1>2, <1>3
<1>5. LinesOf(b) \in Seq(Seq(Bytes)) /\ Len(LinesOf(b)) = l
  BY <1>1, <1>4
<1>6. QED BY <1>5 DEF l

(* The lines of a stream that goes on with another behind its last line.    *)
LEMMA LinesOfConcat ==
  ASSUME NEW u \in Seq(Bytes), NEW v \in Seq(Bytes), u # <<>> => u[Len(u)] = Newline
  PROVE  LinesOf(u \o v) = LinesOf(u) \o LinesOf(v)
<1> DEFINE w == u \o v
           l == Len(u)
           x == LinesOf(w)
           y == LinesOf(u) \o LinesOf(v)
<1>1. /\ w \in Seq(Bytes) /\ Len(w) = l + Len(v) /\ l \in Nat /\ Len(v) \in Nat
      /\ DOMAIN u = 1 .. l /\ DOMAIN v = 1 .. Len(v) /\ DOMAIN w = 1 .. l + Len(v)
      /\ \A i \in 1 .. l : w[i] = u[i]
      /\ \A i \in 1 .. Len(v) : w[l + i] = v[i]
      /\ l > 0 => u # <<>>
  OBVIOUS
<1> HIDE DEF w
<1>2. /\ LinesOf(u) \in Seq(Seq(Bytes)) /\ Len(LinesOf(u)) = l
      /\ LinesOf(v) \in Seq(Seq(Bytes)) /\ Len(LinesOf(v)) = Len(v)
      /\ x \in Seq(Seq(Bytes)) /\ Len(x) = l + Len(v)
  BY <1>1, LinesOfType
<1>3. /\ y \in Seq(Seq(Bytes)) /\ Len(y) = l + Len(v)
      /\ \A n \in 1 .. l : y[n] = LinesOf(u)[n]
      /\ \A n \in 1 .. Len(v) : y[l + n] = LinesOf(v)[n]
  <2> DEFINE a == LinesOf(u)
             c == LinesOf(v)
  <2>1. a \in Seq(Seq(Bytes)) /\ Len(a) = l /\ c \in Seq(Seq(Bytes)) /\ Len(c) = Len(v)
    BY <1>2
  <2> HIDE DEF a, c
  <2>2. /\ a \o c \in Seq(Seq(Bytes)) /\ Len(a \o c) = l + Len(v)
        /\ \A n \in 1 .. l : (a \o c)[n] = a[n]
        /\ \A n \in 1 .. Len(v) : (a \o c)[l + n] = c[n]
    <3>1. /\ a \o c \in Seq(Seq(Bytes)) /\ Len(a \o c) = Len(a) + Len(c)
          /\ \A n \in 1 .. Len(a) : (a \o c)[n] = a[n]
          /\ \A n \in 1 .. Len(c) : (a \o c)[Len(a) + n] = c[n]
      <4> DEFINE T == Seq(Bytes)
      <4>1. a \in Seq(T) /\ c \in Seq(T)
        BY <2>1
      <4> HIDE DEF T
      <4>2. a \o c \in Seq(T)
        BY <4>1, Joined
      <4>3. /\ Len(a \o c) = Len(a) + Len(c)
            /\ \A n \in 1 .. Len(a) : (a \o c)[n] = a[n]
            /\ \A n \in 1 .. Len(c) : (a \o c)[Len(a) + n] = c[n]
        BY <4>1, Joined
      <4>4. QED BY <4>2, <4>3 DEF T
    <3>2. QED BY <2>1, <3>1
  <2>3. QED BY <2>2 DEF a, c
<1>4. ASSUME NEW n \in 1 .. l PROVE x[n] = LinesOf(u)[n]
  <2>1. x[n] = IF w[n] = Newline THEN SubSeq(w, LineBegin(w, n), n - 1) ELSE <<>>
    BY <1>1 DEF LinesOf
  <2>2. LinesOf(u)[n] = IF u[n] = Newline THEN SubSeq(u, LineBegin(u, n), n - 1) ELSE <<>>
    BY <1>1 DEF LinesOf
  <2>3. PICK k \in 1 .. n : Begins(u, n, k)
    BY LineBeginValue
  <2>4. Begins(w, n, k)
    <3>1. \A m \in k .. n - 1 : m \in 1 .. l /\ w[m] = u[m]
      BY <1>1
    <3>2. k # 1 => k - 1 \in 1 .. l /\ w[k - 1] = u[k - 1]
      BY <1>1
    <3>3. QED BY <2>3, <3>1, <3>2 DEF Begins
  <2>5. LineBegin(u, n) = k /\ LineBegin(w, n) = k
    <3>1. n \in 1 .. Len(u) /\ n \in 1 .. Len(w)
      BY <1>1
    <3>2. QED BY <1>1, <2>3, <2>4, <3>1, LineBeginValue
  <2>6. n - 1 \in 0 .. l /\ k \in 1 .. (n - 1) + 1
    BY <1>1
  <2>7. SubSeq(w, k, n - 1) = SubSeq(u, k, n - 1)
    BY <2>6, Within DEF w
  <2>8. QED BY <1>1, <2>1, <2>2, <2>5, <2>7
<1>5. ASSUME NEW n \in 1 .. Len(v) PROVE x[l + n] = LinesOf(v)[n]
  <2> DEFINE j == l + n
  <2>1. j \in 1 .. l + Len(v) /\ w[j] = v[n]
    BY <1>1
  <2>2. x[j] = IF w[j] = Newline THEN SubSeq(w, LineBegin(w, j), j - 1) ELSE <<>>
    BY <1>1, <2>1 DEF LinesOf
  <2>3. LinesOf(v)[n] = IF v[n] = Newline THEN SubSeq(v, LineBegin(v, n), n - 1) ELSE <<>>
    BY <1>1 DEF LinesOf
  <2>4. PICK k \in 1 .. n : Begins(v, n, k)
    BY LineBeginValue
  <2>5. Begins(w, j, l + k) /\ l + k \in 1 .. j
    <3>1. ASSUME NEW m \in l + k .. j - 1 PROVE w[m] # Newline
      <4>1. m - l \in k .. n - 1 /\ m - l \in 1 .. Len(v) /\ l + (m - l) = m
        BY <1>1
      <4>2. w[m] = v[m - l]
        BY <1>1, <4>1
      <4>3. QED BY <2>4, <4>1, <4>2 DEF Begins
    <3>2. l + k = 1 \/ w[(l + k) - 1] = Newline
      <4>1. CASE k = 1 /\ l > 0
        <5>1. (l + k) - 1 = l /\ l \in 1 .. l
          BY <1>1, <4>1
        <5>2. w[l] = u[l] /\ u[l] = Newline
          BY <1>1, <4>1, <5>1
        <5>3. QED BY <5>1, <5>2
      <4>2. CASE k # 1
        <5>1. k - 1 \in 1 .. Len(v) /\ l + (k - 1) = (l + k) - 1
          BY <1>1, <4>2
        <5>2. w[(l + k) - 1] = v[k - 1] /\ v[k - 1] = Newline
          BY <1>1, <2>4, <4>2, <5>1 DEF Begins
        <5>3. QED BY <5>2
      <4>3. QED BY <1>1, <4>1, <4>2
    <3>3. QED BY <1>1, <3>1, <3>2 DEF Begins
  <2>6. LineBegin(v, n) = k /\ LineBegin(w, j) = l + k
    <3>1. j \in 1 .. Len(w)
      BY <1>1, <2>1
    <3> HIDE DEF j
    <3>2. QED BY <1>1, <2>4, <2>5, <3>1, LineBeginValue
  <2>7. n - 1 \in 0 .. Len(v) /\ k \in 1 .. (n - 1) + 1 /\ l + (n - 1) = j - 1
    BY <1>1
  <2>8. SubSeq(w, l + k, l + (n - 1)) = SubSeq(v, k, n - 1)
    BY <2>7, Within DEF w
  <2>9. QED BY <2>1, <2>2, <2>3, <2>6, <2>7, <2>8
<1> HIDE DEF x, y, l
<1>6. Len(x) = Len(y) /\ \A n \in 1 .. Len(x) : x[n] = y[n]
  <2>1. ASSUME NEW n \in 1 .. l + Len(v) PROVE x[n] = y[n]
    <3>1. CASE n <= l
      BY <1>1, <1>3, <1>4, <3>1
    <3>2. CASE ~(n <= l)
      <4>1. n - l \in 1 .. Len(v) /\ l + (n - l) = n
        BY <1>1, <3>2, SMTT(30)
      <4>2. x[l + (n - l)] = LinesOf(v)[n - l] /\ y[l + (n - l)] = LinesOf(v)[n - l]
        BY <1>3, <1>5, <4>1
      <4>3. QED BY <4>1, <4>2
    <3>3. QED BY <3>1, <3>2
  <2>2. QED BY <1>2, <1>3, <2>1
<1>7. x = y
  BY <1>2, <1>3, <1>6, SeqEqual
<1>8. QED BY <1>7 DEF x, y, w

(* The line of a text, and nothing else.                                    *)
LEMMA LineAlone ==
  ASSUME NEW text \in Seq(Bytes), \A n \in 1 .. Len(text) : text[n] # Newline
  PROVE  \E e \in Seq(Seq(Bytes)) :
           /\ \A n \in DOMAIN e : e[n] = <<>>
           /\ LinesOf(Append(text, Newline)) = e \o <<text>>
<1> DEFINE b == Append(text, Newline)
           l == Len(text)
           e == [n \in 1 .. l |-> <<>>]
           x == LinesOf(b)
           y == e \o <<text>>
<1>1. /\ b \in Seq(Bytes) /\ l \in Nat /\ Len(b) = l + 1 /\ b[l + 1] = Newline
      /\ \A n \in 1 .. l : b[n] = text[n] /\ text[n] # Newline
      /\ DOMAIN b = 1 .. l + 1
  <2>1. Newline \in Bytes
    BY TextFacts
  <2>2. /\ b \in Seq(Bytes) /\ l \in Nat /\ Len(b) = l + 1 /\ b[l + 1] = Newline
        /\ \A n \in 1 .. l : b[n] = text[n]
    BY <2>1, AppendProperties
  <2> HIDE DEF b
  <2>3. QED BY <2>2
<1>2. e \in Seq(Seq(Bytes)) /\ Len(e) = l /\ \A n \in DOMAIN e : e[n] = <<>>
  <2>1. e \in [1 .. l -> Seq(Bytes)] /\ l \in Nat
    OBVIOUS
  <2>2. QED BY <2>1
<1>3. y \in Seq(Seq(Bytes)) /\ Len(y) = l + 1 /\ y[l + 1] = text /\ \A n \in 1 .. l : y[n] = <<>>
  <2> HIDE DEF e
  <2>1. <<text>> \in Seq(Seq(Bytes)) /\ Len(<<text>>) = 1 /\ <<text>>[1] = text
    OBVIOUS
  <2>2. /\ y \in Seq(Seq(Bytes)) /\ Len(y) = l + 1
        /\ \A n \in 1 .. l : y[n] = e[n]
        /\ \A n \in 1 .. 1 : y[l + n] = <<text>>[n]
    BY <1>1, <1>2, <2>1
  <2>3. \A n \in 1 .. l : e[n] = <<>>
    BY DEF e
  <2>4. y[l + 1] = text
    BY <2>1, <2>2
  <2>5. QED BY <2>2, <2>3, <2>4
<1> HIDE DEF b, e, y
<1>4. x \in Seq(Seq(Bytes)) /\ Len(x) = l + 1
  BY <1>1, LinesOfType
<1>5. \A n \in 1 .. l + 1 :
        x[n] = IF b[n] = Newline THEN SubSeq(b, LineBegin(b, n), n - 1) ELSE <<>>
  BY <1>1 DEF LinesOf
<1>6. x[l + 1] = text
  <2>1. LineBegin(b, l + 1) = 1
    <3>1. Begins(b, l + 1, 1) /\ l + 1 \in 1 .. Len(b) /\ 1 \in 1 .. l + 1
      BY <1>1 DEF Begins
    <3>2. QED BY <1>1, <3>1, LineBeginValue
  <2>2. SubSeq(b, 1, l) = text
    <3> DEFINE z == SubSeq(b, 1, l)
    <3>1. z \in Seq(Bytes) /\ Len(z) = l /\ \A m \in 1 .. l : z[m] = b[m]
      BY <1>1
    <3> HIDE DEF z, l
    <3>2. Len(z) = Len(text) /\ \A m \in 1 .. Len(z) : z[m] = text[m]
      BY <1>1, <3>1 DEF l
    <3>3. z = text
      BY <3>1, <3>2, SeqEqual
    <3>4. QED BY <3>3 DEF z
  <2>3. (l + 1) - 1 = l /\ l + 1 \in 1 .. l + 1
    BY <1>1
  <2>4. x[l + 1] = IF b[l + 1] = Newline THEN SubSeq(b, LineBegin(b, l + 1), (l + 1) - 1) ELSE <<>>
    BY <1>5, <2>3
  <2>5. QED BY <1>1, <2>1, <2>2, <2>3, <2>4
<1>7. \A n \in 1 .. l : x[n] = <<>>
  BY <1>1, <1>5
<1> HIDE DEF x, l
<1>8. Len(x) = Len(y) /\ \A n \in 1 .. Len(x) : x[n] = y[n]
  <2>1. \A n \in 1 .. l + 1 : n = l + 1 \/ n \in 1 .. l
    BY <1>1
  <2>2. QED BY <1>3, <1>4, <1>6, <1>7, <2>1
<1>9. x = y
  BY <1>3, <1>4, <1>8, SeqEqual
<1>10. QED BY <1>2, <1>9 DEF x, y, b

-----------------------------------------------------------------------------
(* Jobs, as the lines of them.                                              *)
AllLines == Seq(Bytes)

(* What a write that waits is for: a job, or nothing if that was popped.    *)
Item(op) == IF op.by = "dangling" THEN <<>> ELSE op.job

(* InFlight, Rest and ToWrite of any queue and ring.                        *)
Flight(q) ==
  IF HasFeed(q) THEN <<q[CHOOSE n \in DOMAIN q : q[n].by = "feed"].job>> ELSE <<>>
RestOf(i, ring, f) == IF i = R!NoSlot THEN <<>> ELSE R!Behind(ring, f, i)
AgainOf(q, i, ring, f) ==
  IF i # R!NoSlot /\ q # <<>> /\ (Head(q).by = "feed" \/ RestOf(i, ring, f) # <<>>)
  THEN Flight(q) ELSE <<>>
Left(q, i, ring, f) ==
  [n \in DOMAIN q |-> Item(q[n])] \o RestOf(i, ring, f) \o AgainOf(q, i, ring, f)

LEMMA LeftIs ==
  /\ InFlight = Flight(writing) /\ ToWrite = Left(writing, it, commands, first)
  /\ InFlight' = Flight(writing')
  /\ ToWrite' = Left(writing', it', commands', first')
<1>1. /\ InFlight = Flight(writing)
      /\ InFlight' = Flight(writing')
  BY DEF InFlight, Flight, Feeding, HasFeed
<1>2. /\ Rest = RestOf(it, commands, first)
      /\ Rest' = RestOf(it', commands', first')
  BY DEF Rest, RestOf
<1>3. /\ Waiting = [n \in DOMAIN writing |-> Item(writing[n])]
      /\ Waiting' = [n \in DOMAIN writing' |-> Item(writing'[n])]
  BY DEF Waiting, Item
<1>4. /\ (IF FedAgain THEN InFlight ELSE <<>>) = AgainOf(writing, it, commands, first)
      /\ (IF FedAgain' THEN InFlight' ELSE <<>>) = AgainOf(writing', it', commands', first')
  BY <1>1, <1>2 DEF FedAgain, AgainOf
<1>5. QED BY <1>1, <1>2, <1>3, <1>4 DEF ToWrite, Left

(* There are never more than two writes.                                    *)
LEMMA QueueForms ==
  ASSUME NEW q, NEW i, Queue(q, i)
  PROVE  \/ q = <<>> /\ i = R!NoSlot
         \/ \E a \in Ops : q = <<a>> /\ a.by = "feed" /\ i = R!NoSlot
         \/ \E r \in Ops : q = <<r>> /\ r.by # "feed" /\ i # R!NoSlot
         \/ \E a, r \in Ops : q = <<a, r>> /\ a.by = "feed" /\ r.by # "feed" /\ i # R!NoSlot
         \/ \E a, r \in Ops : q = <<r, a>> /\ a.by = "feed" /\ r.by # "feed" /\ i # R!NoSlot
<1> DEFINE l == Len(q)
<1>1. /\ q \in Seq(Ops)
      /\ \A m, n \in DOMAIN q : (q[m].by = "feed" <=> q[n].by = "feed") => m = n
      /\ i # R!NoSlot <=> \E n \in DOMAIN q : q[n].by # "feed"
  BY DEF Queue
<1>2. l \in Nat /\ DOMAIN q = 1 .. l /\ \A n \in 1 .. l : q[n] \in Ops
  BY <1>1
<1>3. l <= 2
  <2>1. SUFFICES ASSUME l > 2 PROVE FALSE
    BY <1>2
  <2>2. 1 \in DOMAIN q /\ 2 \in DOMAIN q /\ 3 \in DOMAIN q
    BY <1>2, <2>1
  <2>3. /\ ~(q[1].by = "feed" <=> q[2].by = "feed")
        /\ ~(q[2].by = "feed" <=> q[3].by = "feed")
        /\ ~(q[1].by = "feed" <=> q[3].by = "feed")
    BY <1>1, <2>2
  <2>4. QED BY <2>3
<1>4. CASE l = 0
  <2>1. q = <<>> /\ DOMAIN q = {}
    BY <1>1, <1>2, <1>4
  <2>2. QED BY <1>1, <2>1
<1>5. CASE l = 1
  <2>1. q = <<q[1]>> /\ q[1] \in Ops /\ DOMAIN q = {1}
    BY <1>1, <1>2, <1>5
  <2>2. QED BY <1>1, <2>1
<1>6. CASE l = 2
  <2>1. q = <<q[1], q[2]>> /\ q[1] \in Ops /\ q[2] \in Ops /\ DOMAIN q = {1, 2}
    BY <1>1, <1>2, <1>6
  <2>2. ~(q[1].by = "feed" <=> q[2].by = "feed")
    BY <1>1, <2>1
  <2>3. QED BY <1>1, <2>1, <2>2
<1>7. l = 0 \/ l = 1 \/ l = 2
  BY <1>2, <1>3
<1>8. QED BY <1>4, <1>5, <1>6, <1>7

(* The writes that wait, and what is left to be written, in each case.      *)
LEMMA LeftNone ==
  ASSUME NEW ring, NEW f
  PROVE  Flight(<<>>) = <<>> /\ Left(<<>>, R!NoSlot, ring, f) = <<>>
<1> DEFINE q == <<>>
<1>1. DOMAIN q = {}
  OBVIOUS
<1>2. [n \in DOMAIN q |-> Item(q[n])] = <<>>
  BY <1>1
<1>3. ~HasFeed(q)
  BY <1>1 DEF HasFeed
<1>4. RestOf(R!NoSlot, ring, f) = <<>> /\ AgainOf(q, R!NoSlot, ring, f) = <<>>
  BY DEF RestOf, AgainOf
<1>5. QED BY <1>2, <1>3, <1>4 DEF Flight, Left

LEMMA LeftFeed ==
  ASSUME NEW ring, NEW f, NEW a \in Ops, a.by = "feed"
  PROVE  Flight(<<a>>) = <<a.job>> /\ Left(<<a>>, R!NoSlot, ring, f) = <<a.job>>
<1> DEFINE q == <<a>>
<1>1. DOMAIN q = {1} /\ q[1] = a
  OBVIOUS
<1>2. [n \in DOMAIN q |-> Item(q[n])] = <<a.job>>
  BY <1>1 DEF Item
<1>3. HasFeed(q) /\ (CHOOSE n \in DOMAIN q : q[n].by = "feed") = 1
  BY <1>1 DEF HasFeed
<1>4. RestOf(R!NoSlot, ring, f) = <<>> /\ AgainOf(q, R!NoSlot, ring, f) = <<>>
  BY DEF RestOf, AgainOf
<1> HIDE DEF q
<1>5. Left(q, R!NoSlot, ring, f) = (<<a.job>> \o <<>>) \o <<>>
  BY <1>2, <1>4 DEF Left
<1>6. QED BY <1>1, <1>3, <1>5 DEF Flight, q

LEMMA LeftLoop ==
  ASSUME NEW ring, NEW f, NEW r \in Ops, r.by # "feed", NEW i, i # R!NoSlot,
         RestOf(i, ring, f) \in Seq(AllLines), Item(r) \in AllLines
  PROVE  /\ Flight(<<r>>) = <<>>
         /\ Left(<<r>>, i, ring, f) = <<Item(r)>> \o RestOf(i, ring, f)
<1> DEFINE q == <<r>>
           x == RestOf(i, ring, f)
<1>1. DOMAIN q = {1} /\ q[1] = r
  OBVIOUS
<1>2. [n \in DOMAIN q |-> Item(q[n])] = <<Item(r)>>
  BY <1>1
<1>3. Flight(q) = <<>>
  BY <1>1 DEF Flight, HasFeed
<1>4. AgainOf(q, i, ring, f) = <<>>
  BY <1>3 DEF AgainOf
<1> HIDE DEF q
<1>5. Left(q, i, ring, f) = (<<Item(r)>> \o x) \o <<>>
  BY <1>2, <1>4 DEF Left
<1> HIDE DEF x
<1>6. x \in Seq(AllLines) /\ <<Item(r)>> \in Seq(AllLines)
  BY DEF x
<1>7. (<<Item(r)>> \o x) \o <<>> = <<Item(r)>> \o x
  <2>1. <<Item(r)>> \o x \in Seq(AllLines)
    BY <1>6
  <2>2. QED BY <2>1, ConcatEmptySeq
<1>8. QED BY <1>3, <1>5, <1>7 DEF q, x

LEMMA LeftFeedLoop ==
  ASSUME NEW ring, NEW f, NEW a \in Ops, a.by = "feed", NEW r \in Ops, r.by # "feed",
         NEW i, i # R!NoSlot, RestOf(i, ring, f) \in Seq(AllLines), Item(r) \in AllLines,
         a.job \in AllLines
  PROVE  /\ Flight(<<a, r>>) = <<a.job>>
         /\ Left(<<a, r>>, i, ring, f) =
              Cat(<<a.job>>, Cat(<<Item(r)>>, Cat(RestOf(i, ring, f), <<a.job>>)))
<1> DEFINE q == <<a, r>>
           x == RestOf(i, ring, f)
           j == <<a.job>>
           z == <<Item(r)>>
<1>1. DOMAIN q = {1, 2} /\ q[1] = a /\ q[2] = r /\ q # <<>> /\ Head(q) = a
  OBVIOUS
<1>2. [n \in DOMAIN q |-> Item(q[n])] = <<a.job, Item(r)>>
  <2>1. Item(a) = a.job
    BY DEF Item
  <2>2. QED BY <1>1, <2>1
<1>3. HasFeed(q) /\ (CHOOSE n \in DOMAIN q : q[n].by = "feed") = 1
  BY <1>1 DEF HasFeed
<1>4. Flight(q) = j
  BY <1>1, <1>3 DEF Flight
<1>5. AgainOf(q, i, ring, f) = j
  BY <1>1, <1>4 DEF AgainOf
<1>6. <<a.job, Item(r)>> = Cat(j, z)
  BY DEF Cat
<1> HIDE DEF q
<1>7. Left(q, i, ring, f) = Cat(Cat(Cat(j, z), x), j)
  BY <1>2, <1>5, <1>6 DEF Left, Cat
<1>8. x \in Seq(AllLines) /\ z \in Seq(AllLines) /\ j \in Seq(AllLines)
  OBVIOUS
<1> HIDE DEF x, z, j
<1>9. Cat(Cat(Cat(j, z), x), j) = Cat(j, Cat(z, Cat(x, j)))
  <2>1. Cat(j, z) \in Seq(AllLines) /\ Cat(x, j) \in Seq(AllLines)
    BY <1>8 DEF Cat
  <2>2. Cat(Cat(Cat(j, z), x), j) = Cat(Cat(j, z), Cat(x, j))
    BY <1>8, <2>1, Associative
  <2>3. Cat(Cat(j, z), Cat(x, j)) = Cat(j, Cat(z, Cat(x, j)))
    BY <1>8, <2>1, Associative
  <2>4. QED BY <2>2, <2>3
<1>10. QED BY <1>4, <1>7, <1>9 DEF q, x, z, j

LEMMA LeftLoopFeed ==
  ASSUME NEW ring, NEW f, NEW a \in Ops, a.by = "feed", NEW r \in Ops, r.by # "feed",
         NEW i, i # R!NoSlot, NEW x \in Seq(AllLines), x = RestOf(i, ring, f),
         Item(r) \in AllLines, a.job \in AllLines,
         NEW y, y = IF x # <<>> THEN <<a.job>> ELSE <<>>
  PROVE  /\ Flight(<<r, a>>) = <<a.job>>
         /\ Left(<<r, a>>, i, ring, f) = Cat(<<Item(r)>>, Cat(<<a.job>>, Cat(x, y)))
<1> DEFINE q == <<r, a>>
           j == <<a.job>>
           z == <<Item(r)>>
<1>1. DOMAIN q = {1, 2} /\ q[1] = r /\ q[2] = a /\ q # <<>> /\ Head(q) = r
  OBVIOUS
<1>2. [n \in DOMAIN q |-> Item(q[n])] = <<Item(r), a.job>>
  <2>1. Item(a) = a.job
    BY DEF Item
  <2>2. QED BY <1>1, <2>1
<1>3. HasFeed(q) /\ (CHOOSE n \in DOMAIN q : q[n].by = "feed") = 2
  BY <1>1 DEF HasFeed
<1>4. Flight(q) = j
  BY <1>1, <1>3 DEF Flight
<1>5. AgainOf(q, i, ring, f) = y
  BY <1>1, <1>4 DEF AgainOf
<1>6. <<Item(r), a.job>> = Cat(z, j)
  BY DEF Cat
<1> HIDE DEF q
<1>7. Left(q, i, ring, f) = Cat(Cat(Cat(z, j), x), y)
  BY <1>2, <1>5, <1>6 DEF Left, Cat
<1>8. /\ x \in Seq(AllLines) /\ z \in Seq(AllLines)
      /\ j \in Seq(AllLines) /\ y \in Seq(AllLines)
  BY DEF z, j
<1> HIDE DEF z, j
<1>9. Cat(Cat(Cat(z, j), x), y) = Cat(z, Cat(j, Cat(x, y)))
  <2>1. Cat(z, j) \in Seq(AllLines) /\ Cat(x, y) \in Seq(AllLines)
    BY <1>8 DEF Cat
  <2>2. Cat(Cat(Cat(z, j), x), y) = Cat(Cat(z, j), Cat(x, y))
    BY ONLY <1>8, <2>1, Associative
  <2>3. Cat(Cat(z, j), Cat(x, y)) = Cat(z, Cat(j, Cat(x, y)))
    BY ONLY <1>8, <2>1, Associative
  <2>4. QED BY <2>2, <2>3
<1>10. QED BY <1>4, <1>7, <1>9 DEF q, z, j

-----------------------------------------------------------------------------
(* Where the resend loop is.                                                *)
LEMMA LoopForms ==
  ASSUME NEW i, i # R!NoSlot, NEW ring, NEW f, NEW a \in Ops, a.by = "feed",
         NEW r \in Ops, r.by # "feed"
  PROVE  /\ Loop(<<r>>, i, ring, f) <=> AtLive(r, i, ring, f) \/ AtLost(r, 1, i, ring, f)
         /\ Loop(<<a, r>>, i, ring, f) <=> AtLive(r, i, ring, f) \/ AtLost(r, 2, i, ring, f)
         /\ Loop(<<r, a>>, i, ring, f) <=> AtLive(r, i, ring, f) \/ AtLost(r, 1, i, ring, f)
<1> DEFINE P(op, n) == AtLive(op, i, ring, f) \/ AtLost(op, n, i, ring, f)
           q1 == <<r>>
           q2 == <<a, r>>
           q3 == <<r, a>>
<1>1. DOMAIN q1 = {1} /\ q1[1] = r
  OBVIOUS
<1>2. DOMAIN q2 = {1, 2} /\ q2[1] = a /\ q2[2] = r
  OBVIOUS
<1>3. DOMAIN q3 = {1, 2} /\ q3[1] = r /\ q3[2] = a
  OBVIOUS
<1>4. \A q : Loop(q, i, ring, f) <=> \A n \in DOMAIN q : q[n].by # "feed" => P(q[n], n)
  BY DEF Loop
<1> HIDE DEF P, q1, q2, q3
<1>5. Loop(q1, i, ring, f) <=> P(r, 1)
  BY <1>1, <1>4
<1>6. Loop(q2, i, ring, f) <=> P(r, 2)
  BY <1>2, <1>4
<1>7. Loop(q3, i, ring, f) <=> P(r, 1)
  BY <1>3, <1>4
<1>8. QED BY <1>5, <1>6, <1>7 DEF P, q1, q2, q3

(* A push does not come to the slot of the loop.                            *)
LEMMA LoopPush ==
  ASSUME NEW ring \in Seq(Jobs), NEW job \in Jobs, NEW f \in R!Slots, NEW i \in R!Slots,
         NEW r, AtLive(r, i, ring, f) \/ AtLost(r, 2, i, ring, f)
  PROVE  AtLive(r, i, Append(ring, job), f) \/ AtLost(r, 1, i, Append(ring, job), f)
<1> DEFINE o == R!Offset(f, i)
           new == Append(ring, job)
<1>1. /\ o \in Nat /\ Len(ring) \in Nat /\ Len(new) = Len(ring) + 1
      /\ \A n \in 1 .. Len(ring) : new[n] = ring[n]
  <2>1. o \in 0 .. BufferSize - 1
    BY RingSteps
  <2>2. QED BY <2>1, AppendProperties
<1> HIDE DEF o, new
<1>2. CASE AtLive(r, i, ring, f)
  <2>1. o < Len(ring) /\ r.by = "resend" /\ r.job = ring[o + 1]
    BY <1>2 DEF AtLive, R!Live, o
  <2>2. o + 1 \in 1 .. Len(ring) /\ o < Len(new)
    BY <1>1, <2>1
  <2>3. r.job = new[o + 1]
    BY <1>1, <2>1, <2>2
  <2>4. QED BY <2>1, <2>2, <2>3 DEF AtLive, R!Live, o, new
<1>3. CASE AtLost(r, 2, i, ring, f)
  <2>1. o >= Len(ring) + 1 /\ (r.by = "dangling" \/ r.job = <<Garbage>>)
    BY <1>3 DEF AtLost, o
  <2>2. o >= Len(new) + 0
    BY <1>1, <2>1
  <2>3. QED BY <2>1, <2>2 DEF AtLost, o, new
<1>4. QED BY <1>2, <1>3

(* A pop leaves the loop at a job, or far behind the last.                  *)
LEMMA LoopPop ==
  ASSUME NEW ring \in Seq(Jobs), ring # <<>>, NEW f \in R!Slots, NEW i \in R!Slots,
         NEW n \in {1, 2}, Len(ring) + (IF n = 1 THEN 0 ELSE 1) <= BufferSize,
         NEW r \in Ops, r.by # "feed",
         AtLive(r, i, ring, f) \/ AtLost(r, n, i, ring, f),
         NEW d, d = IF f = i THEN Dangling(r) ELSE r
  PROVE  \/ AtLive(d, i, Tail(ring), R!Slot(f + 1))
         \/ AtLost(d, n, i, Tail(ring), R!Slot(f + 1))
<1> DEFINE o == R!Offset(f, i)
           g == R!Slot(f + 1)
           p == R!Offset(g, i)
           new == Tail(ring)
           k == IF n = 1 THEN 0 ELSE 1
<1>1. /\ o \in 0 .. BufferSize - 1 /\ (o = 0 <=> i = f)
      /\ p = IF o = 0 THEN BufferSize - 1 ELSE o - 1
  BY RingSteps
<1>2. /\ Len(ring) \in Nat \ {0} /\ Len(new) = Len(ring) - 1
      /\ \A m \in 1 .. Len(ring) - 1 : new[m] = ring[m + 1]
      /\ k \in Nat /\ Len(ring) + k <= BufferSize /\ BufferSize \in Nat
  <2>1. k \in Nat /\ Len(ring) + k <= BufferSize /\ BufferSize \in Nat
    BY PipeBufferAssumption
  <2>2. QED BY <2>1, HeadTailProperties
<1>3. \/ r.by = "resend" /\ o < Len(ring) /\ r.job = ring[o + 1]
      \/ (r.by = "dangling" \/ r.job = <<Garbage>>) /\ o >= Len(ring) + k
  BY DEF AtLive, AtLost, R!Live
<1>4. /\ (d.by = "resend" /\ p < Len(new) /\ d.job = new[p + 1])
           => AtLive(d, i, new, g)
      /\ ((d.by = "dangling" \/ d.job = <<Garbage>>) /\ p >= Len(new) + k)
           => AtLost(d, n, i, new, g)
  BY DEF AtLive, AtLost, R!Live
<1> HIDE DEF o, g, p, new, k
<1>5. CASE o = 0
  <2>1. r.by = "resend" /\ d = Dangling(r)
    BY <1>1, <1>2, <1>3, <1>5
  <2>2. d.by = "dangling"
    BY <2>1 DEF Dangling, Ops
  <2>3. p >= Len(new) + k
    BY <1>1, <1>2, <1>5
  <2>4. QED BY <1>4, <2>2, <2>3 DEF new, g
<1>6. CASE o # 0
  <2>1. d = r /\ p = o - 1
    BY <1>1, <1>6
  <2>2. CASE r.by = "resend" /\ o < Len(ring) /\ r.job = ring[o + 1]
    <3>1. p < Len(new) /\ o \in 1 .. Len(ring) - 1 /\ p + 1 = o
      BY <1>1, <1>2, <1>6, <2>1, <2>2
    <3>2. d.job = new[p + 1]
      BY <1>2, <2>1, <2>2, <3>1
    <3>3. QED BY <1>4, <2>1, <2>2, <3>1, <3>2 DEF new, g
  <2>3. CASE (r.by = "dangling" \/ r.job = <<Garbage>>) /\ o >= Len(ring) + k
    <3>1. p >= Len(new) + k
      BY <1>1, <1>2, <2>1, <2>3
    <3>2. QED BY <1>4, <2>1, <2>3, <3>1 DEF new, g
  <2>4. QED BY <1>3, <2>2, <2>3
<1>7. QED BY <1>5, <1>6

(* Short queues.                                                            *)
LEMMA Short ==
  ASSUME NEW S, NEW a \in S, NEW b \in S
  PROVE  /\ Append(<<>>, a) = <<a>> /\ Append(<<a>>, b) = <<a, b>>
         /\ Head(<<a>>) = a /\ Tail(<<a>>) = <<>>
         /\ Head(<<a, b>>) = a /\ Tail(<<a, b>>) = <<b>>
         /\ <<a>> # <<>> /\ <<a, b>> # <<>>
<1>1. Append(<<>>, a) = <<a>>
  OBVIOUS
<1>2. Append(<<a>>, b) = <<a, b>>
  <2> DEFINE x == Append(<<a>>, b)
  <2>1. /\ x \in Seq(S) /\ Len(x) = 2 /\ x[2] = b /\ x[1] = a
    <3>1. <<a>> \in Seq(S) /\ Len(<<a>>) = 1 /\ <<a>>[1] = a
      OBVIOUS
    <3>2. QED BY <3>1, AppendProperties
  <2> HIDE DEF x
  <2>2. \A m \in 1 .. Len(x) : x[m] = <<a, b>>[m]
    BY <2>1
  <2>3. Len(x) = Len(<<a, b>>) /\ <<a, b>> \in Seq(S)
    BY <2>1
  <2>4. x = <<a, b>>
    BY <2>1, <2>2, <2>3, SeqEqual
  <2>5. QED BY <2>4 DEF x
<1>3. Head(<<a>>) = a /\ Tail(<<a>>) = <<>>
  OBVIOUS
<1>4. Head(<<a, b>>) = a
  OBVIOUS
<1>5. Tail(<<a, b>>) = <<b>>
  <2> DEFINE x == Tail(<<a, b>>)
  <2>1. x \in Seq(S) /\ Len(x) = 1 /\ x[1] = b
    OBVIOUS
  <2> HIDE DEF x
  <2>2. \A m \in 1 .. Len(x) : x[m] = <<b>>[m]
    BY <2>1
  <2>3. Len(x) = Len(<<b>>) /\ <<b>> \in Seq(S)
    BY <2>1
  <2>4. x = <<b>>
    BY <2>1, <2>2, <2>3, SeqEqual
  <2>5. QED BY <2>4 DEF x
<1>6. <<a>> # <<>> /\ <<a, b>> # <<>>
  OBVIOUS
<1>7. QED BY <1>1, <1>2, <1>3, <1>4, <1>5, <1>6

-----------------------------------------------------------------------------
(* Recoverable, of any lines on their way, any queue and any ring.          *)
Rec(x, q, i, ring, f) == Among(ring \o Flight(q), x \o Left(q, i, ring, f))

LEMMA RecTypes ==
  ASSUME NEW ring \in Seq(Jobs), NEW f \in R!Slots, NEW i \in R!Slots \cup {R!NoSlot}
  PROVE  /\ RestOf(i, ring, f) \in Seq(AllLines) /\ ring \in Seq(AllLines)
         /\ \A op \in Ops : Item(op) \in AllLines /\ op.job \in AllLines /\ op.job \in Texts
         /\ Jobs \subseteq AllLines /\ <<>> \notin Jobs /\ <<>> \in Seq(AllLines)
<1>1. Jobs \subseteq AllLines /\ <<>> \notin Jobs /\ <<>> \in AllLines /\ Texts \subseteq AllLines
  BY TextFacts DEF AllLines, Texts
<1>2. Seq(Jobs) \subseteq Seq(AllLines)
  BY <1>1
<1>3. RestOf(i, ring, f) \in Seq(AllLines)
  <2>1. CASE i = R!NoSlot
    BY <2>1 DEF RestOf
  <2>2. CASE i \in R!Slots /\ i # R!NoSlot
    <3> DEFINE o == R!Offset(f, i)
    <3>1. o \in 0 .. BufferSize - 1 /\ RestOf(i, ring, f) = After(ring, o)
      <4>1. RestOf(i, ring, f) = R!Behind(ring, f, i)
        BY <2>2 DEF RestOf
      <4>2. R!Offset(f, i) \in 0 .. BufferSize - 1
        BY <2>2, RingSteps
      <4>3. R!Behind(ring, f, i) = After(ring, R!Offset(f, i))
        BY DEF R!Behind, R!Live, After
      <4>4. QED BY <4>1, <4>2, <4>3
    <3> HIDE DEF o
    <3>2. After(ring, o) \in Seq(Jobs)
      BY <3>1, AfterType
    <3>3. QED BY <1>2, <3>1, <3>2
  <2>3. QED BY <2>1, <2>2
<1>4. ASSUME NEW op \in Ops
      PROVE  Item(op) \in AllLines /\ op.job \in AllLines /\ op.job \in Texts
  <2>1. op.job \in Texts
    BY DEF Ops
  <2>2. QED BY <1>1, <2>1 DEF Item
<1>5. QED BY <1>1, <1>2, <1>3, <1>4

(* A job is given: it will be written, and pushed, last.                    *)
LEMMA RecGive ==
  ASSUME NEW ring \in Seq(Jobs), NEW f \in R!Slots, NEW i \in R!Slots \cup {R!NoSlot},
         NEW x \in Seq(AllLines), NEW q, Queue(q, i), \A n \in DOMAIN q : q[n].by # "feed",
         NEW op \in Ops, op.by = "feed", Rec(x, q, i, ring, f)
  PROVE  Rec(x, Append(q, op), i, ring, f)
<1> DEFINE T == AllLines
           e == <<op.job>>
<1>1. /\ ring \in Seq(T) /\ e \in Seq(T) /\ x \in Seq(T) /\ RestOf(i, ring, f) \in Seq(T)
      /\ <<>> \in Seq(T)
  BY RecTypes
<1> HIDE DEF T
<1>2. CASE q = <<>> /\ i = R!NoSlot
  <2>1. Append(q, op) = <<op>>
    BY <1>2
  <2>2. Among(ring \o <<>>, x \o <<>>)
    BY <1>2, LeftNone DEF Rec
  <2>3. Among(ring, x)
    BY <1>1, <2>2, ConcatEmptySeq
  <2> HIDE DEF e
  <2>4. Among(ring \o e, x \o e)
    BY <1>1, <2>3, AmongBoth
  <2>5. Flight(<<op>>) = e /\ Left(<<op>>, i, ring, f) = e
    BY <1>2, LeftFeed DEF e
  <2>6. QED BY <2>1, <2>4, <2>5 DEF Rec
<1>3. CASE \E r \in Ops : q = <<r>> /\ r.by # "feed" /\ i # R!NoSlot
  <2>1. PICK r \in Ops : q = <<r>> /\ r.by # "feed" /\ i # R!NoSlot
    BY <1>3
  <2>0. r.by # "feed" /\ i # R!NoSlot
    BY <2>1
  <2> DEFINE z == <<Item(r)>>
             y == RestOf(i, ring, f)
             w == IF y # <<>> THEN e ELSE <<>>
  <2>2. /\ Item(r) \in T /\ op.job \in T
        /\ z \in Seq(T) /\ y \in Seq(T) /\ w \in Seq(T)
    BY <1>1, RecTypes DEF T
  <2>3. /\ Append(q, op) = <<r, op>>
        /\ Flight(q) = <<>> /\ Left(q, i, ring, f) = z \o y
        /\ Flight(<<r, op>>) = e
        /\ Left(<<r, op>>, i, ring, f) = Cat(z, Cat(e, Cat(y, w)))
    <3>1. Append(<<r>>, op) = <<r, op>>
      BY Short
    <3>2. Flight(<<r>>) = <<>> /\ Left(<<r>>, i, ring, f) = z \o y
      BY <1>1, <2>0, <2>2, LeftLoop DEF T
    <3>3. Flight(<<r, op>>) = e /\ Left(<<r, op>>, i, ring, f) = Cat(z, Cat(e, Cat(y, w)))
      <4>1. y = RestOf(i, ring, f) /\ w = IF y # <<>> THEN <<op.job>> ELSE <<>>
        OBVIOUS
      <4> HIDE DEF y, w
      <4>2. /\ Flight(<<r, op>>) = <<op.job>>
            /\ Left(<<r, op>>, i, ring, f) = Cat(<<Item(r)>>, Cat(<<op.job>>, Cat(y, w)))
        BY <2>0, <2>2, <4>1, LeftLoopFeed DEF T
      <4>3. QED BY <4>2
    <3>4. QED BY <2>1, <3>1, <3>2, <3>3
  <2>4. Among(ring \o <<>>, x \o (z \o y))
    BY <2>3 DEF Rec
  <2> DEFINE xz == x \o z
  <2>5. Among(ring, xz \o y)
    <3> HIDE DEF z, y
    <3>1. Cat(Cat(x, z), y) = Cat(x, Cat(z, y))
      BY <1>1, <2>2, Associative
    <3>2. ring \o <<>> = ring
      BY <1>1, ConcatEmptySeq
    <3>3. QED BY <2>4, <3>1, <3>2 DEF Cat
  <2>6. xz \in Seq(T)
    <3> HIDE DEF z
    <3>1. QED BY <1>1, <2>2
  <2> HIDE DEF e, z, y, xz
  <2>7. /\ Among(ring \o e, (xz \o e) \o (y \o e))
        /\ y = <<>> => Among(ring \o e, (xz \o e) \o <<>>)
    BY <1>1, <2>2, <2>5, <2>6, AmongAppended
  <2>8. Among(ring \o e, (xz \o e) \o Cat(y, w))
    <3>1. CASE y # <<>>
      BY <2>7, <3>1 DEF Cat
    <3>2. CASE y = <<>>
      <4>1. Cat(y, w) = <<>>
        BY <3>2 DEF Cat
      <4>2. QED BY <2>7, <3>2, <4>1
    <3>3. QED BY <3>1, <3>2
  <2> HIDE DEF w
  <2>9. Cat(Cat(xz, e), Cat(y, w)) = Cat(x, Cat(z, Cat(e, Cat(y, w))))
    <3> DEFINE v == Cat(y, w)
    <3>1. v \in Seq(T) /\ Cat(e, v) \in Seq(T)
      BY <1>1, <2>2 DEF Cat
    <3> HIDE DEF v
    <3>2. Cat(Cat(xz, e), v) = Cat(xz, Cat(e, v))
      BY <1>1, <2>6, <3>1, Associative
    <3>3. Cat(Cat(x, z), Cat(e, v)) = Cat(x, Cat(z, Cat(e, v)))
      BY <1>1, <2>2, <3>1, Associative
    <3>4. xz = Cat(x, z)
      BY DEF xz, Cat
    <3>5. QED BY <3>2, <3>3, <3>4 DEF v
  <2>10. Among(ring \o e, x \o Left(<<r, op>>, i, ring, f))
    BY <2>3, <2>8, <2>9 DEF Cat
  <2>11. QED BY <2>3, <2>10 DEF Rec
<1>4. QED BY <1>2, <1>3, QueueForms

(* The first of the jobs to be written is written.                          *)
LEMMA WrittenItem ==
  ASSUME NEW s \in Seq(Jobs), NEW x \in Seq(AllLines), NEW op \in Ops,
         NEW y \in Seq(AllLines), Among(s, x \o Cat(<<Item(op)>>, y)),
         NEW u \in Seq(AllLines),
         IF op.by = "dangling" THEN Among(x, u) ELSE Among(x \o <<op.job>>, u),
         NEW v \in Seq(AllLines), Among(y, v)
  PROVE  Among(s, u \o v)
<1> DEFINE T == AllLines
           z == <<Item(op)>>
<1>1. s \in Seq(T) /\ z \in Seq(T)
  <2>1. Jobs \subseteq T /\ Item(op) \in T
    BY TextFacts DEF Item, Ops, AllLines, Texts
  <2>2. QED BY <2>1
<1> HIDE DEF T
<1>2. CASE op.by = "dangling"
  <2>1. \A n \in DOMAIN s : \A m \in DOMAIN z : s[n] # z[m]
    <3>1. \A n \in DOMAIN s : s[n] # <<>>
      BY TextFacts
    <3>2. \A m \in DOMAIN z : z[m] = <<>>
      BY <1>2 DEF Item
    <3>3. QED BY <3>1, <3>2
  <2> HIDE DEF z
  <2>2. x \in Seq(T) /\ y \in Seq(T) /\ u \in Seq(T) /\ v \in Seq(T)
    BY DEF T
  <2>3. Among(s, x \o Cat(z, y)) /\ Among(x, u)
    BY <1>2 DEF z
  <2>4. QED BY <1>1, <2>1, <2>2, <2>3, WrittenLost
<1>3. CASE op.by # "dangling"
  <2>1. z = <<op.job>>
    BY <1>3 DEF Item
  <2>2. Among(s, x \o Cat(z, y)) /\ Among(x \o z, u)
    BY <1>3, <2>1
  <2> HIDE DEF z
  <2>3. x \in Seq(T) /\ y \in Seq(T) /\ u \in Seq(T) /\ v \in Seq(T)
    BY DEF T
  <2>4. QED BY <1>1, <2>2, <2>3, AmongWritten
<1>4. QED BY <1>2, <1>3

(* Rec in the five cases.                                                   *)
LEMMA RecNone ==
  ASSUME NEW ring \in Seq(Jobs), NEW f, NEW x \in Seq(AllLines)
  PROVE  Rec(x, <<>>, R!NoSlot, ring, f) <=> Among(ring, x)
<1>1. Rec(x, <<>>, R!NoSlot, ring, f) <=> Among(ring \o <<>>, x \o <<>>)
  BY LeftNone DEF Rec
<1>2. ring \o <<>> = ring /\ x \o <<>> = x
  BY ConcatEmptySeq
<1>3. QED BY <1>1, <1>2

LEMMA RecOfFeed ==
  ASSUME NEW ring, NEW f, NEW x, NEW a \in Ops, a.by = "feed", NEW j, j = <<a.job>>
  PROVE  Rec(x, <<a>>, R!NoSlot, ring, f) <=> Among(ring \o j, x \o j)
<1>1. Flight(<<a>>) = j /\ Left(<<a>>, R!NoSlot, ring, f) = j
  BY LeftFeed
<1>2. QED BY <1>1 DEF Rec

LEMMA RecOfLoop ==
  ASSUME NEW ring \in Seq(Jobs), NEW f \in R!Slots, NEW i \in R!Slots, NEW x,
         NEW r \in Ops, r.by # "feed", NEW z, z = <<Item(r)>>, NEW y, y = RestOf(i, ring, f)
  PROVE  Rec(x, <<r>>, i, ring, f) <=> Among(ring, x \o Cat(z, y))
<1>1. i # R!NoSlot /\ y \in Seq(AllLines) /\ Item(r) \in AllLines
  BY RecTypes, RingSlots
<1>2. Flight(<<r>>) = <<>> /\ Left(<<r>>, i, ring, f) = Cat(z, y)
  BY <1>1, LeftLoop DEF Cat
<1>3. ring \o <<>> = ring
  BY ConcatEmptySeq
<1>4. QED BY <1>2, <1>3 DEF Rec

LEMMA RecOfFeedLoop ==
  ASSUME NEW ring \in Seq(Jobs), NEW f \in R!Slots, NEW i \in R!Slots, NEW x,
         NEW a \in Ops, a.by = "feed", NEW j, j = <<a.job>>,
         NEW r \in Ops, r.by # "feed", NEW z, z = <<Item(r)>>, NEW y, y = RestOf(i, ring, f)
  PROVE  Rec(x, <<a, r>>, i, ring, f) <=>
           Among(ring \o j, x \o Cat(j, Cat(z, Cat(y, j))))
<1>1. i # R!NoSlot /\ y \in Seq(AllLines) /\ Item(r) \in AllLines /\ a.job \in AllLines
  BY RecTypes, RingSlots
<1>2. Flight(<<a, r>>) = j /\ Left(<<a, r>>, i, ring, f) = Cat(j, Cat(z, Cat(y, j)))
  BY <1>1, LeftFeedLoop
<1>3. QED BY <1>2 DEF Rec

LEMMA RecOfLoopFeed ==
  ASSUME NEW ring \in Seq(Jobs), NEW f \in R!Slots, NEW i \in R!Slots, NEW x,
         NEW a \in Ops, a.by = "feed", NEW j, j = <<a.job>>,
         NEW r \in Ops, r.by # "feed", NEW z, z = <<Item(r)>>, NEW y, y = RestOf(i, ring, f),
         NEW w, w = IF y # <<>> THEN j ELSE <<>>
  PROVE  Rec(x, <<r, a>>, i, ring, f) <=>
           Among(ring \o j, x \o Cat(z, Cat(j, Cat(y, w))))
<1>1. i # R!NoSlot /\ y \in Seq(AllLines) /\ Item(r) \in AllLines /\ a.job \in AllLines
  BY RecTypes, RingSlots
<1>2. Flight(<<r, a>>) = j /\ Left(<<r, a>>, i, ring, f) = Cat(z, Cat(j, Cat(y, w)))
  BY <1>1, LeftLoopFeed
<1>3. QED BY <1>2 DEF Rec

(* The types of the parts.                                                  *)
LEMMA PartTypes ==
  ASSUME NEW ring \in Seq(Jobs), NEW f \in R!Slots, NEW i \in R!Slots,
         NEW a \in Ops, NEW j, j = <<a.job>>,
         NEW r \in Ops, NEW z, z = <<Item(r)>>, NEW y, y = RestOf(i, ring, f)
  PROVE  /\ ring \in Seq(AllLines) /\ j \in Seq(AllLines) /\ z \in Seq(AllLines)
         /\ y \in Seq(AllLines)
         /\ Cat(y, j) \in Seq(AllLines) /\ Cat(z, Cat(y, j)) \in Seq(AllLines)
         /\ Cat(z, y) \in Seq(AllLines)
<1>1. y \in Seq(AllLines) /\ Item(r) \in AllLines /\ a.job \in AllLines /\ ring \in Seq(AllLines)
  BY RecTypes
<1>2. j \in Seq(AllLines) /\ z \in Seq(AllLines)
  BY <1>1
<1>3. Cat(y, j) \in Seq(AllLines) /\ Cat(z, y) \in Seq(AllLines)
  BY <1>1, <1>2 DEF Cat
<1>4. Cat(z, Cat(y, j)) \in Seq(AllLines)
  BY <1>2, <1>3 DEF Cat
<1>5. QED BY <1>1, <1>2, <1>3, <1>4

(* What is behind the slot of the loop.                                     *)
LEMMA RestIs ==
  ASSUME NEW ring, NEW f \in R!Slots, NEW i \in R!Slots
  PROVE  RestOf(i, ring, f) = After(ring, R!Offset(f, i))
<1>1. i # R!NoSlot
  BY RingSlots
<1>2. QED BY <1>1 DEF RestOf, R!Behind, R!Live, After

(* The job that is pushed does not come to the slot of the loop.            *)
LEMMA LoopFeed ==
  ASSUME NEW ring \in Seq(Jobs), NEW f \in R!Slots, NEW i \in R!Slots \cup {R!NoSlot},
         NEW q, Queue(q, i), q # <<>>, Head(q).by = "feed", Loop(q, i, ring, f)
  PROVE  Loop(Tail(q), i, Append(ring, Head(q).job), f)
<1>1. CASE i = R!NoSlot
  BY <1>1 DEF Loop
<1>2. CASE \E a, r \in Ops : q = <<a, r>> /\ a.by = "feed" /\ r.by # "feed" /\ i # R!NoSlot
  <2>1. PICK a \in Ops, r \in Ops : q = <<a, r>> /\ a.by = "feed" /\ r.by # "feed" /\ i # R!NoSlot
    BY <1>2
  <2> DEFINE new == Append(ring, a.job)
  <2>2. Head(q) = a /\ Tail(q) = <<r>>
    BY <2>1, Short
  <2>3. a.job \in Jobs /\ i \in R!Slots /\ a.by = "feed" /\ r.by # "feed" /\ i # R!NoSlot
    BY <2>1, <2>2, QueueLess
  <2>4. AtLive(r, i, ring, f) \/ AtLost(r, 2, i, ring, f)
    <3>1. Loop(<<a, r>>, i, ring, f)
      BY <2>1
    <3>2. QED BY <2>3, <3>1, LoopForms
  <2>5. AtLive(r, i, new, f) \/ AtLost(r, 1, i, new, f)
    BY <2>3, <2>4, LoopPush
  <2> HIDE DEF new
  <2>6. Loop(<<r>>, i, new, f)
    BY <2>3, <2>5, LoopForms
  <2>7. QED BY <2>2, <2>6 DEF new
<1>3. ASSUME NEW r \in Ops, r.by # "feed", q = <<r>> PROVE FALSE
  BY <1>3
<1>4. ASSUME NEW a \in Ops, NEW r \in Ops, r.by # "feed", q = <<r, a>> PROVE FALSE
  BY <1>4
<1>5. QED BY <1>1, <1>2, <1>3, <1>4, QueueForms

(* A new job is written, and pushed.                                        *)
LEMMA RecFeed ==
  ASSUME NEW ring \in Seq(Jobs), NEW f \in R!Slots, NEW i \in R!Slots \cup {R!NoSlot},
         NEW x \in Seq(AllLines), NEW q, Queue(q, i), q # <<>>, Head(q).by = "feed",
         Rec(x, q, i, ring, f), Loop(q, i, ring, f),
         NEW u \in Seq(AllLines), Among(x \o <<Head(q).job>>, u)
  PROVE  Rec(u, Tail(q), i, Append(ring, Head(q).job), f)
<1> DEFINE T == AllLines
<1>1. CASE \E a \in Ops : q = <<a>> /\ a.by = "feed" /\ i = R!NoSlot
  <2>1. PICK a \in Ops : q = <<a>> /\ a.by = "feed" /\ i = R!NoSlot
    BY <1>1
  <2> DEFINE j == <<a.job>>
             new == Append(ring, a.job)
  <2>2. Head(q) = a /\ Tail(q) = <<>>
    BY <2>1, Short
  <2>3. a.job \in Jobs
    BY <2>2, QueueLess
  <2>4. /\ new \in Seq(Jobs) /\ new = ring \o j /\ new \in Seq(T) /\ ring \in Seq(T) /\ j \in Seq(T)
        /\ x \o j \in Seq(T)
    <3>1. new \in Seq(Jobs) /\ new = ring \o j
      BY <2>3, AppendIsConcat
    <3>2. new \in Seq(T) /\ ring \in Seq(T) /\ j \in Seq(T)
      BY <2>3, <3>1, RecTypes
    <3> HIDE DEF j, new
    <3>3. QED BY <3>1, <3>2
  <2> HIDE DEF j, new
  <2>5. Among(new, x \o j)
    <3>1. Rec(x, <<a>>, R!NoSlot, ring, f) /\ j = <<a.job>> /\ a.by = "feed"
      BY <2>1 DEF j
    <3>2. QED BY <2>4, <3>1, RecOfFeed
  <2>6. Among(x \o j, u)
    BY <2>2 DEF j
  <2>7. Among(new, u)
    BY <2>4, <2>5, <2>6, AmongTransitive
  <2>8. Rec(u, <<>>, R!NoSlot, new, f)
    BY <2>4, <2>7, RecNone
  <2>9. QED BY <2>1, <2>2, <2>8 DEF new
<1>2. CASE \E a, r \in Ops : q = <<a, r>> /\ a.by = "feed" /\ r.by # "feed" /\ i # R!NoSlot
  <2>1. PICK a \in Ops, r \in Ops : q = <<a, r>> /\ a.by = "feed" /\ r.by # "feed" /\ i # R!NoSlot
    BY <1>2
  <2> DEFINE j == <<a.job>>
             z == <<Item(r)>>
             y == RestOf(i, ring, f)
             o == R!Offset(f, i)
             new == Append(ring, a.job)
  <2>2. Head(q) = a /\ Tail(q) = <<r>>
    BY <2>1, Short
  <2>3. a.job \in Jobs /\ i \in R!Slots /\ a.by = "feed" /\ r.by # "feed" /\ i # R!NoSlot
    BY <2>1, <2>2, QueueLess
  <2>4. /\ new \in Seq(Jobs) /\ new = ring \o j /\ j \in Seq(Jobs) /\ Len(j) = 1
    BY <2>3, AppendIsConcat
  <2>5. j = <<a.job>> /\ z = <<Item(r)>> /\ y = RestOf(i, ring, f) /\ o = R!Offset(f, i)
    OBVIOUS
  <2>6. Among(x \o j, u)
    BY <2>2
  <2>7. AtLive(r, i, ring, f) \/ AtLost(r, 2, i, ring, f)
    <3>1. Loop(<<a, r>>, i, ring, f)
      BY <2>1
    <3>2. QED BY <2>3, <3>1, LoopForms
  <2> HIDE DEF j, z, y, o, new
  <2>8. /\ ring \in Seq(T) /\ j \in Seq(T) /\ z \in Seq(T) /\ y \in Seq(T)
        /\ Cat(y, j) \in Seq(T) /\ Cat(z, Cat(y, j)) \in Seq(T) /\ ring \o j \in Seq(T)
    <3>1. /\ ring \in Seq(T) /\ j \in Seq(T) /\ z \in Seq(T) /\ y \in Seq(T)
          /\ Cat(y, j) \in Seq(T) /\ Cat(z, Cat(y, j)) \in Seq(T)
      BY <2>3, <2>5, PartTypes
    <3>2. QED BY <3>1
  <2>9. Among(ring \o j, x \o Cat(j, Cat(z, Cat(y, j))))
    <3>1. Rec(x, <<a, r>>, i, ring, f)
      BY <2>1
    <3>2. QED BY <2>3, <2>5, <3>1, RecOfFeedLoop
  <2> HIDE DEF T
  <2>10. Among(ring \o j, u \o Cat(z, Cat(y, j)))
    <3> DEFINE v == Cat(z, Cat(y, j))
    <3>1. v \in Seq(T)
      BY <2>8
    <3>2. Among(ring \o j, x \o Cat(j, v))
      BY <2>9
    <3> HIDE DEF v
    <3>3. Among(v, v)
      BY <3>1, AmongSelf
    <3>4. x \in Seq(T) /\ u \in Seq(T)
      BY DEF T
    <3>5. Among(ring \o j, u \o v)
      BY <2>6, <2>8, <3>1, <3>2, <3>3, <3>4, AmongWritten
    <3>6. QED BY <3>5 DEF v
  <2>11. RestOf(i, new, f) = Cat(y, j)
    <3>1. o \in Nat /\ Len(ring) \in Nat /\ (o < Len(ring) \/ o >= Len(ring) + 1)
      <4>1. /\ R!Offset(f, i) \in 0 .. BufferSize - 1
            /\ R!Live(ring, f, i) <=> R!Offset(f, i) < Len(ring)
        BY <2>3, RingSteps DEF R!Live
      <4>2. /\ o \in 0 .. BufferSize - 1 /\ BufferSize \in Nat
            /\ R!Live(ring, f, i) <=> o < Len(ring)
        BY <4>1, PipeBufferAssumption DEF o
      <4>3. AtLost(r, 2, i, ring, f) => o >= Len(ring) + 1
        BY DEF AtLost, o
      <4>4. QED BY <2>7, <4>2, <4>3 DEF AtLive
    <3>2. After(ring \o j, o) = After(ring, o) \o j
      BY <2>4, <3>1, AfterPush
    <3>3. RestOf(i, new, f) = After(new, o) /\ y = After(ring, o)
      BY <2>3, RestIs DEF y, o
    <3>4. QED BY <2>4, <3>2, <3>3 DEF Cat
  <2>12. Rec(u, <<r>>, i, new, f)
    <3>1. Among(new, u \o Cat(z, RestOf(i, new, f)))
      BY <2>4, <2>10, <2>11
    <3>2. QED BY <2>3, <2>4, <2>5, <3>1, RecOfLoop
  <2>13. QED BY <2>2, <2>12 DEF new
<1>3. ASSUME NEW r \in Ops, r.by # "feed", q = <<r>> PROVE FALSE
  BY <1>3
<1>4. ASSUME NEW a \in Ops, NEW r \in Ops, r.by # "feed", q = <<r, a>> PROVE FALSE
  BY <1>4
<1>5. QED BY <1>1, <1>2, <1>3, <1>4, QueueForms

(* What is written for the loop is one job of its way, or nothing.          *)
Writing(op, x, u) ==
  IF op.by = "dangling" THEN Among(x, u) ELSE Among(x \o <<op.job>>, u)

(* Where the loop ends.                                                     *)
LEMMA LoopEnds ==
  ASSUME NEW ring \in Seq(Jobs), Len(ring) <= BufferSize, NEW f \in R!Slots, NEW i \in R!Slots
  PROVE  R!Slot(i + 1) = R!PastLast(ring, f) <=>
           \/ R!Offset(f, i) + 1 = Len(ring)
           \/ R!Offset(f, i) = BufferSize - 1 /\ Len(ring) = 0
<1>1. Len(ring) \in 0 .. BufferSize
  BY PipeBufferAssumption
<1>2. \A r : Len(r) \in 0 .. BufferSize =>
        (R!Slot(i + 1) = R!PastLast(r, f) <=>
           \/ R!Offset(f, i) + 1 = Len(r)
           \/ R!Offset(f, i) = BufferSize - 1 /\ Len(r) = 0)
  BY RingSteps
<1>3. QED BY <1>1, <1>2, Zenon

(* The loop has resent the last job.                                        *)
LEMMA RecEnd ==
  ASSUME NEW ring \in Seq(Jobs), Len(ring) <= BufferSize, NEW f \in R!Slots,
         NEW i \in R!Slots \cup {R!NoSlot},
         NEW x \in Seq(AllLines), NEW q, Queue(q, i), q # <<>>, Head(q).by # "feed",
         Rec(x, q, i, ring, f), R!Slot(i + 1) = R!PastLast(ring, f),
         NEW u \in Seq(AllLines), Writing(Head(q), x, u)
  PROVE  Rec(u, Tail(q), R!NoSlot, ring, f)
<1> DEFINE T == AllLines
<1>1. SUFFICES ASSUME i \in R!Slots
               PROVE  Rec(u, Tail(q), R!NoSlot, ring, f)
  BY QueueLess
<1>2. RestOf(i, ring, f) = <<>>
  <2> DEFINE o == R!Offset(f, i)
  <2>1. /\ o \in 0 .. BufferSize - 1 /\ BufferSize \in Nat /\ Len(ring) \in Nat
        /\ o + 1 = Len(ring) \/ Len(ring) = 0
    <3>1. o \in 0 .. BufferSize - 1
      BY <1>1, RingSteps
    <3>2. Len(ring) \in 0 .. BufferSize
      BY PipeBufferAssumption
    <3>3. o + 1 = Len(ring) \/ Len(ring) = 0
      <4>1. R!Slot(i + 1) = R!PastLast(ring, f) <=>
              \/ R!Offset(f, i) + 1 = Len(ring)
              \/ R!Offset(f, i) = BufferSize - 1 /\ Len(ring) = 0
        BY <1>1, LoopEnds
      <4>2. QED BY <4>1
    <3>4. QED BY <3>1, <3>2, <3>3, PipeBufferAssumption
  <2>2. RestOf(i, ring, f) = After(ring, o)
    BY <1>1, RestIs
  <2> HIDE DEF o
  <2>3. CASE o + 1 = Len(ring)
    BY <2>1, <2>2, <2>3, AfterLast
  <2>4. CASE Len(ring) = 0
    <3>1. ring = <<>> /\ o \in Nat /\ o >= Len(ring)
      BY <2>1, <2>4
    <3>2. After(ring, o) = ring
      BY <3>1, AfterType
    <3>3. QED BY <2>2, <3>1, <3>2
  <2>5. QED BY <2>1, <2>3, <2>4
<1>3. CASE \E r \in Ops : q = <<r>> /\ r.by # "feed"
  <2>1. PICK r \in Ops : q = <<r>> /\ r.by # "feed"
    BY <1>3
  <2> DEFINE z == <<Item(r)>>
             y == RestOf(i, ring, f)
  <2>2. Head(q) = r /\ Tail(q) = <<>>
    BY <2>1, Short
  <2>3. Rec(x, <<r>>, i, ring, f) /\ z = <<Item(r)>> /\ y = RestOf(i, ring, f)
    BY <2>1
  <2>4. y = <<>>
    BY <1>2
  <2> HIDE DEF y, z
  <2>5. Among(ring, x \o Cat(z, y))
    BY <1>1, <2>1, <2>3, RecOfLoop
  <2>6. <<>> \in Seq(T)
    OBVIOUS
  <2>7. Among(<<>>, <<>>)
    BY AmongEmpty
  <2>8. IF r.by = "dangling" THEN Among(x, u) ELSE Among(x \o <<r.job>>, u)
    BY <2>2 DEF Writing
  <2>9. Among(ring, u \o <<>>)
    BY <2>4, <2>5, <2>6, <2>7, <2>8, WrittenItem DEF z
  <2>10. u \o <<>> = u
    BY ConcatEmptySeq
  <2>11. QED BY <2>2, <2>9, <2>10, RecNone
<1>4. CASE \E a, r \in Ops : q = <<r, a>> /\ a.by = "feed" /\ r.by # "feed"
  <2>1. PICK a \in Ops, r \in Ops : q = <<r, a>> /\ a.by = "feed" /\ r.by # "feed"
    BY <1>4
  <2> DEFINE j == <<a.job>>
             z == <<Item(r)>>
             y == RestOf(i, ring, f)
             w == IF y # <<>> THEN j ELSE <<>>
             s == ring \o j
  <2>2. Head(q) = r /\ Tail(q) = <<a>>
    BY <2>1, Short
  <2>3. /\ Rec(x, <<r, a>>, i, ring, f) /\ j = <<a.job>> /\ z = <<Item(r)>>
        /\ y = RestOf(i, ring, f) /\ w = IF y # <<>> THEN j ELSE <<>>
    BY <2>1
  <2>4. y = <<>> /\ w = <<>>
    BY <1>2
  <2>5. a.job \in Jobs
    BY <2>1 DEF Queue
  <2>6. s \in Seq(Jobs) /\ s = ring \o j
    BY <2>5
  <2> HIDE DEF y, z, j, w, s
  <2>7. j \in Seq(T)
    BY <1>1, <2>1, <2>3, PartTypes
  <2>8. Among(s, x \o Cat(z, Cat(j, Cat(y, w))))
    BY <1>1, <2>1, <2>3, <2>6, RecOfLoopFeed
  <2>9. Cat(j, Cat(y, w)) = j
    BY <2>4, <2>7, ConcatEmptySeq DEF Cat
  <2>10. Among(j, j)
    BY <2>7, AmongSelf
  <2>11. IF r.by = "dangling" THEN Among(x, u) ELSE Among(x \o <<r.job>>, u)
    BY <2>2 DEF Writing
  <2>12. Among(s, x \o Cat(<<Item(r)>>, j))
    BY <2>8, <2>9 DEF z
  <2>13. Among(s, u \o j)
    BY <2>6, <2>7, <2>10, <2>11, <2>12, WrittenItem
  <2>14. QED BY <2>1, <2>2, <2>3, <2>6, <2>13, RecOfFeed
<1>5. ASSUME NEW a \in Ops, a.by = "feed", q = <<a>> PROVE FALSE
  BY <1>5
<1>6. ASSUME NEW a \in Ops, NEW r \in Ops, a.by = "feed", q = <<a, r>> PROVE FALSE
  BY <1>6
<1>7. QED BY <1>3, <1>4, <1>5, <1>6, QueueForms

(* What the resend loop is given at a slot.                                 *)
AtSlot(s, ring, f) ==
  IF R!Live(ring, f, s) THEN ring[R!Offset(f, s) + 1] ELSE <<Garbage>>

LEMMA LoopAtSlot ==
  ASSUME NEW ring \in Seq(Jobs), NEW f \in R!Slots, NEW s \in R!Slots,
         \/ R!Offset(f, s) < Len(ring)
         \/ R!Offset(f, s) >= Len(ring) + 1,
         NEW p, p.by = "resend", p.job = AtSlot(s, ring, f), NEW n
  PROVE  AtLive(p, s, ring, f) \/ AtLost(p, n, s, ring, f)
<1> DEFINE o == R!Offset(f, s)
<1>1. /\ o \in Int /\ Len(ring) \in Nat /\ (R!Live(ring, f, s) <=> o < Len(ring))
      /\ o < Len(ring) \/ o >= Len(ring) + 1
  <2>1. o \in 0 .. BufferSize - 1
    BY RingSteps
  <2>2. R!Live(ring, f, s) <=> o < Len(ring)
    BY DEF R!Live
  <2>3. QED BY <2>1, <2>2, PipeBufferAssumption
<1> HIDE DEF o
<1>2. CASE o < Len(ring)
  BY <1>1, <1>2 DEF AtLive, AtSlot, o
<1>3. CASE o >= Len(ring) + 1
  <2>1. ~R!Live(ring, f, s)
    BY <1>1, <1>3
  <2>2. p.job = <<Garbage>>
    BY <2>1 DEF AtSlot
  <2>3. o >= Len(ring) + (IF n = 1 THEN 0 ELSE 1)
    BY <1>1, <1>3
  <2>4. QED BY <2>2, <2>3 DEF AtLost, o
<1>4. QED BY <1>1, <1>2, <1>3

(* The next slot: the job there is the next to resend, or the loop has left *)
(* the ring, and comes to its front when it has gone all around.            *)
LEMMA RestNext ==
  ASSUME NEW ring \in Seq(Jobs), Len(ring) <= BufferSize, NEW f \in R!Slots,
         NEW i \in R!Slots, R!Slot(i + 1) # R!PastLast(ring, f),
         NEW r, AtLive(r, i, ring, f) \/ AtLost(r, 1, i, ring, f),
         NEW s, s = R!Slot(i + 1), NEW p \in Ops, p.job = AtSlot(s, ring, f),
         NEW k, k = <<p.job>>
  PROVE  /\ s \in R!Slots
         /\ R!Offset(f, s) < Len(ring) \/ R!Offset(f, s) >= Len(ring) + 1
         /\ Among(RestOf(i, ring, f), Cat(k, RestOf(s, ring, f)))
<1> DEFINE o == R!Offset(f, i)
           n == R!Offset(f, s)
<1>1. s \in R!Slots
  BY RingSteps
<1>2. /\ o \in 0 .. BufferSize - 1 /\ n \in 0 .. BufferSize - 1
      /\ n = IF o = BufferSize - 1 THEN 0 ELSE o + 1
      /\ BufferSize \in Nat /\ Len(ring) \in Nat
      /\ ~(o + 1 = Len(ring)) /\ ~(o = BufferSize - 1 /\ Len(ring) = 0)
      /\ R!Live(ring, f, i) <=> o < Len(ring)
      /\ R!Live(ring, f, s) <=> n < Len(ring)
  <2>1. o \in 0 .. BufferSize - 1 /\ n \in 0 .. BufferSize - 1
    BY <1>1, RingSteps
  <2>2. n = IF o = BufferSize - 1 THEN 0 ELSE o + 1
    BY RingSteps
  <2>3. BufferSize \in Nat /\ Len(ring) \in Nat
    BY PipeBufferAssumption
  <2>4. ~(o + 1 = Len(ring)) /\ ~(o = BufferSize - 1 /\ Len(ring) = 0)
    <3>1. Len(ring) \in 0 .. BufferSize
      BY <2>3
    <3>2. QED BY <3>1, RingSteps
  <2>5. (R!Live(ring, f, i) <=> o < Len(ring)) /\ (R!Live(ring, f, s) <=> n < Len(ring))
    BY DEF R!Live
  <2>6. QED BY <2>1, <2>2, <2>3, <2>4, <2>5
<1>3. RestOf(i, ring, f) = After(ring, o) /\ RestOf(s, ring, f) = After(ring, n)
  BY <1>1, RestIs
<1>4. (o < Len(ring) /\ r.by = "resend") \/ o >= Len(ring)
  <2>1. AtLost(r, 1, i, ring, f) => o >= Len(ring)
    BY <1>2 DEF AtLost
  <2>2. QED BY <1>2, <2>1 DEF AtLive
<1>5. n < Len(ring) => p.job = ring[n + 1]
  BY <1>2 DEF AtSlot
<1> HIDE DEF o, n
<1>6. CASE o < Len(ring)
  <2>1. o + 1 < Len(ring) /\ n = o + 1 /\ o \in Nat
    BY <1>2, <1>6
  <2>2. After(ring, o) = <<ring[o + 2]>> \o After(ring, o + 1)
    BY <2>1, AfterNext
  <2>3. p.job = ring[o + 2]
    <3>1. n + 1 = o + 2
      BY <1>2, <2>1
    <3>2. QED BY <1>5, <2>1, <3>1
  <2>4. After(ring, o) = Cat(k, After(ring, n))
    BY <2>1, <2>2, <2>3 DEF Cat
  <2>5. After(ring, o) \in Seq(Jobs)
    BY <2>1, AfterType
  <2>6. Among(After(ring, o), Cat(k, After(ring, n)))
    BY <2>4, <2>5, AmongSelf
  <2>7. n < Len(ring)
    BY <2>1
  <2>8. QED BY <1>1, <1>3, <2>6, <2>7 DEF n
<1>7. CASE o >= Len(ring) /\ o # BufferSize - 1
  <2>1. n = o + 1 /\ n >= Len(ring) + 1 /\ o \in Nat /\ n \in Nat /\ n >= Len(ring)
    BY <1>2, <1>7
  <2>2. After(ring, o) = ring /\ After(ring, n) = ring
    BY <1>7, <2>1, AfterType
  <2>3. ring \in Seq(AllLines) /\ k \in Seq(AllLines)
    <3>1. ring \in Seq(AllLines) /\ p.job \in AllLines
      BY RecTypes
    <3>2. QED BY <3>1
  <2>4. Among(ring, Cat(k, ring))
    BY <2>3, AmongSuffix DEF Cat
  <2>5. QED BY <1>1, <1>3, <2>1, <2>2, <2>4 DEF n
<1>8. CASE o >= Len(ring) /\ o = BufferSize - 1
  <2>1. n = 0 /\ Len(ring) > 0 /\ o \in Nat /\ ring # <<>> /\ n < Len(ring)
    BY <1>2, <1>8
  <2>2. After(ring, o) = ring
    BY <1>8, <2>1, AfterType
  <2>3. ring = <<ring[1]>> \o After(ring, 0)
    BY <2>1, AfterFront
  <2>4. p.job = ring[1]
    BY <1>5, <2>1
  <2>5. ring = Cat(k, After(ring, n))
    BY <2>1, <2>3, <2>4 DEF Cat
  <2>6. Among(ring, ring)
    BY AmongSelf
  <2>7. Among(ring, Cat(k, After(ring, n)))
    BY <2>5, <2>6
  <2>8. QED BY <1>1, <1>3, <2>1, <2>2, <2>7 DEF n
<1>9. QED BY <1>2, <1>4, <1>6, <1>7, <1>8

(* The loop comes to the next slot.                                         *)
LEMMA LoopNext ==
  ASSUME NEW ring \in Seq(Jobs), Len(ring) <= BufferSize, NEW f \in R!Slots,
         NEW i \in R!Slots \cup {R!NoSlot},
         NEW q, Queue(q, i), q # <<>>, Head(q).by # "feed", Loop(q, i, ring, f),
         R!Slot(i + 1) # R!PastLast(ring, f), NEW n, n = R!Slot(i + 1),
         NEW p \in Ops, p.by = "resend", p.job = AtSlot(n, ring, f)
  PROVE  Loop(Append(Tail(q), p), n, ring, f)
<1>1. i \in R!Slots /\ p.by # "feed" /\ i # R!NoSlot
  BY QueueLess
<1>2. ASSUME NEW r, AtLive(r, i, ring, f) \/ AtLost(r, 1, i, ring, f)
      PROVE  /\ n # R!NoSlot
             /\ \A m : AtLive(p, n, ring, f) \/ AtLost(p, m, n, ring, f)
  <2> DEFINE k == <<p.job>>
  <2>1. k = <<p.job>>
    OBVIOUS
  <2> HIDE DEF k
  <2>2. n \in R!Slots /\ (R!Offset(f, n) < Len(ring) \/ R!Offset(f, n) >= Len(ring) + 1)
    BY <1>1, <1>2, <2>1, RestNext
  <2>3. n # R!NoSlot
    BY <2>2, RingSlots
  <2>4. QED BY <2>2, <2>3, LoopAtSlot
<1>3. CASE \E r \in Ops : q = <<r>> /\ r.by # "feed" /\ i # R!NoSlot
  <2>1. PICK r \in Ops : q = <<r>> /\ r.by # "feed" /\ i # R!NoSlot
    BY <1>3
  <2>2. Append(Tail(q), p) = <<p>>
    BY <2>1, Short
  <2>3. AtLive(r, i, ring, f) \/ AtLost(r, 1, i, ring, f)
    <3>1. Loop(<<r>>, i, ring, f) <=> AtLive(r, i, ring, f) \/ AtLost(r, 1, i, ring, f)
      BY <2>1 DEF Loop
    <3>2. QED BY <2>1, <3>1
  <2>4. Loop(<<p>>, n, ring, f)
    BY <1>2, <2>3 DEF Loop
  <2>5. QED BY <2>2, <2>4
<1>4. CASE \E a, r \in Ops : q = <<r, a>> /\ a.by = "feed" /\ r.by # "feed" /\ i # R!NoSlot
  <2>1. PICK a \in Ops, r \in Ops : q = <<r, a>> /\ a.by = "feed" /\ r.by # "feed" /\ i # R!NoSlot
    BY <1>4
  <2>2. Append(Tail(q), p) = <<a, p>>
    <3>1. Tail(q) = <<a>>
      BY <2>1, Short
    <3>2. QED BY <3>1, Short
  <2>3. a.by = "feed" /\ r.by # "feed"
    BY <2>1
  <2>4. AtLive(r, i, ring, f) \/ AtLost(r, 1, i, ring, f)
    <3>1. Loop(<<r, a>>, i, ring, f)
      BY <2>1
    <3>2. QED BY <1>1, <2>3, <3>1, LoopForms
  <2>5. n # R!NoSlot /\ (AtLive(p, n, ring, f) \/ AtLost(p, 2, n, ring, f))
    BY <1>2, <2>4
  <2>6. Loop(<<a, p>>, n, ring, f)
    BY <1>1, <2>3, <2>5, LoopForms
  <2>7. QED BY <2>2, <2>6
<1>5. ASSUME NEW a \in Ops, a.by = "feed", q = <<a>> PROVE FALSE
  BY <1>5
<1>6. ASSUME NEW a \in Ops, NEW r \in Ops, a.by = "feed", q = <<a, r>> PROVE FALSE
  BY <1>6
<1>7. QED BY <1>3, <1>4, <1>5, <1>6, QueueForms

(* The loop has resent a job, and goes on to the next slot.                 *)
LEMMA RecNext ==
  ASSUME NEW ring \in Seq(Jobs), Len(ring) <= BufferSize, NEW f \in R!Slots,
         NEW i \in R!Slots \cup {R!NoSlot},
         NEW x \in Seq(AllLines), NEW q, Queue(q, i), q # <<>>, Head(q).by # "feed",
         Rec(x, q, i, ring, f), Loop(q, i, ring, f),
         R!Slot(i + 1) # R!PastLast(ring, f), NEW n, n = R!Slot(i + 1),
         NEW p \in Ops, p.by = "resend", p.job = AtSlot(n, ring, f),
         NEW u \in Seq(AllLines), Writing(Head(q), x, u)
  PROVE  Rec(u, Append(Tail(q), p), n, ring, f)
<1> DEFINE T == AllLines
           k == <<p.job>>
           v == RestOf(n, ring, f)
<1>0. i \in R!Slots
  BY QueueLess
<1>1. Item(p) = p.job /\ p.by # "feed"
  BY DEF Item
<1>2. k = <<Item(p)>> /\ v = RestOf(n, ring, f) /\ k = <<p.job>>
  BY <1>1
<1> HIDE DEF k, v
<1>3. CASE \E r \in Ops : q = <<r>> /\ r.by # "feed" /\ i # R!NoSlot
  <2>1. PICK r \in Ops : q = <<r>> /\ r.by # "feed" /\ i # R!NoSlot
    BY <1>3
  <2> DEFINE z == <<Item(r)>>
             y == RestOf(i, ring, f)
  <2>2. Head(q) = r /\ Append(Tail(q), p) = <<p>>
    BY <2>1, Short
  <2>3. Rec(x, <<r>>, i, ring, f) /\ z = <<Item(r)>> /\ y = RestOf(i, ring, f)
    BY <2>1
  <2>4. AtLive(r, i, ring, f) \/ AtLost(r, 1, i, ring, f)
    <3>1. Loop(<<r>>, i, ring, f) <=> AtLive(r, i, ring, f) \/ AtLost(r, 1, i, ring, f)
      BY <2>1 DEF Loop
    <3>2. QED BY <2>1, <3>1
  <2> HIDE DEF y, z
  <2>5. /\ n \in R!Slots /\ Among(y, Cat(k, v))
        /\ R!Offset(f, n) < Len(ring) \/ R!Offset(f, n) >= Len(ring) + 1
    BY <1>0, <1>2, <2>3, <2>4, RestNext
  <2>6. Among(ring, x \o Cat(z, y))
    BY <1>0, <2>1, <2>3, RecOfLoop
  <2>7. y \in Seq(T) /\ k \in Seq(T) /\ Cat(k, v) \in Seq(T)
    <3>1. y \in Seq(T)
      BY <1>0, <2>1, <2>3, PartTypes
    <3>2. k \in Seq(T) /\ Cat(k, v) \in Seq(T)
      BY <1>2, <2>5, PartTypes
    <3>3. QED BY <3>1, <3>2
  <2>8. IF r.by = "dangling" THEN Among(x, u) ELSE Among(x \o <<r.job>>, u)
    BY <2>2 DEF Writing
  <2>9. Among(ring, u \o Cat(k, v))
    BY <2>5, <2>6, <2>7, <2>8, WrittenItem DEF z
  <2>10. Rec(u, <<p>>, n, ring, f)
    BY <1>1, <1>2, <2>5, <2>9, RecOfLoop
  <2>11. QED BY <2>2, <2>10
<1>4. CASE \E a, r \in Ops : q = <<r, a>> /\ a.by = "feed" /\ r.by # "feed" /\ i # R!NoSlot
  <2>1. PICK a \in Ops, r \in Ops : q = <<r, a>> /\ a.by = "feed" /\ r.by # "feed" /\ i # R!NoSlot
    BY <1>4
  <2> DEFINE j == <<a.job>>
             z == <<Item(r)>>
             y == RestOf(i, ring, f)
             w == IF y # <<>> THEN j ELSE <<>>
             s == ring \o j
  <2>2. Head(q) = r /\ Append(Tail(q), p) = <<a, p>>
    <3>1. Head(q) = r /\ Tail(q) = <<a>>
      BY <2>1, Short
    <3>2. QED BY <3>1, Short
  <2>3. /\ Rec(x, <<r, a>>, i, ring, f) /\ j = <<a.job>> /\ z = <<Item(r)>>
        /\ y = RestOf(i, ring, f) /\ w = IF y # <<>> THEN j ELSE <<>>
    BY <2>1
  <2>4. a.by = "feed" /\ r.by # "feed" /\ i # R!NoSlot
    BY <2>1
  <2>5. a.job \in Jobs
    BY <2>1 DEF Queue
  <2>6. s \in Seq(Jobs) /\ s = ring \o j
    BY <2>5
  <2>7. AtLive(r, i, ring, f) \/ AtLost(r, 1, i, ring, f)
    <3>1. Loop(<<r, a>>, i, ring, f)
      BY <2>1
    <3>2. QED BY <2>4, <3>1, LoopForms
  <2> HIDE DEF y, z, j, w, s
  <2>8. /\ n \in R!Slots /\ Among(y, Cat(k, v))
        /\ R!Offset(f, n) < Len(ring) \/ R!Offset(f, n) >= Len(ring) + 1
    BY <1>0, <1>2, <2>3, <2>7, RestNext
  <2>9. Among(s, x \o Cat(z, Cat(j, Cat(y, w))))
    BY <1>0, <2>3, <2>4, <2>6, RecOfLoopFeed
  <2>10. /\ j \in Seq(T) /\ y \in Seq(T) /\ k \in Seq(T) /\ v \in Seq(T)
         /\ Cat(k, v) \in Seq(T) /\ Cat(v, j) \in Seq(T) /\ Cat(k, Cat(v, j)) \in Seq(T)
    <3>1. y \in Seq(T)
      BY <1>0, <2>4, <2>3, PartTypes
    <3>2. /\ j \in Seq(T) /\ k \in Seq(T) /\ v \in Seq(T)
          /\ Cat(k, v) \in Seq(T) /\ Cat(v, j) \in Seq(T) /\ Cat(k, Cat(v, j)) \in Seq(T)
      BY <1>2, <2>3, <2>8, PartTypes
    <3>3. QED BY <3>1, <3>2
  <2>11. w \in Seq(T) /\ Among(w, j)
    <3>1. CASE y # <<>>
      BY <2>3, <2>10, <3>1, AmongSelf
    <3>2. CASE y = <<>>
      BY <2>3, <3>2, AmongEmpty
    <3>3. QED BY <3>1, <3>2
  <2>12. /\ Cat(y, w) \in Seq(T) /\ Cat(j, Cat(y, w)) \in Seq(T)
         /\ Cat(j, Cat(k, Cat(v, j))) \in Seq(T) /\ Cat(Cat(k, v), j) \in Seq(T)
    <3>1. Cat(y, w) \in Seq(T)
      BY <2>10, <2>11 DEF Cat
    <3>2. QED BY <2>10, <3>1 DEF Cat
  <2>13. Among(Cat(y, w), Cat(k, Cat(v, j)))
    <3>1. Among(Cat(y, w), Cat(Cat(k, v), j))
      <4> HIDE DEF T
      <4>1. QED BY <2>8, <2>10, <2>11, AmongConcat DEF Cat
    <3>2. Cat(Cat(k, v), j) = Cat(k, Cat(v, j))
      BY <2>10, Associative
    <3>3. QED BY <3>1, <3>2
  <2>14. Among(Cat(j, Cat(y, w)), Cat(j, Cat(k, Cat(v, j))))
    <3>1. Among(j, j)
      BY <2>10, AmongSelf
    <3> DEFINE b == Cat(y, w)
               c == Cat(k, Cat(v, j))
    <3>2. b \in Seq(T) /\ c \in Seq(T) /\ Among(b, c)
      BY <2>10, <2>12, <2>13
    <3> HIDE DEF b, c, T
    <3>3. Among(j \o b, j \o c)
      BY <2>10, <3>1, <3>2, AmongConcat
    <3>4. QED BY <3>3 DEF b, c, Cat
  <2>15. IF r.by = "dangling" THEN Among(x, u) ELSE Among(x \o <<r.job>>, u)
    BY <2>2 DEF Writing
  <2>16. Among(s, u \o Cat(j, Cat(k, Cat(v, j))))
    BY <2>6, <2>9, <2>12, <2>14, <2>15, WrittenItem DEF z
  <2>17. Rec(u, <<a, p>>, n, ring, f)
    BY <1>1, <1>2, <2>3, <2>4, <2>6, <2>8, <2>16, RecOfFeedLoop
  <2>18. QED BY <2>2, <2>17
<1>5. ASSUME NEW a \in Ops, a.by = "feed", q = <<a>> PROVE FALSE
  BY <1>5
<1>6. ASSUME NEW a \in Ops, NEW r \in Ops, a.by = "feed", q = <<a, r>> PROVE FALSE
  BY <1>6
<1>7. QED BY <1>3, <1>4, <1>5, <1>6, QueueForms

(* The loop begins, at the front: all of the ring is still to be written.   *)
LEMMA RecStart ==
  ASSUME NEW ring \in Seq(Jobs), NEW f \in R!Slots,
         NEW x \in Seq(AllLines), NEW q, Queue(q, R!NoSlot)
  PROVE  /\ ring = <<>> => Rec(x, q, R!NoSlot, ring, f)
         /\ ring # <<>> =>
              \A p \in Ops :
                p.by = "resend" /\ p.job = AtSlot(f, ring, f) =>
                  Rec(x, Append(q, p), f, ring, f) /\ Loop(Append(q, p), f, ring, f)
<1> DEFINE T == AllLines
<1>1. CASE ring = <<>>
  <2>1. CASE q = <<>>
    <3>1. Among(ring, x)
      BY <1>1, AmongEmpty
    <3>2. QED BY <1>1, <2>1, <3>1, RecNone
  <2>2. CASE \E a \in Ops : q = <<a>> /\ a.by = "feed"
    <3>1. PICK a \in Ops : q = <<a>> /\ a.by = "feed"
      BY <2>2
    <3> DEFINE j == <<a.job>>
    <3>2. j \in Seq(T) /\ j = <<a.job>>
      BY RecTypes, RingSlots
    <3> HIDE DEF j
    <3>3. Among(j, x \o j)
      BY <3>2, AmongSuffix
    <3>4. ring \o j = j
      BY <1>1, <3>2, ConcatEmptySeq
    <3>5. QED BY <1>1, <3>1, <3>2, <3>3, <3>4, RecOfFeed
  <2>3. QED BY <1>1, <2>1, <2>2, QueueForms
<1>2. ASSUME ring # <<>>, NEW p \in Ops, p.by = "resend", p.job = AtSlot(f, ring, f)
      PROVE  Rec(x, Append(q, p), f, ring, f) /\ Loop(Append(q, p), f, ring, f)
  <2> DEFINE k == <<p.job>>
             v == RestOf(f, ring, f)
  <2>1. R!Offset(f, f) = 0 /\ Len(ring) > 0
    <3>1. R!Offset(f, f) = 0 <=> f = f
      BY RingSteps
    <3>2. Len(ring) > 0
      BY <1>2
    <3>3. QED BY <3>1, <3>2
  <2>2. Item(p) = p.job /\ p.by # "feed" /\ f # R!NoSlot
    BY <1>2, RingSlots DEF Item
  <2>3. k = <<Item(p)>> /\ v = RestOf(f, ring, f) /\ k = <<p.job>>
    BY <2>2
  <2>4. ring = Cat(k, v)
    <3>1. ring = <<ring[1]>> \o After(ring, 0)
      BY <1>2, AfterFront
    <3>2. p.job = ring[1]
      BY <1>2, <2>1 DEF AtSlot, R!Live
    <3>3. v = After(ring, 0)
      BY <2>1, RestIs
    <3>4. QED BY <3>1, <3>2, <3>3 DEF Cat
  <2> HIDE DEF k, v
  <2>5. \A n : AtLive(p, f, ring, f) \/ AtLost(p, n, f, ring, f)
    BY <1>2, <2>1, LoopAtSlot
  <2>6. ring \in Seq(T)
    BY RecTypes
  <2>7. CASE q = <<>>
    <3>1. Append(q, p) = <<p>>
      BY <2>7, Short
    <3>2. Among(ring, x \o Cat(k, v))
      BY <2>4, <2>6, AmongSuffix
    <3>3. Rec(x, <<p>>, f, ring, f)
      BY <2>2, <2>3, <3>2, RecOfLoop
    <3>4. Loop(<<p>>, f, ring, f)
      BY <2>5 DEF Loop
    <3>5. QED BY <3>1, <3>3, <3>4
  <2>8. CASE \E a \in Ops : q = <<a>> /\ a.by = "feed"
    <3>1. PICK a \in Ops : q = <<a>> /\ a.by = "feed"
      BY <2>8
    <3> DEFINE j == <<a.job>>
    <3>2. Append(q, p) = <<a, p>> /\ j = <<a.job>> /\ a.by = "feed"
      BY <3>1, Short
    <3> HIDE DEF j
    <3>3. j \in Seq(T) /\ k \in Seq(T) /\ v \in Seq(T) /\ Cat(k, Cat(v, j)) \in Seq(T)
      BY <2>3, <3>2, PartTypes
    <3>4. ring \o j = Cat(k, Cat(v, j))
      <4>1. Cat(Cat(k, v), j) = Cat(k, Cat(v, j))
        BY <3>3, Associative
      <4>2. QED BY <2>4, <4>1 DEF Cat
    <3> DEFINE c == Cat(k, Cat(v, j))
    <3>5. c \in Seq(T) /\ ring \o j = c
      BY <3>3, <3>4
    <3> HIDE DEF c
    <3>6. Among(c, (x \o j) \o c)
      <4>1. x \o j \in Seq(T)
        BY <3>3
      <4>2. QED BY <3>5, <4>1, AmongSuffix
    <3>7. (x \o j) \o c = x \o Cat(j, c)
      <4>1. Cat(Cat(x, j), c) = Cat(x, Cat(j, c))
        BY <3>3, <3>5, Associative
      <4>2. QED BY <4>1 DEF Cat
    <3>8. Among(ring \o j, x \o Cat(j, Cat(k, Cat(v, j))))
      BY <3>5, <3>6, <3>7 DEF c
    <3>9. Rec(x, <<a, p>>, f, ring, f)
      BY <2>2, <2>3, <3>2, <3>8, RecOfFeedLoop
    <3>10. Loop(<<a, p>>, f, ring, f)
      BY <2>2, <2>5, <3>1, LoopForms
    <3>11. QED BY <3>2, <3>9, <3>10
  <2>9. QED BY <2>7, <2>8, QueueForms
<1>3. QED BY <1>1, <1>2

(* All of the ring is still to be written.                                  *)
LEMMA RecBehind ==
  ASSUME NEW ring \in Seq(Jobs), NEW f \in R!Slots, NEW i \in R!Slots,
         NEW x \in Seq(AllLines), NEW q, Queue(q, i), RestOf(i, ring, f) = ring
  PROVE  Rec(x, q, i, ring, f)
<1> DEFINE T == AllLines
<1>1. i # R!NoSlot
  BY RingSlots
<1>2. ring \in Seq(T)
  BY RecTypes
<1>3. CASE \E r \in Ops : q = <<r>> /\ r.by # "feed"
  <2>1. PICK r \in Ops : q = <<r>> /\ r.by # "feed"
    BY <1>3
  <2> DEFINE z == <<Item(r)>>
  <2>2. z = <<Item(r)>> /\ r.by # "feed"
    BY <2>1
  <2> HIDE DEF z
  <2>3. z \in Seq(T)
    BY <2>2, PartTypes
  <2>4. x \o z \in Seq(T)
    BY <2>3
  <2>5. Among(ring, (x \o z) \o ring)
    BY <1>2, <2>4, AmongSuffix
  <2>6. (x \o z) \o ring = x \o Cat(z, ring)
    <3>1. Cat(Cat(x, z), ring) = Cat(x, Cat(z, ring))
      BY <1>2, <2>3, Associative
    <3>2. QED BY <3>1 DEF Cat
  <2>7. Among(ring, x \o Cat(z, ring))
    BY <2>5, <2>6
  <2>8. QED BY <2>1, <2>2, <2>7, RecOfLoop
<1>4. CASE \E a, r \in Ops : q = <<a, r>> /\ a.by = "feed" /\ r.by # "feed"
  <2>1. PICK a \in Ops, r \in Ops : q = <<a, r>> /\ a.by = "feed" /\ r.by # "feed"
    BY <1>4
  <2> DEFINE j == <<a.job>>
             z == <<Item(r)>>
             c == ring \o j
  <2>2. z = <<Item(r)>> /\ j = <<a.job>> /\ a.by = "feed" /\ r.by # "feed" /\ c = ring \o j
    BY <2>1
  <2> HIDE DEF z, j, c
  <2>3. z \in Seq(T) /\ j \in Seq(T)
    BY <2>2, PartTypes
  <2>4. c \in Seq(T) /\ x \o Cat(j, z) \in Seq(T) /\ Cat(j, z) \in Seq(T) /\ Cat(z, c) \in Seq(T)
    BY <1>2, <2>2, <2>3 DEF Cat
  <2>5. Among(c, (x \o Cat(j, z)) \o c)
    BY <2>4, AmongSuffix
  <2>6. (x \o Cat(j, z)) \o c = x \o Cat(j, Cat(z, c))
    <3>1. Cat(Cat(j, z), c) = Cat(j, Cat(z, c))
      BY <2>3, <2>4, Associative
    <3> DEFINE b == Cat(j, z)
    <3>2. b \in Seq(T) /\ b = Cat(j, z)
      BY <2>4
    <3> HIDE DEF b
    <3>3. Cat(Cat(x, b), c) = Cat(x, Cat(b, c))
      BY <2>4, <3>2, Associative
    <3>4. QED BY <3>1, <3>2, <3>3 DEF Cat
  <2>7. Among(ring \o j, x \o Cat(j, Cat(z, Cat(ring, j))))
    BY <2>2, <2>5, <2>6 DEF Cat
  <2>8. QED BY <2>1, <2>2, <2>7, RecOfFeedLoop
<1>5. CASE \E a, r \in Ops : q = <<r, a>> /\ a.by = "feed" /\ r.by # "feed"
  <2>1. PICK a \in Ops, r \in Ops : q = <<r, a>> /\ a.by = "feed" /\ r.by # "feed"
    BY <1>5
  <2> DEFINE j == <<a.job>>
             z == <<Item(r)>>
             w == IF ring # <<>> THEN j ELSE <<>>
  <2>2. /\ z = <<Item(r)>> /\ j = <<a.job>> /\ a.by = "feed" /\ r.by # "feed"
        /\ w = IF ring # <<>> THEN j ELSE <<>>
    BY <2>1
  <2> HIDE DEF z, j, w
  <2>3. z \in Seq(T) /\ j \in Seq(T)
    BY <2>2, PartTypes
  <2>4. Among(ring \o j, Cat(j, Cat(ring, w)))
    <3>1. CASE ring # <<>>
      <4> DEFINE c == ring \o j
      <4>1. c \in Seq(T)
        BY <1>2, <2>3
      <4> HIDE DEF c
      <4>2. Among(c, j \o c)
        BY <2>3, <4>1, AmongSuffix
      <4>3. QED BY <2>2, <3>1, <4>2 DEF c, Cat
    <3>2. CASE ring = <<>>
      <4>1. Cat(ring, w) = <<>> /\ ring \o j = j /\ Cat(j, <<>>) = j
        BY <2>2, <2>3, <3>2, ConcatEmptySeq DEF Cat
      <4>2. QED BY <2>3, <4>1, AmongSelf
    <3>3. QED BY <3>1, <3>2
  <2>5. /\ ring \o j \in Seq(T) /\ Cat(j, Cat(ring, w)) \in Seq(T) /\ x \o z \in Seq(T)
    <3>1. w \in Seq(T)
      BY <2>2, <2>3
    <3>2. Cat(ring, w) \in Seq(T)
      BY <1>2, <3>1 DEF Cat
    <3>3. QED BY <1>2, <2>3, <3>2 DEF Cat
  <2> DEFINE c == Cat(j, Cat(ring, w))
             s == ring \o j
  <2>6. c \in Seq(T) /\ s \in Seq(T) /\ Among(s, c)
    BY <2>4, <2>5
  <2> HIDE DEF c, s
  <2>7. Among(s, (x \o z) \o c)
    BY <2>5, <2>6, AmongAround
  <2>8. (x \o z) \o c = x \o Cat(z, c)
    <3>1. Cat(Cat(x, z), c) = Cat(x, Cat(z, c))
      BY <2>3, <2>6, Associative
    <3>2. QED BY <3>1 DEF Cat
  <2>9. Among(ring \o j, x \o Cat(z, Cat(j, Cat(ring, w))))
    BY <2>7, <2>8 DEF c, s
  <2>10. QED BY <2>1, <2>2, <2>9, RecOfLoopFeed
<1>6. QED BY <1>1, <1>3, <1>4, <1>5, QueueForms

LEMMA LeftTypes ==
  ASSUME NEW ring \in Seq(Jobs), NEW f \in R!Slots, NEW i \in R!Slots \cup {R!NoSlot},
         NEW q, Queue(q, i)
  PROVE  Flight(q) \in Seq(AllLines) /\ Left(q, i, ring, f) \in Seq(AllLines)
<1>1. q \in Seq(Ops)
  BY DEF Queue
<1>2. \A op \in Ops : Item(op) \in AllLines /\ op.job \in AllLines
  BY RecTypes
<1>3. Flight(q) \in Seq(AllLines)
  <2>1. CASE HasFeed(q)
    <3> DEFINE n == CHOOSE m \in DOMAIN q : q[m].by = "feed"
    <3>1. n \in DOMAIN q
      BY <2>1 DEF HasFeed
    <3>2. Flight(q) = <<q[n].job>>
      BY <2>1 DEF Flight
    <3> HIDE DEF n
    <3>3. q[n].job \in AllLines
      BY <1>1, <1>2, <3>1
    <3>4. QED BY <3>2, <3>3
  <2>2. CASE ~HasFeed(q)
    BY <2>2 DEF Flight
  <2>3. QED BY <2>1, <2>2
<1> DEFINE w == [n \in DOMAIN q |-> Item(q[n])]
           y == RestOf(i, ring, f)
           b == AgainOf(q, i, ring, f)
<1>4. w \in Seq(AllLines)
  BY <1>1, <1>2
<1>5. y \in Seq(AllLines)
  BY RecTypes
<1>6. b \in Seq(AllLines)
  <2>1. b = Flight(q) \/ b = <<>>
    BY DEF AgainOf
  <2>2. <<>> \in Seq(AllLines)
    OBVIOUS
  <2> HIDE DEF b
  <2>3. QED BY <1>3, <2>1, <2>2
<1>7. Left(q, i, ring, f) = w \o y \o b
  BY DEF Left
<1> HIDE DEF w, y, b
<1>8. QED BY <1>3, <1>4, <1>5, <1>6, <1>7

(* A line reports the first job, and what is to be written stays.           *)
LEMMA RecTail ==
  ASSUME NEW ring \in Seq(Jobs), ring # <<>>, NEW f \in R!Slots, NEW g \in R!Slots,
         NEW i \in R!Slots \cup {R!NoSlot}, NEW x \in Seq(AllLines), x # <<>>,
         NEW q, Queue(q, i), Rec(x, q, i, ring, f),
         RestOf(i, Tail(ring), g) = RestOf(i, ring, f)
  PROVE  Rec(Tail(x), q, i, Tail(ring), g)
<1> DEFINE T == AllLines
           e == Flight(q)
           l == Left(q, i, ring, f)
<1>1. Left(q, i, Tail(ring), g) = l
  BY DEF Left, AgainOf
<1>2. ring \in Seq(T) /\ e \in Seq(T) /\ l \in Seq(T)
  BY RecTypes, LeftTypes
<1>3. Among(ring \o e, x \o l)
  BY DEF Rec
<1> HIDE DEF e, l
<1>4. /\ ring \o e # <<>> /\ Tail(ring \o e) = Tail(ring) \o e /\ ring \o e \in Seq(T)
      /\ x \o l # <<>> /\ Tail(x \o l) = Tail(x) \o l /\ x \o l \in Seq(T)
  <2>1. ring \o e # <<>> /\ Tail(ring \o e) = Tail(ring) \o e
    BY <1>2, ConcatTail
  <2>2. x \o l # <<>> /\ Tail(x \o l) = Tail(x) \o l
    BY <1>2, ConcatTail
  <2>3. ring \o e \in Seq(T) /\ x \o l \in Seq(T)
    BY <1>2
  <2>4. QED BY <2>1, <2>2, <2>3
<1> HIDE DEF T
<1>5. Among(Tail(ring) \o e, Tail(x) \o l)
  BY <1>3, <1>4, AmongTail
<1>6. QED BY <1>1, <1>5 DEF Rec, e

(* A line reports nothing.                                                  *)
LEMMA RecSkip ==
  ASSUME NEW ring \in Seq(Jobs), NEW f \in R!Slots,
         NEW i \in R!Slots \cup {R!NoSlot}, NEW x \in Seq(AllLines), x # <<>>,
         NEW q, Queue(q, i), Rec(x, q, i, ring, f),
         ring # <<>> => Head(x) # Head(ring)
  PROVE  Rec(Tail(x), q, i, ring, f)
<1>0. Tail(x) \in Seq(AllLines)
  OBVIOUS
<1>1. CASE ring = <<>>
  <2>1. CASE i = R!NoSlot
    BY <1>0, <1>1, <2>1, RecStart
  <2>2. CASE i \in R!Slots
    <3> DEFINE o == R!Offset(f, i)
    <3>1. o \in 0 .. BufferSize - 1
      BY <2>2, RingSteps
    <3>2. RestOf(i, ring, f) = After(ring, o)
      BY <2>2, RestIs
    <3> HIDE DEF o
    <3>3. o \in Nat /\ o >= Len(ring)
      BY <1>1, <3>1, PipeBufferAssumption
    <3>4. After(ring, o) = ring
      BY <3>3, AfterType
    <3>5. QED BY <1>0, <2>2, <3>2, <3>4, RecBehind
  <2>3. QED BY <2>1, <2>2
<1>2. CASE ring # <<>>
  <2> DEFINE T == AllLines
             e == Flight(q)
             l == Left(q, i, ring, f)
  <2>1. ring \in Seq(T) /\ e \in Seq(T) /\ l \in Seq(T)
    BY RecTypes, LeftTypes
  <2>2. Among(ring \o e, x \o l)
    BY DEF Rec
  <2> HIDE DEF e, l
  <2>3. /\ ring \o e # <<>> /\ Head(ring \o e) = Head(ring) /\ ring \o e \in Seq(T)
        /\ x \o l # <<>> /\ Head(x \o l) = Head(x) /\ Tail(x \o l) = Tail(x) \o l
        /\ x \o l \in Seq(T)
    <3>1. ring \o e # <<>> /\ Head(ring \o e) = Head(ring)
      BY <1>2, <2>1, ConcatTail
    <3>2. x \o l # <<>> /\ Head(x \o l) = Head(x) /\ Tail(x \o l) = Tail(x) \o l
      BY <2>1, ConcatTail
    <3>3. ring \o e \in Seq(T) /\ x \o l \in Seq(T)
      BY <2>1
    <3>4. QED BY <3>1, <3>2, <3>3
  <2> HIDE DEF T
  <2>4. Among(ring \o e, Tail(x) \o l)
    BY <1>2, <2>2, <2>3, AmongSkip
  <2>5. QED BY <2>4 DEF Rec, e, l
<1>3. QED BY <1>1, <1>2

(* The loop keeps its place, and may lose its job.                          *)
LEMMA LoopPopped ==
  ASSUME NEW ring \in Seq(Jobs), ring # <<>>, NEW f \in R!Slots,
         NEW i \in R!Slots \cup {R!NoSlot},
         NEW q, Queue(q, i), Len(ring) + (IF HasFeed(q) THEN 1 ELSE 0) <= BufferSize,
         Loop(q, i, ring, f),
         NEW d, d = [n \in DOMAIN q |-> IF f = i THEN Dangling(q[n]) ELSE q[n]]
  PROVE  Loop(d, i, Tail(ring), R!Slot(f + 1))
<1>1. SUFFICES ASSUME i # R!NoSlot, NEW n \in DOMAIN d, d[n].by # "feed"
               PROVE  \/ AtLive(d[n], i, Tail(ring), R!Slot(f + 1))
                      \/ AtLost(d[n], n, i, Tail(ring), R!Slot(f + 1))
  BY DEF Loop
<1>2. q \in Seq(Ops) /\ n \in DOMAIN q /\ q[n] \in Ops
  BY <1>1 DEF Queue
<1>3. d[n] = IF f = i THEN Dangling(q[n]) ELSE q[n]
  BY <1>2
<1>4. q[n].by # "feed"
  BY <1>1, <1>3 DEF Dangling
<1>5. AtLive(q[n], i, ring, f) \/ AtLost(q[n], n, i, ring, f)
  BY <1>1, <1>2, <1>4 DEF Loop
<1>6. n \in {1, 2} /\ (n = 2 => HasFeed(q))
  <2>1. CASE q = <<>>
    BY <1>2, <2>1
  <2>2. CASE \E r \in Ops : q = <<r>>
    BY <1>2, <2>2
  <2>3. CASE \E a, r \in Ops : q = <<a, r>> /\ a.by = "feed"
    BY <1>2, <2>3 DEF HasFeed
  <2>4. CASE \E a, r \in Ops : q = <<r, a>> /\ a.by = "feed"
    BY <1>2, <2>4 DEF HasFeed
  <2>5. QED BY <2>1, <2>2, <2>3, <2>4, QueueForms
<1>7. Len(ring) + (IF n = 1 THEN 0 ELSE 1) <= BufferSize
  BY <1>6, PipeBufferAssumption
<1> DEFINE r == q[n]
           e == d[n]
<1>8. /\ r \in Ops /\ r.by # "feed" /\ (AtLive(r, i, ring, f) \/ AtLost(r, n, i, ring, f))
      /\ e = IF f = i THEN Dangling(r) ELSE r
  BY <1>2, <1>3, <1>4, <1>5
<1> HIDE DEF r, e
<1>9. AtLive(e, i, Tail(ring), R!Slot(f + 1)) \/ AtLost(e, n, i, Tail(ring), R!Slot(f + 1))
  BY <1>1, <1>6, <1>7, <1>8, LoopPop
<1>10. QED BY <1>9 DEF e

(* A line reports the first job, which the loop may be at.                  *)
LEMMA RecPop ==
  ASSUME NEW ring \in Seq(Jobs), ring # <<>>, NEW f \in R!Slots,
         NEW i \in R!Slots \cup {R!NoSlot}, NEW x \in Seq(AllLines), x # <<>>,
         NEW q, Queue(q, i), Len(ring) <= BufferSize,
         Rec(x, q, i, ring, f),
         NEW d, d = [n \in DOMAIN q |-> IF f = i THEN Dangling(q[n]) ELSE q[n]],
         Queue(d, i)
  PROVE  Rec(Tail(x), d, i, Tail(ring), R!Slot(f + 1))
<1> DEFINE g == R!Slot(f + 1)
           o == R!Offset(f, i)
           p == R!Offset(g, i)
           t == Tail(ring)
<1>1. g \in R!Slots /\ t \in Seq(Jobs) /\ Tail(x) \in Seq(AllLines) /\ R!NoSlot \notin R!Slots
  BY RingSteps, RingSlots
<1>2. CASE i = R!NoSlot
  <2>1. d = q
    BY <1>1, <1>2 DEF Queue
  <2>2. RestOf(i, t, g) = RestOf(i, ring, f)
    BY <1>2 DEF RestOf
  <2> HIDE DEF g, t
  <2>3. Rec(Tail(x), q, i, t, g)
    BY <1>1, <2>2, RecTail DEF t
  <2>4. QED BY <2>1, <2>3 DEF g, t
<1>3. CASE i \in R!Slots
  <2>1. /\ o \in 0 .. BufferSize - 1 /\ (o = 0 <=> i = f)
        /\ p = IF o = 0 THEN BufferSize - 1 ELSE o - 1
    BY <1>3, RingSteps
  <2>2. /\ o \in Nat /\ p \in Nat /\ Len(ring) \in Nat /\ Len(t) = Len(ring) - 1
        /\ Len(ring) <= BufferSize
    BY <2>1, PipeBufferAssumption
  <2>3. RestOf(i, ring, f) = After(ring, o) /\ RestOf(i, t, g) = After(t, p)
    BY <1>1, <1>3, RestIs
  <2> HIDE DEF o, p, g, t
  <2>4. Rec(Tail(x), d, i, t, g)
    <3>1. CASE o = 0 \/ o >= Len(ring)
      <4>1. p >= Len(t)
        <5>1. BufferSize \in Nat
          BY PipeBufferAssumption
        <5>2. CASE o = 0
          <6>1. p = BufferSize - 1
            BY <2>1, <5>2
          <6>2. QED BY <2>2, <5>1, <6>1
        <5>3. CASE o # 0
          <6>1. p = o - 1 /\ o >= Len(ring)
            BY <2>1, <3>1, <5>3
          <6>2. QED BY <2>2, <6>1
        <5>4. QED BY <5>2, <5>3
      <4>2. RestOf(i, t, g) = t
        BY <1>1, <2>2, <2>3, <4>1, AfterType
      <4>3. QED BY <1>1, <1>3, <4>2, RecBehind
    <3>2. CASE o # 0 /\ o < Len(ring)
      <4>1. d = q
        BY <2>1, <3>2 DEF Queue
      <4>2. After(t, p) = After(ring, o)
        BY <2>1, <2>2, <3>2, AfterPop DEF t
      <4>3. Rec(Tail(x), q, i, t, g)
        BY <1>1, <2>3, <4>2, RecTail DEF t
      <4>4. QED BY <4>1, <4>3
    <3>3. QED BY <2>2, <3>1, <3>2
  <2>5. QED BY <2>4 DEF g, t
<1>4. QED BY <1>2, <1>3

-----------------------------------------------------------------------------
(* Recoverable is about the queue, the ring and the lines on their way.     *)
OnLines == stdoutPipe \o LinesOf(wbuf \o stdinPipe)
LEMMA RecoverIs ==
  /\ Recoverable <=> (worker = "up" /\ asks = 0 => Rec(OnLines, writing, it, commands, first))
  /\ Recoverable' <=>
       (worker' = "up" /\ asks' = 0 => Rec(OnLines', writing', it', commands', first'))
BY LeftIs DEF Recoverable, Rec, OnLines

LEMMA OnLinesType ==
  ASSUME PipeInv
  PROVE  /\ LinesOf(wbuf \o stdinPipe) \in Seq(AllLines) /\ stdoutPipe \in Seq(AllLines)
         /\ OnLines \in Seq(AllLines) /\ wbuf \o stdinPipe \in Seq(Bytes)
<1>1. stdinPipe \in Seq(Bytes) /\ wbuf \in Seq(Bytes) /\ stdoutPipe \in Seq(AllLines)
  BY PipeShapes DEF AllLines
<1>2. wbuf \o stdinPipe \in Seq(Bytes)
  BY <1>1
<1>3. LinesOf(wbuf \o stdinPipe) \in Seq(AllLines)
  BY <1>2, LinesOfType DEF AllLines
<1>4. QED BY <1>1, <1>2, <1>3 DEF OnLines

(* next_job.                                                                *)
LEMMA GiveRecovers ==
  ASSUME PipeInv, LoopInv, Recoverable, Give
  PROVE  LoopInv' /\ Recoverable'
<1> DEFINE job == Head(input)
           op == Operation("feed", job, writing, stdinPipe)
<1>1. /\ input # <<>> /\ ~Feeding /\ writing' = Append(writing, op)
      /\ UNCHANGED <<commands, first, it, stdinPipe, stdoutPipe, asks, worker, wbuf>>
  BY DEF Give, ringVars, workerVars
<1>2. job \in Texts
  BY <1>1, PipeShapes DEF Texts
<1>3. op \in Ops /\ op.by = "feed"
  BY <1>2, Begun
<1> HIDE DEF op, job
<1>4. /\ Queue(writing, it) /\ commands \in Seq(Jobs) /\ first \in R!Slots
      /\ it \in R!Slots \cup {R!NoSlot} /\ \A n \in DOMAIN writing : writing[n].by # "feed"
  BY <1>1, PipeShapes DEF Feeding
<1>5. LoopInv'
  <2>1. writing \in Seq(Ops)
    BY <1>4 DEF Queue
  <2>2. ASSUME NEW n \in DOMAIN Append(writing, op), Append(writing, op)[n].by # "feed"
        PROVE  n \in DOMAIN writing /\ Append(writing, op)[n] = writing[n]
    BY <1>3, <2>1, <2>2, AppendProperties
  <2>3. Loop(Append(writing, op), it, commands, first)
    BY <2>2 DEF LoopInv, Loop
  <2>4. QED BY <1>1, <2>3 DEF LoopInv
<1>6. Recoverable'
  <2>1. SUFFICES ASSUME worker = "up", asks = 0
                 PROVE  Rec(OnLines, Append(writing, op), it, commands, first)
    BY <1>1, RecoverIs DEF OnLines
  <2>2. Rec(OnLines, writing, it, commands, first)
    BY <2>1, RecoverIs
  <2>3. QED BY <1>3, <1>4, <2>2, OnLinesType, RecGive
<1>7. QED BY <1>5, <1>6

(* handle_child_requests.                                                   *)
LEMMA ByteRecovers ==
  ASSUME PipeInv, LoopInv, Recoverable, Byte
  PROVE  LoopInv' /\ Recoverable'
<1>1. /\ it = R!NoSlot
      /\ \/ commands = <<>> /\ UNCHANGED <<writing, it>>
         \/ commands # <<>> /\ Resend(first, writing, stdinPipe)
      /\ UNCHANGED <<commands, first, stdinPipe, stdoutPipe, worker, wbuf>>
  BY DEF Byte, ResendFrom, workerVars
<1>2. /\ Queue(writing, R!NoSlot) /\ commands \in Seq(Jobs) /\ first \in R!Slots
  BY <1>1, PipeShapes
<1>3. OnLines' = OnLines /\ OnLines \in Seq(AllLines)
  BY <1>1, OnLinesType DEF OnLines
<1>4. CASE commands = <<>> /\ UNCHANGED <<writing, it>>
  <2>1. Rec(OnLines, writing, it, commands, first)
    BY <1>1, <1>2, <1>3, <1>4, RecStart
  <2>2. QED BY <1>1, <1>3, <1>4, <2>1, RecoverIs DEF LoopInv
<1>5. CASE commands # <<>> /\ Resend(first, writing, stdinPipe)
  <2> DEFINE p == Operation("resend", Text(first), writing, stdinPipe)
  <2>1. writing' = Append(writing, p) /\ it' = first
    BY <1>5 DEF Resend
  <2>2. Text(first) \in Texts
    BY <1>2, TextKnown
  <2>3. p \in Ops /\ p.by = "resend" /\ p.job = AtSlot(first, commands, first)
    BY <2>2, Begun DEF AtSlot, Text
  <2> HIDE DEF p
  <2>4. /\ Rec(OnLines, Append(writing, p), first, commands, first)
        /\ Loop(Append(writing, p), first, commands, first)
    BY <1>2, <1>3, <1>5, <2>3, RecStart
  <2>5. QED BY <1>1, <1>3, <2>1, <2>4, RecoverIs DEF LoopInv
<1>6. QED BY <1>1, <1>4, <1>5

(* What a write puts behind the lines that are on their way.                *)
LEMMA OnLinesWrite ==
  ASSUME PipeInv, Write
  PROVE  OnLines' \in Seq(AllLines) /\ Writing(Head(writing), OnLines, OnLines')
<1> DEFINE T == AllLines
           op == Head(writing)
           line == Append(op.job, Newline)
           b == wbuf \o stdinPipe
           x == OnLines
<1>1. writing # <<>> /\ Queue(writing, it)
  BY PipeShapes DEF Write
<1>2. op \in Ops /\ op.writes = Writes(op.job)
  BY <1>1, QueueLess
<1>3. op.job \in Texts
  BY <1>2 DEF Ops
<1>4. /\ line \in Seq(Bytes) /\ Head(op.writes) = line
      /\ \A n \in 1 .. Len(op.job) : op.job[n] # Newline
      /\ GarbageFor(line) \in Seq(Bytes) /\ op.job \in Seq(Bytes)
  <2>1. GarbageFor(line) \in Seq(Bytes)
    BY <1>3, GarbageLines
  <2>2. op.job \in Seq(Bytes)
    BY <1>3, TextFacts
  <2>3. line \in Seq(Bytes) /\ Head(op.writes) = line
    BY <1>2, <1>3, LineFacts
  <2>4. \A n \in 1 .. Len(op.job) : op.job[n] # Newline
    BY <1>3, LineFacts
  <2>5. QED BY <2>1, <2>2, <2>3, <2>4
<1>5. /\ \/ stdinPipe' = stdinPipe \o line
         \/ op.by = "dangling" /\ stdinPipe' = stdinPipe \o GarbageFor(line)
      /\ UNCHANGED <<stdoutPipe, wbuf>>
  BY <1>4 DEF Write, workerVars
<1>6. \E e \in Seq(T) : LinesOf(line) = e \o <<op.job>>
  BY <1>4, LineAlone DEF AllLines
<1> HIDE DEF op, line, b, x
<1>7. ASSUME NEW l \in Seq(Bytes), stdinPipe' = stdinPipe \o l
      PROVE  LinesOf(l) \in Seq(T) /\ OnLines' = x \o LinesOf(l)
  <2>1. /\ stdinPipe \in Seq(Bytes) /\ wbuf \in Seq(Bytes) /\ stdoutPipe \in Seq(T)
        /\ Lines(b) /\ b \in Seq(Bytes)
    BY PipeShapes, OnLinesType DEF b
  <2>2. wbuf' \o stdinPipe' = b \o l
    <3>1. Cat(Cat(wbuf, stdinPipe), l) = Cat(wbuf, Cat(stdinPipe, l))
      BY <2>1, Associative
    <3>2. QED BY <1>5, <1>7, <3>1 DEF Cat, b
  <2>3. b # <<>> => b[Len(b)] = Newline
    BY <2>1 DEF Lines
  <2>4. LinesOf(b \o l) = LinesOf(b) \o LinesOf(l)
    BY <2>1, <2>3, LinesOfConcat
  <2>5. LinesOf(b) \in Seq(T) /\ LinesOf(l) \in Seq(T)
    BY <2>1, LinesOfType DEF AllLines
  <2> DEFINE m == LinesOf(b)
             k == LinesOf(l)
  <2>6. m \in Seq(T) /\ k \in Seq(T)
    BY <2>5
  <2> HIDE DEF m, k
  <2>7. Cat(Cat(stdoutPipe, m), k) = Cat(stdoutPipe, Cat(m, k))
    BY <2>1, <2>6, Associative
  <2>8. OnLines' = stdoutPipe \o LinesOf(b \o l)
    BY <1>5, <2>2 DEF OnLines
  <2>9. x = stdoutPipe \o m
    BY DEF OnLines, x, m, b
  <2>10. QED BY <2>4, <2>5, <2>7, <2>8, <2>9 DEF Cat, m, k
<1>8. x \in Seq(T)
  BY OnLinesType DEF x
<1>9. CASE stdinPipe' = stdinPipe \o line
  <2> DEFINE k == LinesOf(line)
  <2>1. k \in Seq(T) /\ OnLines' = x \o k
    BY <1>4, <1>7, <1>9
  <2>2. PICK e \in Seq(T) : k = e \o <<op.job>>
    BY <1>6
  <2> HIDE DEF k
  <2>3. Among(x, x \o k)
    <3>1. Among(x, x)
      BY <1>8, AmongSelf
    <3>2. QED BY <1>8, <2>1, <3>1, AmongAround
  <2>4. Among(x \o <<op.job>>, x \o k)
    <3> DEFINE j == <<op.job>>
    <3>1. j \in Seq(T) /\ Among(x, x)
      BY <1>4, <1>8, AmongSelf DEF AllLines
    <3>2. k = e \o j
      BY <2>2
    <3> HIDE DEF j
    <3>3. Among(j, k)
      BY <2>2, <3>1, <3>2, AmongSuffix
    <3> HIDE DEF T
    <3>4. Among(x \o j, x \o k)
      BY <1>8, <2>1, <3>1, <3>3, AmongConcat
    <3>5. QED BY <3>4 DEF j
  <2>5. x \o k \in Seq(T)
    BY <1>8, <2>1
  <2>6. QED BY <2>1, <2>3, <2>4, <2>5 DEF Writing, op, x
<1>10. CASE op.by = "dangling" /\ stdinPipe' = stdinPipe \o GarbageFor(line)
  <2> DEFINE k == LinesOf(GarbageFor(line))
  <2>1. k \in Seq(T) /\ OnLines' = x \o k
    BY <1>4, <1>7, <1>10
  <2> HIDE DEF k
  <2>2. Among(x, x)
    BY <1>8, AmongSelf
  <2>3. Among(x, x \o k)
    BY <1>8, <2>1, <2>2, AmongAround
  <2>4. x \o k \in Seq(T)
    BY <1>8, <2>1
  <2>5. QED BY <1>10, <2>1, <2>3, <2>4 DEF Writing, op, x
<1>11. QED BY <1>5, <1>9, <1>10

(* childproc::write is done.                                                *)
LEMMA WriteRecovers ==
  ASSUME PipeInv, LoopInv, Recoverable, Write
  PROVE  LoopInv' /\ Recoverable'
<1> DEFINE op == Head(writing)
           q == Tail(writing)
           x == OnLines
           u == OnLines'
<1>1. /\ writing # <<>> /\ Queue(writing, it)
      /\ UNCHANGED <<first, asks, worker>>
  BY PipeShapes DEF Write, workerVars
<1>2. op \in Ops /\ op.writes = Writes(op.job)
  BY <1>1, QueueLess
<1>3. Completed(op, q)
  <2>1. op.job \in Texts
    BY <1>2 DEF Ops
  <2>2. Len(op.writes) = 1
    BY <1>2, <2>1, LineFacts
  <2>3. \/ Len(op.writes) = 1 /\ Completed(op, q)
        \/ Len(op.writes) > 1
    BY DEF Write
  <2> HIDE DEF op, q
  <2>4. QED BY <2>2, <2>3
<1>4. /\ commands \in Seq(Jobs) /\ Len(commands) <= BufferSize /\ first \in R!Slots
      /\ it \in R!Slots \cup {R!NoSlot}
  BY PipeShapes, PipeBufferAssumption
<1>5. /\ x \in Seq(AllLines) /\ u \in Seq(AllLines) /\ Writing(op, x, u)
      /\ Loop(writing, it, commands, first)
      /\ worker = "up" /\ asks = 0 => Rec(x, writing, it, commands, first)
  BY OnLinesType, OnLinesWrite, RecoverIs DEF LoopInv
<1>6. Recoverable' <=>
        (worker = "up" /\ asks = 0 => Rec(u, writing', it', commands', first))
  BY <1>1, RecoverIs
<1> HIDE DEF op, q, x, u
<1>7. CASE /\ op.by = "feed" /\ commands' = Append(commands, op.job)
           /\ writing' = q /\ UNCHANGED it
  <2>1. Among(x \o <<op.job>>, u)
    BY <1>5, <1>7 DEF Writing
  <2>2. LoopInv'
    BY <1>1, <1>4, <1>5, <1>7, LoopFeed DEF LoopInv, op, q
  <2>3. ASSUME worker = "up", asks = 0
        PROVE  Rec(u, q, it, Append(commands, op.job), first)
    BY <1>1, <1>4, <1>5, <1>7, <2>1, <2>3, RecFeed DEF op, q
  <2>4. QED BY <1>6, <1>7, <2>2, <2>3
<1>8. CASE /\ op.by # "feed" /\ R!Slot(it + 1) = R!PastLast(commands, first)
           /\ it' = R!NoSlot /\ writing' = q /\ UNCHANGED commands
  <2>1. LoopInv'
    BY <1>8 DEF LoopInv, Loop
  <2>2. ASSUME worker = "up", asks = 0
        PROVE  Rec(u, q, R!NoSlot, commands, first)
    BY <1>1, <1>4, <1>5, <1>8, <2>2, RecEnd DEF op, q
  <2>3. QED BY <1>6, <1>8, <2>1, <2>2
<1>9. CASE /\ op.by # "feed" /\ R!Slot(it + 1) # R!PastLast(commands, first)
           /\ Resend(R!Slot(it + 1), q, stdinPipe') /\ UNCHANGED commands
  <2> DEFINE n == R!Slot(it + 1)
             p == Operation("resend", Text(n), q, stdinPipe')
  <2>1. writing' = Append(q, p) /\ it' = n
    BY <1>9 DEF Resend
  <2>2. n = R!Slot(it + 1) /\ n \in R!Slots
    <3>1. it \in R!Slots
      BY <1>1, <1>4, <1>9, QueueLess DEF op
    <3>2. QED BY <3>1, RingSteps
  <2> HIDE DEF n
  <2>3. Text(n) \in Texts
    BY <1>4, <2>2, TextKnown
  <2>4. p \in Ops /\ p.by = "resend" /\ p.job = AtSlot(n, commands, first)
    BY <2>3, Begun DEF AtSlot, Text
  <2> HIDE DEF p
  <2>5. Loop(Append(q, p), n, commands, first)
    BY <1>1, <1>4, <1>5, <1>9, <2>2, <2>4, LoopNext DEF op, q
  <2>6. LoopInv'
    BY <1>1, <1>9, <2>1, <2>5 DEF LoopInv
  <2>7. ASSUME worker = "up", asks = 0
        PROVE  Rec(u, Append(q, p), n, commands, first)
    BY <1>1, <1>4, <1>5, <1>9, <2>2, <2>4, <2>7, RecNext DEF op, q
  <2>8. QED BY <1>6, <1>9, <2>1, <2>6, <2>7
<1>10. QED BY <1>3, <1>7, <1>8, <1>9 DEF Completed

(* handle_stdout.                                                           *)
LEMMA LineRecovers ==
  ASSUME PipeInv, PipeInv', LoopInv, Recoverable, Line
  PROVE  LoopInv' /\ Recoverable'
<1> DEFINE l == LinesOf(wbuf \o stdinPipe)
           x == OnLines
<1>1. /\ stdoutPipe # <<>> /\ stdoutPipe' = Tail(stdoutPipe)
      /\ UNCHANGED <<it, stdinPipe, asks, worker, wbuf>>
  BY DEF Line, workerVars
<1>2. /\ commands \in Seq(Jobs) /\ first \in R!Slots /\ it \in R!Slots \cup {R!NoSlot}
      /\ Queue(writing, it) /\ Queue(writing', it)
      /\ Len(commands) + (IF HasFeed(writing) THEN 1 ELSE 0) <= BufferSize
      /\ Len(commands) <= BufferSize
  <2>1. Queue(writing', it)
    BY <1>1 DEF PipeInv, WritingInv
  <2>2. Len(commands) <= BufferSize
    BY PipeShapes, PipeBufferAssumption
  <2>3. QED BY <2>1, <2>2, PipeShapes
<1>3. /\ l \in Seq(AllLines) /\ stdoutPipe \in Seq(AllLines) /\ x \in Seq(AllLines)
      /\ x = stdoutPipe \o l
  BY OnLinesType DEF OnLines
<1>4. OnLines' = Tail(stdoutPipe) \o l
  BY <1>1 DEF OnLines
<1> HIDE DEF l, x
<1>5. x # <<>> /\ Head(x) = Head(stdoutPipe) /\ OnLines' = Tail(x)
  BY <1>1, <1>3, <1>4, ConcatTail
<1>6. Loop(writing, it, commands, first)
  BY DEF LoopInv
<1>7. worker = "up" /\ asks = 0 => Rec(x, writing, it, commands, first)
  BY RecoverIs DEF x
<1>8. CASE /\ Matches(Head(stdoutPipe))
           /\ commands' = Tail(commands)
           /\ first' = R!Slot(first + 1)
           /\ writing' = [n \in DOMAIN writing |->
                            IF first = it THEN Dangling(writing[n]) ELSE writing[n]]
  <2>1. commands # <<>>
    BY <1>8 DEF Matches
  <2>2. Loop(writing', it, Tail(commands), R!Slot(first + 1))
    BY <1>2, <1>6, <1>8, <2>1, LoopPopped
  <2>3. LoopInv'
    BY <1>1, <1>8, <2>2 DEF LoopInv
  <2>4. ASSUME worker = "up", asks = 0
        PROVE  Rec(Tail(x), writing', it, Tail(commands), R!Slot(first + 1))
    <3>1. Rec(x, writing, it, commands, first)
      BY <1>7, <2>4
    <3>2. QED BY <1>2, <1>3, <1>5, <1>8, <2>1, <3>1, RecPop
  <2>5. Recoverable'
    BY <1>1, <1>5, <1>8, <2>4, RecoverIs
  <2>6. QED BY <2>3, <2>5
<1>9. CASE /\ ~Matches(Head(stdoutPipe))
           /\ UNCHANGED <<commands, first, writing>>
  <2>1. commands # <<>> => Head(x) # Head(commands)
    BY <1>5, <1>9 DEF Matches
  <2>2. LoopInv'
    BY <1>1, <1>9 DEF LoopInv
  <2>3. ASSUME worker = "up", asks = 0
        PROVE  Rec(Tail(x), writing, it, commands, first)
    <3>1. Rec(x, writing, it, commands, first)
      BY <1>7, <2>3
    <3>2. QED BY <1>2, <1>3, <1>5, <2>1, <3>1, RecSkip
  <2>4. Recoverable'
    BY <1>1, <1>5, <1>9, <2>3, RecoverIs
  <2>5. QED BY <2>2, <2>4
<1>10. QED BY <1>8, <1>9 DEF Line

(* The worker reads: the bytes stay on their way.                           *)
LEMMA WorkerReadRecovers ==
  ASSUME PipeInv, LoopInv, Recoverable, WorkerRead
  PROVE  LoopInv' /\ Recoverable'
<1>1. UNCHANGED <<commands, first, it, writing, stdoutPipe, asks, worker>>
  BY DEF WorkerRead, ringVars
<1>2. PICK n \in 1 .. Len(stdinPipe) :
        /\ wbuf' = wbuf \o SubSeq(stdinPipe, 1, n)
        /\ stdinPipe' = SubSeq(stdinPipe, n + 1, Len(stdinPipe))
  BY DEF WorkerRead
<1> DEFINE x == SubSeq(stdinPipe, 1, n)
           y == SubSeq(stdinPipe, n + 1, Len(stdinPipe))
<1>3. stdinPipe \in Seq(Bytes) /\ wbuf \in Seq(Bytes)
  BY PipeShapes
<1>4. x \in Seq(Bytes) /\ y \in Seq(Bytes) /\ x \o y = stdinPipe
  BY <1>3, ReadAhead
<1> HIDE DEF x, y
<1>5. Cat(Cat(wbuf, x), y) = Cat(wbuf, Cat(x, y))
  BY <1>3, <1>4, Associative
<1>6. wbuf' \o stdinPipe' = wbuf \o stdinPipe
  BY <1>2, <1>4, <1>5 DEF Cat, x, y
<1>7. OnLines' = OnLines
  BY <1>1, <1>6 DEF OnLines
<1>8. LoopInv'
  BY <1>1 DEF LoopInv
<1>9. Recoverable'
  BY <1>1, <1>7, RecoverIs
<1>10. QED BY <1>8, <1>9

(* What no job is may be taken from among the lines.                        *)
LEMMA RecDrop ==
  ASSUME NEW ring \in Seq(Jobs), NEW f \in R!Slots, NEW i \in R!Slots \cup {R!NoSlot},
         NEW q, Queue(q, i), NEW u \in Seq(AllLines), NEW w \in Seq(AllLines),
         NEW v \in Seq(AllLines), \A n \in DOMAIN w : w[n] = <<>>,
         Rec(Cat(u, Cat(w, v)), q, i, ring, f)
  PROVE  Rec(Cat(u, v), q, i, ring, f)
<1> DEFINE T == AllLines
           e == Flight(q)
           l == Left(q, i, ring, f)
           s == ring \o e
<1>1. e \in Seq(T) /\ l \in Seq(T) /\ ring \in Seq(T)
  BY LeftTypes, RecTypes
<1>2. e \in Seq(Jobs)
  <2>1. CASE HasFeed(q)
    <3> DEFINE n == CHOOSE m \in DOMAIN q : q[m].by = "feed"
    <3>1. n \in DOMAIN q /\ q[n].by = "feed"
      BY <2>1 DEF HasFeed
    <3>2. e = <<q[n].job>>
      BY <2>1 DEF Flight
    <3> HIDE DEF n, e
    <3>3. q[n].job \in Jobs
      BY <3>1 DEF Queue
    <3>4. QED BY <3>2, <3>3
  <2>2. CASE ~HasFeed(q)
    BY <2>2 DEF Flight
  <2>3. QED BY <2>1, <2>2
<1>3. Among(s, Cat(u, Cat(w, v)) \o l)
  BY DEF Rec
<1> HIDE DEF e, l
<1>4. s \in Seq(Jobs) /\ s \in Seq(T)
  BY <1>1, <1>2
<1> HIDE DEF s
<1>5. \A n \in DOMAIN s : \A m \in DOMAIN w : s[n] # w[m]
  <2>1. \A n \in DOMAIN s : s[n] # <<>>
    BY <1>4, TextFacts
  <2>2. QED BY <2>1
<1>6. u \in Seq(T) /\ w \in Seq(T) /\ v \in Seq(T)
  OBVIOUS
<1> HIDE DEF T
<1>7. Cat(w, v) \in Seq(T) /\ Cat(v, l) \in Seq(T)
  BY <1>1, <1>6 DEF Cat
<1>8. Cat(Cat(u, Cat(w, v)), l) = Cat(u, Cat(w, Cat(v, l)))
  <2> DEFINE b == Cat(w, v)
  <2>1. b \in Seq(T)
    BY <1>7
  <2> HIDE DEF b
  <2>2. Cat(Cat(u, b), l) = Cat(u, Cat(b, l))
    BY <1>1, <1>6, <2>1, Associative
  <2>3. Cat(Cat(w, v), l) = Cat(w, Cat(v, l))
    BY <1>1, <1>6, Associative
  <2>4. QED BY <2>2, <2>3 DEF b
<1> DEFINE c == Cat(v, l)
<1>9. c \in Seq(T) /\ Among(s, u \o (w \o c))
  BY <1>3, <1>7, <1>8 DEF Cat
<1> HIDE DEF c
<1>10. Among(s, u \o c)
  BY <1>4, <1>5, <1>6, <1>9, AmongDrop
<1>11. Cat(Cat(u, v), l) = Cat(u, Cat(v, l))
  BY <1>1, <1>6, Associative
<1>12. Among(s, Cat(u, v) \o l)
  BY <1>10, <1>11 DEF Cat, c
<1>13. QED BY <1>12 DEF Rec, s, e, l

(* The worker executes a line, and prints it if it is not empty.            *)
LEMMA WorkerLineRecovers ==
  ASSUME PipeInv, LoopInv, Recoverable, WorkerLine
  PROVE  LoopInv' /\ Recoverable'
<1> DEFINE T == AllLines
           b == wbuf
           fl == FirstLine(b)
           j == <<fl>>
<1>1. /\ HasLine(b) /\ wbuf' = AfterLine(b)
      /\ UNCHANGED <<commands, first, it, writing, stdinPipe, asks, worker>>
      /\ \/ fl = <<>> /\ stdoutPipe' = stdoutPipe
         \/ fl # <<>> /\ stdoutPipe' = Append(stdoutPipe, fl)
  BY DEF WorkerLine, ringVars
<1>2. /\ b \in Seq(Bytes) /\ stdinPipe \in Seq(Bytes) /\ stdoutPipe \in Seq(T)
      /\ commands \in Seq(Jobs) /\ first \in R!Slots /\ it \in R!Slots \cup {R!NoSlot}
      /\ Queue(writing, it)
  BY PipeShapes DEF AllLines
<1>3. PICK n \in 1 .. Len(b) :
        /\ b[n] = Newline /\ \A i \in 1 .. n - 1 : b[i] # Newline
        /\ fl = SubSeq(b, 1, n - 1) /\ AfterLine(b) = SubSeq(b, n + 1, Len(b))
  BY <1>1, <1>2, FirstNewline
<1> DEFINE a == SubSeq(b, 1, n)
           r == SubSeq(b, n + 1, Len(b))
           y == r \o stdinPipe
           v == LinesOf(y)
<1>4. a \in Seq(Bytes) /\ r \in Seq(Bytes) /\ a \o r = b /\ wbuf' = r
  BY <1>1, <1>2, <1>3, ReadAhead
<1>5. /\ fl \in Seq(Bytes) /\ Len(fl) = n - 1 /\ \A i \in 1 .. Len(fl) : fl[i] # Newline
      /\ a = Append(fl, Newline)
  <2>1. n - 1 \in 0 .. Len(b) /\ n \in 1 .. Len(b) /\ Len(b) \in Nat
    BY <1>2
  <2> DEFINE h == SubSeq(b, 1, n - 1)
  <2>2. h \in Seq(Bytes) /\ Len(h) = n - 1 /\ \A i \in 1 .. n - 1 : h[i] = b[i]
    BY <1>2, <2>1, SubSeqProperties
  <2>3. a \in Seq(Bytes) /\ Len(a) = n /\ \A i \in 1 .. n : a[i] = b[i]
    BY <1>2, <2>1, SubSeqProperties
  <2> HIDE DEF h, a
  <2>4. Newline \in Bytes
    BY TextFacts
  <2> DEFINE k == Append(h, Newline)
  <2>5. /\ k \in Seq(Bytes) /\ Len(k) = n /\ k[n] = Newline
        /\ \A i \in 1 .. n - 1 : k[i] = h[i]
    BY <2>1, <2>2, <2>4, AppendProperties
  <2> HIDE DEF k
  <2>6. ASSUME NEW i \in 1 .. n PROVE a[i] = k[i]
    <3>1. CASE i = n
      BY <1>3, <2>3, <2>5, <3>1
    <3>2. CASE i \in 1 .. n - 1
      BY <2>2, <2>3, <2>5, <3>2
    <3>3. QED BY <2>1, <3>1, <3>2
  <2>7. Len(a) = Len(k)
    BY <2>3, <2>5
  <2>8. a = k
    BY <2>3, <2>5, <2>6, <2>7, SeqEqual
  <2>9. fl = h
    BY <1>3 DEF h
  <2> HIDE DEF fl
  <2>10. QED BY <1>3, <2>1, <2>2, <2>8, <2>9 DEF k
<1>6. PICK e \in Seq(T) : (\A m \in DOMAIN e : e[m] = <<>>) /\ LinesOf(a) = e \o j
  <2> HIDE DEF fl, a, T
  <2>1. \E e \in Seq(Seq(Bytes)) :
          (\A m \in DOMAIN e : e[m] = <<>>) /\ LinesOf(Append(fl, Newline)) = e \o <<fl>>
    BY <1>5, LineAlone
  <2>2. QED BY <1>5, <2>1 DEF T, AllLines
<1> HIDE DEF fl, a, r
<1>7. y \in Seq(Bytes) /\ b \o stdinPipe = a \o y
  <2>1. y \in Seq(Bytes)
    BY <1>2, <1>4
  <2>2. Cat(Cat(a, r), stdinPipe) = Cat(a, Cat(r, stdinPipe))
    BY <1>2, <1>4, Associative
  <2>3. QED BY <1>4, <2>1, <2>2 DEF Cat
<1> HIDE DEF y
<1>8. LinesOf(b \o stdinPipe) = Cat(Cat(e, j), v)
  <2>1. a # <<>> => a[Len(a)] = Newline
    BY <1>5, TextFacts, AppendProperties
  <2>2. LinesOf(a \o y) = LinesOf(a) \o LinesOf(y)
    BY <1>4, <1>7, <2>1, LinesOfConcat
  <2>3. QED BY <1>6, <1>7, <2>2 DEF Cat
<1>9. v \in Seq(T) /\ j \in Seq(T)
  BY <1>5, <1>7, LinesOfType DEF AllLines
<1>10. OnLines' = stdoutPipe' \o v
  BY <1>1, <1>4 DEF OnLines, y
<1> DEFINE o == stdoutPipe
<1>11. OnLines = Cat(o, Cat(Cat(e, j), v))
  BY <1>8 DEF OnLines, Cat
<1>12. fl = <<>> => OnLines' = Cat(o, v)
  BY <1>1, <1>10 DEF Cat
<1> HIDE DEF v, j
<1>13. Cat(e, j) \in Seq(T) /\ Cat(j, v) \in Seq(T)
  BY <1>6, <1>9 DEF Cat
<1>14. fl # <<>> => OnLines' = Cat(o, Cat(j, v))
  <2>1. Append(o, fl) = Cat(o, j)
    BY <1>2, <1>5, AppendIsConcat DEF Cat, j, AllLines
  <2>2. Cat(Cat(o, j), v) = Cat(o, Cat(j, v))
    BY <1>2, <1>9, Associative
  <2>3. QED BY <1>1, <1>10, <2>1, <2>2 DEF Cat
<1>15. LoopInv'
  BY <1>1 DEF LoopInv
<1>16. Recoverable'
  <2>1. SUFFICES ASSUME worker = "up", asks = 0
                 PROVE  Rec(OnLines', writing, it, commands, first)
    BY <1>1, RecoverIs
  <2>2. Rec(OnLines, writing, it, commands, first)
    BY <2>1, RecoverIs
  <2>3. CASE fl = <<>>
    <3> DEFINE w == Cat(e, j)
    <3>1. \A m \in DOMAIN w : w[m] = <<>>
      BY <1>6, <2>3 DEF Cat, j
    <3>2. w \in Seq(T) /\ Rec(Cat(o, Cat(w, v)), writing, it, commands, first)
      BY <1>11, <1>13, <2>2
    <3> HIDE DEF w
    <3>3. Rec(Cat(o, v), writing, it, commands, first)
      BY <1>2, <1>9, <3>1, <3>2, RecDrop
    <3>4. QED BY <1>12, <2>3, <3>3
  <2>4. CASE fl # <<>>
    <3>1. Cat(Cat(e, j), v) = Cat(e, Cat(j, v))
      BY <1>6, <1>9, Associative
    <3> DEFINE c == Cat(j, v)
    <3>2. c \in Seq(T) /\ Rec(Cat(o, Cat(e, c)), writing, it, commands, first)
      BY <1>11, <1>13, <2>2, <3>1
    <3> HIDE DEF c
    <3>3. Rec(Cat(o, c), writing, it, commands, first)
      BY <1>2, <1>6, <3>2, RecDrop
    <3>4. QED BY <1>14, <2>4, <3>3 DEF c
  <2>5. QED BY <2>3, <2>4
<1>17. QED BY <1>15, <1>16

(* A crash, and the next worker: there is more to resend.                   *)
LEMMA CrashRecovers ==
  ASSUME PipeInv, LoopInv, Recoverable, WorkerCrash \/ Restart
  PROVE  LoopInv' /\ Recoverable'
<1>1. UNCHANGED <<commands, first, it, writing>>
  BY DEF WorkerCrash, Restart, ringVars
<1>2. worker' # "up" \/ asks' # 0
  <2>1. WorkerCrash => worker' # "up"
    BY DEF WorkerCrash
  <2>2. Restart => asks' # 0
    BY PipeShapes DEF Restart
  <2>3. QED BY <2>1, <2>2
<1>3. QED BY <1>1, <1>2, RecoverIs DEF LoopInv

(* Before any job, and when nothing happens.                                *)
LEMMA RecoverInit == Init => LoopInv /\ Recoverable
<1> SUFFICES ASSUME Init PROVE LoopInv /\ Recoverable
  OBVIOUS
<1>1. LoopInv
  BY DEF Init, LoopInv, Loop
<1>2. PipeInv /\ commands = <<>> /\ writing = <<>> /\ it = R!NoSlot
  BY PipeInit DEF Init
<1>3. Among(commands, OnLines)
  BY <1>2, AmongEmpty
<1>4. Rec(OnLines, writing, it, commands, first)
  BY <1>2, <1>3, OnLinesType, PipeShapes, RecNone
<1>5. QED BY <1>1, <1>4, RecoverIs

LEMMA RecoverStutter ==
  ASSUME LoopInv, Recoverable, UNCHANGED vars
  PROVE  LoopInv' /\ Recoverable'
<1>1. UNCHANGED <<commands, first, it, writing, stdinPipe, stdoutPipe, asks, worker, wbuf>>
  BY DEF vars, ringVars, workerVars
<1>2. OnLines' = OnLines
  BY <1>1 DEF OnLines
<1>3. QED BY <1>1, <1>2, RecoverIs DEF LoopInv

-----------------------------------------------------------------------------
(* The writes in the queue and the bytes on their way are whole lines.      *)
THEOREM PipeInvariance == Spec => []PipeInv
<1>1. Init => PipeInv
  BY PipeInit
<1>2. PipeInv /\ [Next]_vars => PipeInv'
  BY GiveStep, ByteStep, WriteStep, LineStep, WorkerReadStep, WorkerLineStep,
     WorkerCrashStep, RestartStep, PipeStutter DEF Next
<1>3. QED BY <1>1, <1>2, PTL DEF Spec

(* exec.childproc.cpp:143-157, 227-232: the ring has room for the job whose *)
(* write waits, however long that takes and whatever is resent meanwhile.   *)
THEOREM PipeTyping == Spec => []TypeOK
<1>1. PipeInv => TypeOK
  BY DEF PipeInv
<1>2. QED BY <1>1, PipeInvariance, PTL

(* exec.childproc.cpp:143-157: no line that a worker executes is made of    *)
(* two, for pipes of any size, lines of any length, and any crashes.        *)
THEOREM LinesStayApart == Spec => []NeverMerged
<1>1. PipeInv => NeverMerged
  BY DEF PipeInv
<1>2. QED BY <1>1, PipeInvariance, PTL

(* wright-exec-helper/README.md:18: with the resend loop, the writes that   *)
(* wait and the bytes on their way, every job of the ring and the one in    *)
(* flight will be reported when no crash is left to be dealt with, for      *)
(* pipes and a ring of any size, and whatever has been lost before.         *)
THEOREM PipeRecovers == Spec => []Recoverable
<1>1. Init => RecoverInv
  BY PipeInit, RecoverInit DEF RecoverInv
<1>2. RecoverInv /\ [Next]_vars => RecoverInv'
  <2>1. SUFFICES ASSUME PipeInv, LoopInv, Recoverable, [Next]_vars
                 PROVE  PipeInv' /\ LoopInv' /\ Recoverable'
    BY DEF RecoverInv
  <2>2. PipeInv'
    BY <2>1, GiveStep, ByteStep, WriteStep, LineStep, WorkerReadStep, WorkerLineStep,
       WorkerCrashStep, RestartStep, PipeStutter DEF Next
  <2>3. LoopInv' /\ Recoverable'
    BY <2>1, <2>2, GiveRecovers, ByteRecovers, WriteRecovers, LineRecovers,
       WorkerReadRecovers, WorkerLineRecovers, CrashRecovers, RecoverStutter DEF Next
  <2>4. QED BY <2>2, <2>3
<1>3. RecoverInv => Recoverable
  BY DEF RecoverInv
<1>4. QED BY <1>1, <1>2, <1>3, PTL DEF Spec

=============================================================================
