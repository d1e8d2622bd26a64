-------------------------- MODULE BackChannelProofs --------------------------
(***************************************************************************)
(* Theorems about BackChannel for messages of any length, any number of     *)
(* crashes and reads of any size.                                           *)
(***************************************************************************)
EXTENDS BackChannel, SequenceLemmas

(* What follows an opening brace or a byte of a body is a byte of the same  *)
(* message, and nothing else is; what is written ends with a whole message  *)
(* or a request, and starts inside a message only if the reader is in one.  *)
Framed(bytes, inside) ==
  /\ \A i \in 1 .. Len(bytes) - 1 : bytes[i] \in {"brace", "b"} <=> bytes[i + 1] \in {"b", "0"}
  /\ bytes # <<>> => /\ inside <=> bytes[1] \in {"b", "0"}
                     /\ bytes[Len(bytes)] \in Final
  /\ bytes = <<>> => ~inside

Unread == buffer \o pipe
FrameInv == Framed(Unread, pc = "until")

(* A single read has brought all that is behind the end of a message.       *)
BehindInv == pc = "until" /\ Nul(buffer) # 0 => Len(buffer) - Nul(buffer) < Chunk

ChannelInv ==
  /\ TypeOK /\ FrameInv /\ DecodedInOrder
  /\ ReadAheadBounded /\ BehindInv

-----------------------------------------------------------------------------
(* The search for a NUL finds the first one.                                *)
LEMMA NulFacts ==
  ASSUME NEW S, NEW b \in Seq(S)
  PROVE  /\ Nul(b) = 0 => \A i \in 1 .. Len(b) : b[i] # "0"
         /\ Nul(b) # 0 => /\ Nul(b) \in 1 .. Len(b) /\ b[Nul(b)] = "0"
                          /\ \A i \in 1 .. Nul(b) - 1 : b[i] # "0"
         /\ Nul(b) \in Nat
<1> DEFINE I == {i \in 1 .. Len(b) : b[i] = "0"}
<1>1. Nul(b) = IF I # {} THEN Min(I) ELSE 0
  BY DEF Nul, SelectInSeq
<1>2. CASE I = {}
  BY <1>1, <1>2
<1>3. CASE I # {}
  <2>1. I \subseteq Nat
    OBVIOUS
  <2> HIDE DEF I
  <2>2. \E n \in I : \A m \in I : n <= m
    BY <1>3, <2>1, Least
  <2>3. Min(I) \in I /\ \A m \in I : Min(I) <= m
    BY <2>2 DEF Min
  <2> DEFINE n == Nul(b)
  <2>4. n \in I /\ \A m \in I : n <= m
    BY <1>1, <1>3, <2>3
  <2> HIDE DEF n
  <2>5. n \in 1 .. Len(b) /\ b[n] = "0"
    BY <2>4 DEF I
  <2>6. \A i \in 1 .. n - 1 : b[i] # "0"
    BY <2>4, <2>5 DEF I
  <2>7. n # 0 /\ n \in Nat
    BY <2>5
  <2>8. QED BY <2>5, <2>6, <2>7 DEF n
<1>4. QED BY <1>2, <1>3

-----------------------------------------------------------------------------
(* What some bytes complete.                                                *)
LEMMA CompletedType ==
  ASSUME NEW S, NEW s \in Seq(S)
  PROVE  Completed(s) \in Nat
<1>1. \A j : Copies(s, j) \in Nat
  BY CopiesType
<1>2. QED BY <1>1 DEF Completed

LEMMA CompletedConcat ==
  ASSUME NEW S, NEW s \in Seq(S), NEW t \in Seq(S)
  PROVE  Completed(s \o t) = Completed(s) + Completed(t)
<1>1. \A j : Copies(s \o t, j) = Copies(s, j) + Copies(t, j)
  BY CopiesConcat
<1>2. \A j : Copies(s, j) \in Nat /\ Copies(t, j) \in Nat
  BY CopiesType
<1>3. \A a, b, c, d \in Nat : (a + b) + (c + d) = (a + c) + (b + d)
  OBVIOUS
<1>4. QED BY <1>1, <1>2, <1>3 DEF Completed

LEMMA CompletedPositive ==
  ASSUME NEW S, NEW s \in Seq(S), NEW i \in 1 .. Len(s), s[i] \in Final
  PROVE  Completed(s) >= 1
<1>1. \A j : Copies(s, j) \in Nat
  BY CopiesType
<1>2. Copies(s, s[i]) > 0
  BY CopiesPositive
<1>3. s[i] = "r" \/ s[i] = "0"
  BY DEF Final
<1>4. QED BY <1>1, <1>2, <1>3 DEF Completed

LEMMA CompletedNothing ==
  ASSUME NEW S, NEW s \in Seq(S), \A i \in 1 .. Len(s) : s[i] \notin Final
  PROVE  Completed(s) = 0
<1>1. At(s, "r") = {} /\ At(s, "0") = {}
  BY DEF At, Final
<1>2. Cardinality({}) = 0
  BY FS_EmptySet
<1>3. Copies(s, "r") = 0 /\ Copies(s, "0") = 0
  BY <1>1, <1>2 DEF Copies
<1>4. QED BY <1>3 DEF Completed

(* A whole request or message, or the rest of one.                          *)
Piece(u) ==
  /\ u # <<>> /\ u[Len(u)] \in Final
  /\ \A i \in 1 .. Len(u) - 1 : u[i] \notin Final

LEMMA CompletedPiece ==
  ASSUME NEW S, NEW u \in Seq(S), Piece(u)
  PROVE  Completed(u) = 1
<1> DEFINE n == Len(u)
<1>1. n \in Nat \ {0} /\ u[n] \in Final /\ \A i \in 1 .. n - 1 : u[i] \notin Final
  BY DEF Piece
<1>2. \A j \in Final : At(u, j) = IF u[n] = j THEN {n} ELSE {}
  BY <1>1 DEF At
<1>3. Cardinality({n}) = 1 /\ Cardinality({}) = 0
  BY FS_Singleton, FS_EmptySet
<1>4. \A j \in Final : Copies(u, j) = IF u[n] = j THEN 1 ELSE 0
  BY <1>2, <1>3 DEF Copies
<1>5. QED BY <1>1, <1>4 DEF Completed, Final

(* The beginnings of two sequences joined.                                  *)
LEMMA Beginnings ==
  ASSUME NEW S, NEW u \in Seq(S), NEW v \in Seq(S)
  PROVE  /\ \A i \in 1 .. Len(u) : SubSeq(u \o v, 1, i) = SubSeq(u, 1, i)
         /\ \A i \in 1 .. Len(v) : SubSeq(u \o v, 1, Len(u) + i) = u \o SubSeq(v, 1, i)
<1> DEFINE w == u \o v
<1>1. /\ w \in Seq(S) /\ Len(w) = Len(u) + Len(v) /\ Len(u) \in Nat /\ Len(v) \in Nat
      /\ \A i \in 1 .. Len(u) : w[i] = u[i]
      /\ \A i \in 1 .. Len(v) : w[Len(u) + i] = v[i]
  OBVIOUS
<1> HIDE DEF w
<1>2. ASSUME NEW i \in 1 .. Len(u) PROVE SubSeq(w, 1, i) = SubSeq(u, 1, i)
  <2>1. /\ SubSeq(w, 1, i) \in Seq(S) /\ SubSeq(u, 1, i) \in Seq(S)
        /\ Len(SubSeq(w, 1, i)) = i /\ Len(SubSeq(u, 1, i)) = i
    BY <1>1
  <2>2. \A k \in 1 .. i : SubSeq(w, 1, i)[k] = SubSeq(u, 1, i)[k]
    BY <1>1
  <2>3. QED BY <2>1, <2>2, SeqEqual
<1>3. ASSUME NEW i \in 1 .. Len(v) PROVE SubSeq(w, 1, Len(u) + i) = u \o SubSeq(v, 1, i)
  <2> DEFINE x == SubSeq(v, 1, i)
             y == SubSeq(w, 1, Len(u) + i)
  <2>1. /\ x \in Seq(S) /\ Len(x) = i /\ \A k \in 1 .. i : x[k] = v[k]
    OBVIOUS
  <2>2. /\ y \in Seq(S) /\ Len(y) = Len(u) + i
        /\ \A k \in 1 .. Len(u) + i : y[k] = w[k]
    BY <1>1
  <2> HIDE DEF x, y
  <2>3. u \o x \in Seq(S) /\ Len(u \o x) = Len(u) + i
    BY <2>1, SMTT(30)
  <2>4. ASSUME NEW k \in 1 .. Len(u) + i PROVE (u \o x)[k] = w[k]
    <3>1. CASE k <= Len(u)
      BY <1>1, <2>1, <3>1
    <3>2. CASE ~(k <= Len(u))
      <4>1. k - Len(u) \in 1 .. i /\ Len(u) + (k - Len(u)) = k
        BY <1>1, <3>2
      <4>2. (u \o x)[k] = x[k - Len(u)]
        BY <1>1, <2>1, <3>2, <4>1
      <4>3. w[k] = v[k - Len(u)]
        BY <1>1, <4>1
      <4>4. QED BY <2>1, <4>1, <4>2, <4>3
    <3>3. QED BY <3>1, <3>2
  <2>5. y = u \o x
    BY <2>2, <2>3, <2>4, SeqEqual
  <2>6. QED BY <2>5 DEF x, y
<1>4. QED BY <1>2, <1>3 DEF w

(* What a prefix is, element by element.                                    *)
LEMMA PrefixFacts ==
  ASSUME NEW S, NEW s \in Seq(S), NEW t \in Seq(S)
  PROVE  IsPrefix(s, t) <=> Len(s) <= Len(t) /\ \A i \in 1 .. Len(s) : s[i] = t[i]
<1>1. /\ SubSeq(s, 1, Len(s)) \in Seq(S) /\ Len(SubSeq(s, 1, Len(s))) = Len(s)
      /\ \A i \in 1 .. Len(s) : SubSeq(s, 1, Len(s))[i] = s[i]
  OBVIOUS
<1>2. Len(s) <= Len(t) =>
        /\ SubSeq(t, 1, Len(s)) \in Seq(S) /\ Len(SubSeq(t, 1, Len(s))) = Len(s)
        /\ \A i \in 1 .. Len(s) : SubSeq(t, 1, Len(s))[i] = t[i]
  OBVIOUS
<1>3. ASSUME Len(s) <= Len(t), \A i \in 1 .. Len(s) : s[i] = t[i]
      PROVE  SubSeq(s, 1, Len(s)) = SubSeq(t, 1, Len(s))
  BY <1>1, <1>2, <1>3, SeqEqual
<1>4. QED BY <1>1, <1>2, <1>3 DEF IsPrefix

Meanings == {"resend", "log"}

(* A whole request or message is written.                                   *)
LEMMA EncodeWritten ==
  ASSUME NEW S, NEW b \in Seq(S), NEW u \in Seq(S),
         NEW h \in Seq(Meanings), NEW t \in Seq(Meanings),
         Encode(b, h, t), Piece(u)
  PROVE  Encode(b \o u, h, Append(t, Meaning(u[Len(u)])))
<1> DEFINE w == b \o u
           x == Meaning(u[Len(u)])
           v == Append(t, x)
           l == Len(h)
<1>1. /\ w \in Seq(S) /\ Len(w) = Len(b) + Len(u)
      /\ Len(u) \in Nat \ {0} /\ Len(b) \in Nat /\ l \in Nat
      /\ \A i \in 1 .. Len(b) : w[i] = b[i]
      /\ \A i \in 1 .. Len(u) : w[Len(b) + i] = u[i]
  BY DEF Piece
<1>2. x \in Meanings
  BY DEF Meaning, Meanings
<1>3. /\ v \in Seq(Meanings) /\ Len(v) = Len(t) + 1 /\ v[Len(t) + 1] = x
      /\ \A i \in 1 .. Len(t) : v[i] = t[i]
  BY <1>2
<1>4. Completed(b) \in Nat /\ Completed(w) = Completed(b) + 1
  BY CompletedType, CompletedConcat, CompletedPiece
<1>5. Len(t) = l + Completed(b) /\ l <= Len(t) /\ \A i \in 1 .. l : h[i] = t[i]
  BY PrefixFacts DEF Encode
<1>6. Len(v) = l + Completed(w)
  BY <1>1, <1>3, <1>4, <1>5
<1>7. IsPrefix(h, v)
  <2>1. l <= Len(v) /\ \A i \in 1 .. l : h[i] = v[i]
    BY <1>1, <1>3, <1>5
  <2>2. QED BY <1>3, <2>1, PrefixFacts
<1>8. ASSUME NEW i \in 1 .. Len(w), w[i] \in Final
      PROVE  v[l + Completed(SubSeq(w, 1, i))] = Meaning(w[i])
  <2>1. CASE i <= Len(b)
    <3> DEFINE y == SubSeq(b, 1, i)
               z == SubSeq(b, i + 1, Len(b))
    <3>1. i \in 1 .. Len(b) /\ w[i] = b[i]
      BY <1>1, <2>1
    <3>2. SubSeq(w, 1, i) = y
      BY <3>1, Beginnings
    <3>3. y \in Seq(S) /\ z \in Seq(S) /\ y \o z = b
      BY <3>1, ReadAhead
    <3>4. i \in 1 .. Len(y) /\ y[i] \in Final
      BY <1>8, <3>1
    <3> HIDE DEF y, z
    <3>5. Completed(y) \in Nat /\ Completed(z) \in Nat /\ Completed(b) = Completed(y) + Completed(z)
      BY <3>3, CompletedType, CompletedConcat
    <3>6. Completed(y) >= 1
      BY <3>3, <3>4, CompletedPositive
    <3>7. l + Completed(y) \in 1 .. Len(t)
      BY <1>1, <1>5, <3>5, <3>6
    <3>8. t[l + Completed(y)] = Meaning(b[i])
      BY <1>8, <3>1 DEF Encode, y
    <3>9. QED BY <1>3, <3>1, <3>2, <3>7, <3>8
  <2>2. CASE ~(i <= Len(b))
    <3>1. i - Len(b) \in 1 .. Len(u) /\ Len(b) + (i - Len(b)) = i
      BY <1>1, <2>2
    <3>2. u[i - Len(b)] \in Final /\ w[i] = u[i - Len(b)]
      BY <1>1, <1>8, <3>1
    <3>3. i - Len(b) = Len(u)
      BY <1>1, <3>1, <3>2 DEF Piece
    <3>4. SubSeq(w, 1, i) = w
      <4>1. i = Len(w)
        BY <1>1, <3>1, <3>3
      <4>2. SubSeq(w, 1, Len(w)) = w
        BY <1>1
      <4>3. QED BY <4>1, <4>2
    <3>5. l + Completed(w) = Len(t) + 1
      BY <1>1, <1>4, <1>5
    <3>6. QED BY <1>3, <3>2, <3>3, <3>4, <3>5
  <2>3. QED BY <2>1, <2>2
<1>9. DOMAIN w = 1 .. Len(w)
  BY <1>1
<1> HIDE DEF w, v, x
<1>10. Encode(w, h, v)
  BY <1>6, <1>7, <1>8, <1>9 DEF Encode
<1>11. QED BY <1>10 DEF w, v, x

(* Bytes at the front are passed over, or acted on; k is what they complete. *)
LEMMA EncodeRead ==
  ASSUME NEW S, NEW u \in Seq(S), NEW v \in Seq(S),
         NEW h \in Seq(Meanings), NEW g \in Seq(Meanings), NEW t \in Seq(Meanings),
         Encode(u \o v, h, t), IsPrefix(g, t), Len(g) = Len(h) + Completed(u)
  PROVE  Encode(v, g, t)
<1> DEFINE w == u \o v
<1>1. /\ w \in Seq(S) /\ Len(w) = Len(u) + Len(v)
      /\ Len(u) \in Nat /\ Len(v) \in Nat /\ Len(h) \in Nat
      /\ \A i \in 1 .. Len(v) : w[Len(u) + i] = v[i]
  OBVIOUS
<1>2. Completed(u) \in Nat /\ Completed(v) \in Nat /\ Completed(w) = Completed(u) + Completed(v)
  BY CompletedType, CompletedConcat
<1>3. Len(t) = Len(h) + Completed(w)
  BY DEF Encode
<1>4. Len(t) = Len(g) + Completed(v)
  BY <1>1, <1>2, <1>3
<1>5. ASSUME NEW i \in 1 .. Len(v), v[i] \in Final
      PROVE  t[Len(g) + Completed(SubSeq(v, 1, i))] = Meaning(v[i])
  <2> DEFINE x == SubSeq(v, 1, i)
  <2>1. x \in Seq(S)
    BY ReadAhead
  <2>2. SubSeq(w, 1, Len(u) + i) = u \o x
    BY Beginnings, SMTT(30)
  <2> HIDE DEF x
  <2>3. Completed(x) \in Nat /\ Completed(u \o x) = Completed(u) + Completed(x)
    BY <2>1, CompletedType, CompletedConcat
  <2>4. Len(u) + i \in DOMAIN w /\ w[Len(u) + i] = v[i]
    BY <1>1
  <2>5. t[Len(h) + Completed(SubSeq(w, 1, Len(u) + i))] = Meaning(v[i])
    BY <1>5, <2>4 DEF Encode
  <2>6. Len(h) + Completed(u \o x) = Len(g) + Completed(x)
    BY <1>1, <1>2, <2>3
  <2>7. QED BY <2>2, <2>5, <2>6 DEF x
<1>6. DOMAIN v = 1 .. Len(v)
  OBVIOUS
<1>7. QED BY <1>4, <1>5, <1>6 DEF Encode

LEMMA EncodeSkipped ==
  ASSUME NEW S, NEW u \in Seq(S), NEW v \in Seq(S),
         NEW h \in Seq(Meanings), NEW t \in Seq(Meanings),
         Encode(u \o v, h, t), \A i \in 1 .. Len(u) : u[i] \notin Final
  PROVE  Encode(v, h, t)
<1>1. Completed(u) = 0
  BY CompletedNothing
<1>2. IsPrefix(h, t) /\ Len(h) = Len(h) + Completed(u)
  BY <1>1 DEF Encode
<1>3. QED BY <1>2, EncodeRead

LEMMA EncodeTaken ==
  ASSUME NEW S, NEW u \in Seq(S), NEW v \in Seq(S),
         NEW h \in Seq(Meanings), NEW t \in Seq(Meanings),
         Encode(u \o v, h, t), Piece(u)
  PROVE  Encode(v, Append(h, Meaning(u[Len(u)])), t)
<1> DEFINE w == u \o v
           n == Len(u)
           x == Meaning(u[n])
           g == Append(h, x)
<1>1. /\ w \in Seq(S) /\ n \in 1 .. Len(w) /\ w[n] = u[n] /\ n \in 1 .. n
      /\ Len(h) \in Nat /\ DOMAIN w = 1 .. Len(w) /\ u[n] \in Final
  BY DEF Piece
<1>2. x \in Meanings
  BY DEF Meaning, Meanings
<1>3. /\ g \in Seq(Meanings) /\ Len(g) = Len(h) + 1 /\ g[Len(h) + 1] = x
      /\ \A i \in 1 .. Len(h) : g[i] = h[i]
  BY <1>2
<1>4. Completed(u) = 1
  BY CompletedPiece
<1>5. SubSeq(w, 1, n) = u
  <2>1. SubSeq(w, 1, n) = SubSeq(u, 1, n)
    BY <1>1, Beginnings
  <2>2. SubSeq(u, 1, n) = u
    OBVIOUS
  <2>3. QED BY <2>1, <2>2
<1>6. t[Len(h) + 1] = x
  BY <1>1, <1>4, <1>5 DEF Encode
<1>7. Len(h) + 1 <= Len(t)
  <2>1. Completed(v) \in Nat /\ Completed(w) = 1 + Completed(v)
    BY <1>4, CompletedType, CompletedConcat
  <2>2. Len(t) = Len(h) + Completed(w)
    BY DEF Encode
  <2>3. QED BY <1>1, <2>1, <2>2
<1>8. IsPrefix(g, t)
  <2>1. \A i \in 1 .. Len(h) : h[i] = t[i]
    BY PrefixFacts DEF Encode
  <2>2. Len(g) <= Len(t) /\ \A i \in 1 .. Len(g) : g[i] = t[i]
    BY <1>1, <1>3, <1>6, <1>7, <2>1
  <2>3. QED BY <1>3, <2>2, PrefixFacts
<1> HIDE DEF g
<1>9. Encode(v, g, t)
  BY <1>3, <1>4, <1>8, EncodeRead
<1>10. QED BY <1>9 DEF g

-----------------------------------------------------------------------------
(* A sequence between two elements.                                         *)
LEMMA Bracketed ==
  ASSUME NEW S, NEW a \in S, NEW x \in Seq(S), NEW c \in S
  PROVE  LET u == <<a>> \o x \o <<c>>
         IN /\ u \in Seq(S) /\ Len(u) = Len(x) + 2
            /\ u[1] = a /\ u[Len(x) + 2] = c
            /\ \A i \in 1 .. Len(x) : u[i + 1] = x[i]
<1> DEFINE v == <<a>> \o x
           u == v \o <<c>>
           n == Len(x)
<1>1. /\ n \in Nat /\ <<a>> \in Seq(S) /\ <<c>> \in Seq(S)
      /\ Len(<<a>>) = 1 /\ Len(<<c>>) = 1 /\ <<a>>[1] = a /\ <<c>>[1] = c
  OBVIOUS
<1>2. /\ v \in Seq(S) /\ Len(v) = 1 + n
      /\ \A i \in 1 .. 1 + n : v[i] = IF i <= 1 THEN a ELSE x[i - 1]
  <2>1. /\ v \in Seq(S) /\ Len(v) = Len(<<a>>) + n
        /\ \A i \in 1 .. Len(<<a>>) + n :
             v[i] = IF i <= Len(<<a>>) THEN <<a>>[i] ELSE x[i - Len(<<a>>)]
    BY <1>1, ConcatProperties
  <2> HIDE DEF v
  <2>2. ASSUME NEW i \in 1 .. 1 + n PROVE v[i] = IF i <= 1 THEN a ELSE x[i - 1]
    BY <1>1, <2>1
  <2>3. QED BY <1>1, <2>1, <2>2
<1> HIDE DEF v
<1>3. /\ u \in Seq(S) /\ Len(u) = n + 2
      /\ \A i \in 1 .. n + 2 : u[i] = IF i <= 1 + n THEN v[i] ELSE c
  <2>1. /\ u \in Seq(S) /\ Len(u) = Len(v) + Len(<<c>>)
        /\ \A i \in 1 .. Len(v) + Len(<<c>>) :
             u[i] = IF i <= Len(v) THEN v[i] ELSE <<c>>[i - Len(v)]
    BY <1>1, <1>2, ConcatProperties
  <2> HIDE DEF u
  <2>2. ASSUME NEW i \in 1 .. n + 2 PROVE u[i] = IF i <= 1 + n THEN v[i] ELSE c
    BY <1>1, <1>2, <2>1
  <2>3. QED BY <1>1, <1>2, <2>1, <2>2
<1> HIDE DEF u
<1>4. u[1] = a /\ u[n + 2] = c /\ \A i \in 1 .. n : u[i + 1] = x[i]
  BY <1>1, <1>2, <1>3
<1>5. QED BY <1>3, <1>4 DEF u, v

(* The bytes of a message.                                                  *)
LEMMA MessageBytes ==
  ASSUME NEW m \in {"started", "errored"}
  PROVE  /\ Message(m) \in Seq(BytesSent) /\ Piece(Message(m))
         /\ Message(m)[Len(Message(m))] = "0" /\ Framed(Message(m), FALSE)
<1> DEFINE n == Bodies[m]
           x == [i \in 1 .. n |-> "b"]
           u == Message(m)
<1>1. n \in Nat
  BY BodiesAssumption
<1>2. /\ x \in Seq(BytesSent) /\ Len(x) = n /\ \A i \in 1 .. n : x[i] = "b"
  <2> HIDE DEF n
  <2>1. x \in [1 .. n -> BytesSent] /\ \A i \in 1 .. n : x[i] = "b"
    BY DEF BytesSent
  <2> HIDE DEF x
  <2>2. x \in Seq(BytesSent) /\ Len(x) = n
    BY <1>1, <2>1
  <2>3. QED BY <2>1, <2>2
<1>3. u = <<"brace">> \o x \o <<"0">>
  BY DEF Message
<1>4. "brace" \in BytesSent /\ "0" \in BytesSent
  BY DEF BytesSent
<1> HIDE DEF n, x, u
<1>5. /\ u \in Seq(BytesSent) /\ Len(u) = n + 2 /\ u[1] = "brace" /\ u[n + 2] = "0"
      /\ \A i \in 1 .. n : u[i + 1] = "b"
  BY <1>2, <1>3, <1>4, Bracketed
<1>6. \A i \in 2 .. n + 1 : u[i] = "b"
  <2>1. ASSUME NEW i \in 2 .. n + 1 PROVE u[i] = "b"
    <3>1. i - 1 \in 1 .. n /\ (i - 1) + 1 = i
      BY <1>1
    <3>2. QED BY <1>5, <3>1
  <2>2. QED BY <2>1
<1>7. u # <<>>
  BY <1>1, <1>5
<1>8. \A i \in 1 .. n + 1 : u[i] \in {"brace", "b"} /\ u[i + 1] \in {"b", "0"}
  BY <1>1, <1>5, <1>6
<1>9. Piece(u)
  <2>1. u[Len(u)] \in Final
    BY <1>5 DEF Final
  <2>2. ASSUME NEW i \in 1 .. Len(u) - 1 PROVE u[i] \notin Final
    <3>1. i \in 1 .. n + 1
      BY <1>1, <1>5
    <3>2. QED BY <1>8, <3>1 DEF Final
  <2>3. QED BY <1>7, <2>1, <2>2 DEF Piece
<1>10. Framed(u, FALSE)
  <2>1. ASSUME NEW i \in 1 .. Len(u) - 1
        PROVE  u[i] \in {"brace", "b"} /\ u[i + 1] \in {"b", "0"}
    <3>1. i \in 1 .. n + 1
      BY <1>1, <1>5
    <3>2. QED BY <1>8, <3>1
  <2>2. u[1] \notin {"b", "0"} /\ u[Len(u)] \in Final
    BY <1>5 DEF Final
  <2>3. QED BY <1>7, <2>1, <2>2 DEF Framed
<1>11. QED BY <1>5, <1>9, <1>10 DEF u

(* What is written comes behind whole messages and requests.                *)
LEMMA FramedJoin ==
  ASSUME NEW S, NEW b \in Seq(S), NEW u \in Seq(S), NEW inside \in BOOLEAN,
         Framed(b, inside), Framed(u, FALSE)
  PROVE  Framed(b \o u, inside)
<1> DEFINE w == b \o u
           l == Len(b)
           n == Len(u)
<1>1. /\ l \in Nat /\ n \in Nat /\ w \in Seq(S) /\ Len(w) = l + n
      /\ \A i \in 1 .. l : w[i] = b[i]
      /\ \A i \in 1 .. n : w[l + i] = u[i]
      /\ b = <<>> <=> l = 0
      /\ u = <<>> <=> n = 0
      /\ w = <<>> <=> l = 0 /\ n = 0
  OBVIOUS
<1> HIDE DEF w
<1>2. /\ l > 0 => /\ inside <=> b[1] \in {"b", "0"}
                  /\ b[l] \in Final
      /\ l = 0 => ~inside
      /\ n > 0 => u[1] \notin {"b", "0"} /\ u[n] \in Final
  <2>1. (l > 0 => b # <<>>) /\ (l = 0 => b = <<>>) /\ (n > 0 => u # <<>>)
    BY <1>1
  <2>2. b # <<>> => (inside <=> b[1] \in {"b", "0"}) /\ b[Len(b)] \in Final
    BY DEF Framed
  <2>3. b = <<>> => ~inside
    BY DEF Framed
  <2>4. u # <<>> => u[1] \notin {"b", "0"} /\ u[Len(u)] \in Final
    BY DEF Framed
  <2>5. QED BY <2>1, <2>2, <2>3, <2>4
<1>3. ASSUME NEW i \in 1 .. Len(w) - 1
      PROVE  w[i] \in {"brace", "b"} <=> w[i + 1] \in {"b", "0"}
  <2>1. CASE i < l
    <3>1. i \in 1 .. l - 1 /\ w[i] = b[i] /\ w[i + 1] = b[i + 1]
      BY <1>1, <2>1
    <3>2. QED BY <3>1 DEF Framed
  <2>2. CASE i = l
    <3>1. l \in 1 .. l /\ 1 \in 1 .. n
      BY <1>1, <2>2
    <3>2. w[i] = b[l] /\ w[i + 1] = u[1]
      BY <1>1, <2>2, <3>1
    <3>3. b[l] \in Final /\ u[1] \notin {"b", "0"}
      BY <1>1, <1>2, <3>1
    <3>4. QED BY <3>2, <3>3 DEF Final
  <2>3. CASE i > l
    <3>1. /\ i - l \in 1 .. n - 1 /\ i - l \in 1 .. n /\ (i - l) + 1 \in 1 .. n
          /\ l + (i - l) = i /\ l + ((i - l) + 1) = i + 1
      BY <1>1, <2>3
    <3>2. w[l + (i - l)] = u[i - l] /\ w[l + ((i - l) + 1)] = u[(i - l) + 1]
      BY <1>1, <3>1
    <3>3. w[i] = u[i - l] /\ w[i + 1] = u[(i - l) + 1]
      BY <3>1, <3>2
    <3>4. QED BY <3>1, <3>3 DEF Framed
  <2>4. QED BY <1>1, <2>1, <2>2, <2>3
<1>4. ASSUME w # <<>>
      PROVE  (inside <=> w[1] \in {"b", "0"}) /\ w[Len(w)] \in Final
  <2>1. w[1] = IF l > 0 THEN b[1] ELSE u[1]
    BY <1>1, <1>4
  <2>2. w[Len(w)] = IF n > 0 THEN u[n] ELSE b[l]
    BY <1>1, <1>4
  <2>3. l > 0 \/ n > 0
    BY <1>1, <1>4
  <2>4. QED BY <1>1, <1>2, <2>1, <2>2, <2>3
<1>5. w = <<>> => ~inside
  BY <1>1, <1>2
<1>6. Framed(w, inside)
  BY <1>3, <1>4, <1>5 DEF Framed
<1>7. QED BY <1>6 DEF w

(* Outside messages the next byte is a request or a brace.                  *)
LEMMA FramedTail ==
  ASSUME NEW s \in Seq(BytesSent), s # <<>>, Framed(s, FALSE)
  PROVE  Head(s) \in {"brace", "r"} /\ Framed(Tail(s), Head(s) = "brace")
<1> DEFINE t == Tail(s)
           n == Len(s)
<1>1. /\ n \in Nat \ {0} /\ Head(s) = s[1] /\ t \in Seq(BytesSent) /\ Len(t) = n - 1
      /\ \A i \in 1 .. n - 1 : t[i] = s[i + 1]
      /\ t = <<>> <=> n = 1
  <2>1. n \in Nat \ {0} /\ Head(s) = s[1]
    OBVIOUS
  <2>2. /\ t \in Seq(BytesSent) /\ Len(t) = n - 1
        /\ \A i \in 1 .. n - 1 : t[i] = s[i + 1]
    BY HeadTailProperties
  <2>3. t = <<>> <=> Len(t) = 0
    BY <2>2, EmptySeq
  <2>4. QED BY <2>1, <2>2, <2>3
<1> HIDE DEF t
<1>2. s[1] \in {"brace", "r"}
  <2>1. s[1] \in BytesSent
    BY <1>1
  <2>2. s[1] \notin {"b", "0"}
    BY DEF Framed
  <2>3. QED BY <2>1, <2>2 DEF BytesSent
<1>3. \A i \in 1 .. n - 1 : s[i] \in {"brace", "b"} <=> s[i + 1] \in {"b", "0"}
  BY DEF Framed
<1>4. s[n] \in Final
  BY DEF Framed
<1>5. \A i \in 1 .. (n - 1) - 1 : t[i] \in {"brace", "b"} <=> t[i + 1] \in {"b", "0"}
  <2>1. ASSUME NEW i \in 1 .. (n - 1) - 1
        PROVE  t[i] \in {"brace", "b"} <=> t[i + 1] \in {"b", "0"}
    <3>1. i \in 1 .. n - 1 /\ i + 1 \in 1 .. n - 1
      BY <1>1
    <3>2. t[i] = s[i + 1] /\ t[i + 1] = s[(i + 1) + 1]
      BY <1>1, <3>1
    <3>3. QED BY <1>3, <3>1, <3>2
  <2>2. QED BY <2>1
<1>6. CASE n = 1
  <2>1. t = <<>> /\ Len(t) = 0 /\ Head(s) # "brace"
    BY <1>1, <1>4, <1>6 DEF Final
  <2>2. Framed(t, FALSE)
    BY <2>1 DEF Framed
  <2>3. QED BY <1>1, <1>2, <2>1, <2>2 DEF t
<1>7. CASE n # 1
  <2>1. 1 \in 1 .. n - 1 /\ n - 1 \in 1 .. n - 1 /\ (n - 1) + 1 = n
    BY <1>1, <1>7
  <2>2. t[1] = s[1 + 1] /\ t[n - 1] = s[n]
    BY <1>1, <2>1
  <2>3. s[1] = "brace" <=> t[1] \in {"b", "0"}
    BY <1>2, <1>3, <2>1, <2>2
  <2>4. Framed(t, s[1] = "brace")
    BY <1>1, <1>4, <1>5, <1>7, <2>2, <2>3 DEF Framed
  <2>5. QED BY <1>1, <1>2, <2>4 DEF t
<1>8. QED BY <1>6, <1>7

(* Inside one, all there is up to the first NUL is the rest of it.          *)
LEMMA FramedRest ==
  ASSUME NEW u \in Seq(BytesSent), NEW v \in Seq(BytesSent), Framed(u \o v, TRUE),
         u # <<>>, u[Len(u)] = "0", \A i \in 1 .. Len(u) - 1 : u[i] # "0"
  PROVE  Piece(u) /\ Framed(v, FALSE)
<1> DEFINE w == u \o v
           l == Len(u)
           n == Len(v)
<1>1. /\ l \in Nat \ {0} /\ n \in Nat /\ w \in Seq(BytesSent) /\ Len(w) = l + n
      /\ \A i \in 1 .. l : w[i] = u[i]
      /\ \A i \in 1 .. n : w[l + i] = v[i]
      /\ v = <<>> <=> n = 0
      /\ w # <<>>
  OBVIOUS
<1>2. /\ \A i \in 1 .. Len(w) - 1 : w[i] \in {"brace", "b"} <=> w[i + 1] \in {"b", "0"}
      /\ w[1] \in {"b", "0"} /\ w[Len(w)] \in Final
  BY <1>1 DEF Framed
<1> HIDE DEF w
<1> DEFINE Odd == {i \in 1 .. l - 1 : u[i] # "b"}
<1>3. Odd = {}
  <2>1. SUFFICES ASSUME Odd # {} PROVE FALSE
    OBVIOUS
  <2>2. Odd \subseteq Nat
    BY <1>1
  <2> HIDE DEF Odd
  <2>3. PICK i \in Odd : \A k \in Odd : i <= k
    BY <2>1, <2>2, Least
  <2>4. i \in 1 .. l - 1 /\ u[i] # "b" /\ u[i] # "0"
    BY <2>3 DEF Odd
  <2>5. CASE i = 1
    BY <1>1, <1>2, <2>4, <2>5
  <2>6. CASE i # 1
    <3>1. i - 1 \in 1 .. l - 1 /\ i - 1 \in 1 .. l /\ i \in 1 .. l /\ (i - 1) + 1 = i
      BY <1>1, <2>4, <2>6
    <3>2. i - 1 \notin Odd
      BY <2>3, <2>4
    <3>3. u[i - 1] = "b"
      BY <3>1, <3>2 DEF Odd
    <3>4. i - 1 \in 1 .. Len(w) - 1 /\ w[i - 1] = "b" /\ w[i] = u[i]
      BY <1>1, <3>1, <3>3
    <3>5. w[i] \in {"b", "0"}
      BY <1>2, <3>1, <3>4
    <3>6. QED BY <2>4, <3>4, <3>5
  <2>7. QED BY <2>5, <2>6
<1>4. \A i \in 1 .. l - 1 : u[i] = "b"
  BY <1>3
<1> HIDE DEF Odd
<1>5. Piece(u)
  BY <1>1, <1>4 DEF Piece, Final
<1>6. \A i \in 1 .. n - 1 : v[i] \in {"brace", "b"} <=> v[i + 1] \in {"b", "0"}
  <2>1. ASSUME NEW i \in 1 .. n - 1
        PROVE  v[i] \in {"brace", "b"} <=> v[i + 1] \in {"b", "0"}
    <3>1. /\ i \in 1 .. n /\ i + 1 \in 1 .. n /\ l + i \in 1 .. Len(w) - 1
          /\ l + (i + 1) = (l + i) + 1
      BY <1>1
    <3>2. w[l + i] = v[i] /\ w[(l + i) + 1] = v[i + 1]
      BY <1>1, <3>1
    <3>3. QED BY <1>2, <3>1, <3>2
  <2>2. QED BY <2>1
<1>7. ASSUME n # 0 PROVE v[1] \notin {"b", "0"} /\ v[n] \in Final
  <2>1. 1 \in 1 .. n /\ n \in 1 .. n /\ l \in 1 .. Len(w) - 1 /\ l \in 1 .. l
    BY <1>1, <1>7
  <2>2. w[l] = "0" /\ w[l + 1] = v[1] /\ w[Len(w)] = v[n]
    BY <1>1, <2>1
  <2>3. QED BY <1>2, <2>1, <2>2
<1>8. Framed(v, FALSE)
  BY <1>1, <1>6, <1>7 DEF Framed
<1>9. QED BY <1>5, <1>8

-----------------------------------------------------------------------------
(* Nothing is written before the supervisor has started.                    *)
LEMMA ChannelInit == Init => ChannelInv
<1> SUFFICES ASSUME Init PROVE ChannelInv
  OBVIOUS
<1>1. /\ sup = "fork" /\ crashes = 0 /\ logq = <<>>
      /\ pipe = <<>> /\ buffer = <<>> /\ pc = "one"
      /\ sent = <<>> /\ handled = <<>>
  BY DEF Init
<1>2. TypeOK
  BY <1>1, ChannelCrashesAssumption DEF TypeOK
<1>3. Unread = <<>>
  BY <1>1 DEF Unread
<1>4. FrameInv
  BY <1>1, <1>3 DEF FrameInv, Framed
<1>5. DecodedInOrder
  <2>1. Completed(<<>>) = 0
    BY CopiesEmpty DEF Completed
  <2>2. <<>> \in Seq(Meanings) /\ Len(<<>>) = 0 /\ DOMAIN <<>> = {}
    OBVIOUS
  <2>3. IsPrefix(<<>>, <<>>)
    <3>1. \A s \in Seq(Meanings) : IsPrefix(s, s)
      BY PrefixFacts
    <3>2. QED BY <2>2, <3>1
  <2>4. Encode(<<>>, <<>>, <<>>)
    BY <2>1, <2>2, <2>3 DEF Encode
  <2>5. QED BY <1>1, <1>3, <2>4 DEF DecodedInOrder, Unread
<1>6. ReadAheadBounded /\ BehindInv
  BY <1>1, ChunkAssumption DEF ReadAheadBounded, BehindInv
<1>7. QED BY <1>2, <1>4, <1>5, <1>6 DEF ChannelInv

(* What the writers and the reader share.                                   *)
LEMMA Shapes ==
  ASSUME TypeOK
  PROVE  /\ pipe \in Seq(BytesSent) /\ buffer \in Seq(BytesSent)
         /\ Unread \in Seq(BytesSent)
         /\ sent \in Seq(Meanings) /\ handled \in Seq(Meanings)
         /\ pc \in {"one", "until"}
BY DEF TypeOK, Unread, Meanings

(* Somebody writes a whole message or request.                              *)
LEMMA Written ==
  ASSUME ChannelInv, NEW u \in Seq(BytesSent), Piece(u), Framed(u, FALSE),
         pipe' = pipe \o u, sent' = Append(sent, Meaning(u[Len(u)])), UNCHANGED readVars
  PROVE  /\ pipe' \in Seq(BytesSent) /\ sent' \in Seq({"resend", "log"})
         /\ FrameInv' /\ DecodedInOrder' /\ ReadAheadBounded' /\ BehindInv'
<1>1. /\ TypeOK /\ Framed(Unread, pc = "until") /\ Encode(Unread, handled, sent)
      /\ ReadAheadBounded /\ BehindInv
  BY DEF ChannelInv, FrameInv, DecodedInOrder, Unread
<1>2. /\ pipe \in Seq(BytesSent) /\ buffer \in Seq(BytesSent)
      /\ Unread \in Seq(BytesSent)
      /\ sent \in Seq(Meanings) /\ handled \in Seq(Meanings)
  BY <1>1, Shapes
<1>3. buffer' = buffer /\ pc' = pc /\ handled' = handled
  BY DEF readVars
<1>4. pipe' \in Seq(BytesSent)
  BY <1>2
<1>5. sent' \in Seq(Meanings)
  <2>1. Meaning(u[Len(u)]) \in Meanings
    BY DEF Meaning, Meanings
  <2>2. QED BY <1>2, <2>1
<1>6. Unread' = Unread \o u
  <2>1. Cat(Cat(buffer, pipe), u) = Cat(buffer, Cat(pipe, u))
    BY <1>2, Associative
  <2>2. QED BY <1>3, <2>1 DEF Unread, Cat
<1>7. Framed(Unread \o u, pc = "until")
  BY <1>1, <1>2, FramedJoin
<1>8. Encode(Unread \o u, handled, Append(sent, Meaning(u[Len(u)])))
  BY <1>1, <1>2, EncodeWritten
<1>9. FrameInv'
  BY <1>3, <1>6, <1>7 DEF FrameInv
<1>10. DecodedInOrder'
  BY <1>3, <1>6, <1>8 DEF DecodedInOrder, Unread
<1>11. ReadAheadBounded' /\ BehindInv'
  BY <1>1, <1>3 DEF ReadAheadBounded, BehindInv
<1>12. QED BY <1>4, <1>5, <1>9, <1>10, <1>11 DEF Meanings

(* The main thread of the supervisor asks for a resend.                     *)
LEMMA WriteResendStep ==
  ASSUME ChannelInv, WriteResend
  PROVE  ChannelInv'
<1> DEFINE u == <<"r">>
<1>1. TypeOK
  BY DEF ChannelInv
<1>2. /\ pipe' = Append(pipe, "r") /\ sent' = Append(sent, "resend") /\ UNCHANGED readVars
      /\ sup' = "fork" /\ UNCHANGED <<crashes, logq, readVars>>
  BY DEF WriteResend
<1>3. u \in Seq(BytesSent) /\ Len(u) = 1 /\ u[1] = "r" /\ u # <<>>
  BY DEF BytesSent
<1>4. Piece(u) /\ Framed(u, FALSE)
  <2> HIDE DEF u
  <2>1. \A i \in 1 .. Len(u) - 1 : FALSE
    BY <1>3
  <2>2. u[Len(u)] \in Final /\ u[1] \notin {"b", "0"}
    BY <1>3 DEF Final
  <2>3. QED BY <1>3, <2>1, <2>2 DEF Piece, Framed
<1>5. Append(pipe, "r") = pipe \o u
  BY <1>1, Shapes, AppendIsConcat DEF BytesSent
<1>6. Meaning(u[Len(u)]) = "resend"
  BY <1>3 DEF Meaning
<1>7. /\ pipe' \in Seq(BytesSent) /\ sent' \in Seq({"resend", "log"})
      /\ FrameInv' /\ DecodedInOrder' /\ ReadAheadBounded' /\ BehindInv'
  <2> HIDE DEF u
  <2>1. pipe' = pipe \o u /\ sent' = Append(sent, Meaning(u[Len(u)]))
    BY <1>2, <1>5, <1>6
  <2>2. QED BY <1>2, <1>3, <1>4, <2>1, Written
<1>8. TypeOK'
  BY <1>1, <1>2, <1>7 DEF TypeOK, readVars
<1>9. QED BY <1>7, <1>8 DEF ChannelInv

(* Its log thread writes a message.                                         *)
LEMMA WriteLogStep ==
  ASSUME ChannelInv, WriteLog
  PROVE  ChannelInv'
<1> DEFINE u == Message(Head(logq))
<1>1. TypeOK
  BY DEF ChannelInv
<1>2. /\ logq # <<>> /\ logq' = Tail(logq)
      /\ pipe' = pipe \o u /\ sent' = Append(sent, "log")
      /\ UNCHANGED <<sup, crashes, readVars>> /\ UNCHANGED readVars
  BY DEF WriteLog, BytesOf
<1>3. Head(logq) \in {"started", "errored"} /\ Tail(logq) \in Seq({"started", "errored"})
  BY <1>1, <1>2 DEF TypeOK
<1>4. u \in Seq(BytesSent) /\ Piece(u) /\ u[Len(u)] = "0" /\ Framed(u, FALSE)
  BY <1>3, MessageBytes
<1> HIDE DEF u
<1>5. Meaning(u[Len(u)]) = "log"
  BY <1>4 DEF Meaning
<1>6. /\ pipe' \in Seq(BytesSent) /\ sent' \in Seq({"resend", "log"})
      /\ FrameInv' /\ DecodedInOrder' /\ ReadAheadBounded' /\ BehindInv'
  BY <1>2, <1>4, <1>5, Written
<1>7. TypeOK'
  BY <1>1, <1>2, <1>3, <1>6 DEF TypeOK, readVars
<1>8. QED BY <1>6, <1>7 DEF ChannelInv

(* async_read: one byte comes in, and the oldest one is taken.              *)
LEMMA ReadOneStep ==
  ASSUME ChannelInv, ReadOne
  PROVE  ChannelInv'
<1> DEFINE s == Unread
           t == Tail(s)
           x == Head(s)
           b == Append(buffer, Head(pipe))
<1>1. /\ TypeOK /\ Framed(s, pc = "until") /\ Encode(s, handled, sent)
      /\ ReadAheadBounded /\ pc = "one" /\ pipe # <<>>
  BY DEF ChannelInv, FrameInv, DecodedInOrder, Unread, ReadOne
<1>2. /\ pipe \in Seq(BytesSent) /\ buffer \in Seq(BytesSent) /\ s \in Seq(BytesSent)
      /\ sent \in Seq(Meanings) /\ handled \in Seq(Meanings)
  BY <1>1, Shapes
<1>3. /\ buffer' = Tail(b) /\ pipe' = Tail(pipe) /\ Act(Head(b))
      /\ UNCHANGED <<sup, crashes, logq, sent>>
  BY DEF ReadOne, NextByte
<1>4. /\ Head(pipe) \in BytesSent /\ <<Head(pipe)>> \in Seq(BytesSent)
      /\ Tail(pipe) \in Seq(BytesSent) /\ pipe = <<Head(pipe)>> \o Tail(pipe)
  BY <1>1, <1>2, HeadAndTail
<1>5. b \in Seq(BytesSent) /\ b # <<>> /\ Len(b) = Len(buffer) + 1
  BY <1>2, <1>4, AppendProperties
<1>6. b \o Tail(pipe) = s
  <2> DEFINE e == <<Head(pipe)>>
             f == Tail(pipe)
  <2>1. b = Cat(buffer, e)
    BY <1>2, <1>4, AppendIsConcat DEF Cat
  <2>2. e \in Seq(BytesSent) /\ f \in Seq(BytesSent) /\ pipe = Cat(e, f)
    BY <1>4 DEF Cat
  <2> HIDE DEF e, f
  <2>3. Cat(Cat(buffer, e), f) = Cat(buffer, Cat(e, f))
    BY <1>2, <2>2, Associative
  <2>4. QED BY <2>1, <2>2, <2>3 DEF Cat, Unread, f
<1> HIDE DEF b
<1>7. s # <<>> /\ Head(b) = x /\ Tail(b) \o Tail(pipe) = t
  BY <1>4, <1>5, <1>6, ConcatTail
<1>8. Unread' = t
  BY <1>3, <1>7 DEF Unread
<1>9. buffer' \in Seq(BytesSent) /\ Len(buffer') = Len(buffer) /\ pipe' \in Seq(BytesSent)
  BY <1>2, <1>3, <1>4, <1>5
<1>10. /\ <<x>> \in Seq(BytesSent) /\ t \in Seq(BytesSent) /\ s = <<x>> \o t
  BY <1>2, <1>7, HeadAndTail
<1> HIDE DEF s
<1>11. x \in {"brace", "r"} /\ Framed(t, x = "brace")
  <2>1. Framed(s, FALSE)
    BY <1>1
  <2>2. QED BY <1>2, <1>7, <2>1, FramedTail
<1> DEFINE u == <<x>>
<1> HIDE DEF x, t
<1>12. Len(u) = 1 /\ u[1] = x /\ u # <<>>
  OBVIOUS
<1>13. Len(buffer) \in Nat /\ Len(buffer) < Chunk /\ Chunk \in Nat
  BY <1>1, <1>2, ChunkAssumption DEF ReadAheadBounded
<1>14. CASE x = "brace"
  <2>1. pc' = "until" /\ handled' = handled
    BY <1>3, <1>7, <1>14 DEF Act
  <2>2. Encode(t, handled, sent)
    <3>1. \A i \in 1 .. Len(u) : u[i] \notin Final
      BY <1>12, <1>14 DEF Final
    <3>2. Encode(u \o t, handled, sent)
      BY <1>1, <1>10
    <3> HIDE DEF u
    <3>3. u \in Seq(BytesSent)
      BY <1>10 DEF u
    <3>4. QED BY <1>2, <1>10, <3>1, <3>2, <3>3, EncodeSkipped
  <2>3. FrameInv'
    BY <1>8, <1>11, <1>14, <2>1 DEF FrameInv
  <2>4. DecodedInOrder'
    BY <1>3, <1>8, <2>1, <2>2 DEF DecodedInOrder, Unread
  <2>5. ReadAheadBounded'
    BY <2>1 DEF ReadAheadBounded
  <2>6. BehindInv'
    <3> DEFINE k == Nul(buffer')
               l == Len(buffer')
    <3>1. k \in Nat
      BY <1>9, NulFacts
    <3>2. l = Len(buffer)
      BY <1>9
    <3> HIDE DEF k, l
    <3>3. k # 0 => l - k < Chunk
      BY <1>13, <3>1, <3>2
    <3>4. QED BY <3>3 DEF BehindInv, k, l
  <2>7. TypeOK'
    BY <1>1, <1>3, <1>9, <2>1 DEF TypeOK
  <2>8. QED BY <2>3, <2>4, <2>5, <2>6, <2>7 DEF ChannelInv
<1>15. CASE x = "r"
  <2>1. pc' = "one" /\ handled' = Append(handled, "resend")
    BY <1>1, <1>3, <1>7, <1>15 DEF Act, Request
  <2>2. Encode(t, Append(handled, "resend"), sent)
    <3>1. Piece(u)
      BY <1>12, <1>15 DEF Piece, Final
    <3>2. Meaning(u[Len(u)]) = "resend"
      BY <1>12, <1>15 DEF Meaning
    <3>3. Encode(u \o t, handled, sent)
      BY <1>1, <1>10
    <3> HIDE DEF u
    <3>4. u \in Seq(BytesSent)
      BY <1>10 DEF u
    <3>5. Encode(t, Append(handled, Meaning(u[Len(u)])), sent)
      BY <1>2, <1>10, <3>1, <3>3, <3>4, EncodeTaken
    <3>6. QED BY <3>2, <3>5
  <2>3. FrameInv'
    BY <1>8, <1>11, <1>15, <2>1 DEF FrameInv
  <2>4. DecodedInOrder'
    BY <1>3, <1>8, <2>1, <2>2 DEF DecodedInOrder, Unread
  <2>5. ReadAheadBounded' /\ BehindInv'
    BY <1>9, <1>13, <2>1 DEF ReadAheadBounded, BehindInv
  <2>6. TypeOK'
    <3>1. handled' \in Seq({"resend", "log"})
      BY <1>2, <2>1 DEF Meanings
    <3>2. QED BY <1>1, <1>3, <1>9, <2>1, <3>1 DEF TypeOK
  <2>7. QED BY <2>3, <2>4, <2>5, <2>6 DEF ChannelInv
<1>16. QED BY <1>11, <1>14, <1>15

(* async_read_until brings in more of what is there.                        *)
LEMMA ReadMoreStep ==
  ASSUME ChannelInv, ReadMore
  PROVE  ChannelInv'
<1>1. /\ TypeOK /\ FrameInv /\ DecodedInOrder
      /\ pc = "until" /\ Nul(buffer) = 0
      /\ UNCHANGED <<sup, crashes, logq, sent, pc, handled>>
  BY DEF ChannelInv, ReadMore, NeedsMore
<1>2. PICK n \in 1 .. Len(pipe) :
        /\ n <= Chunk
        /\ buffer' = buffer \o SubSeq(pipe, 1, n)
        /\ pipe' = SubSeq(pipe, n + 1, Len(pipe))
  BY DEF ReadMore
<1> DEFINE x == SubSeq(pipe, 1, n)
           y == SubSeq(pipe, n + 1, Len(pipe))
<1>3. pipe \in Seq(BytesSent) /\ buffer \in Seq(BytesSent) /\ Unread \in Seq(BytesSent)
  BY <1>1, Shapes
<1>4. x \in Seq(BytesSent) /\ y \in Seq(BytesSent) /\ x \o y = pipe
  BY <1>3, ReadAhead
<1>5. Len(x) = n
  BY <1>3
<1>6. buffer' = buffer \o x /\ pipe' = y
  BY <1>2
<1> HIDE DEF x, y
<1>7. Unread' = Unread
  <2>1. Cat(Cat(buffer, x), y) = Cat(buffer, Cat(x, y))
    BY <1>3, <1>4, Associative
  <2>2. QED BY <1>4, <1>6, <2>1 DEF Unread, Cat
<1>8. /\ buffer' \in Seq(BytesSent) /\ Len(buffer') = Len(buffer) + n
      /\ \A i \in 1 .. Len(buffer) : buffer'[i] = buffer[i]
      /\ Len(buffer) \in Nat /\ n \in Nat
  <2>1. /\ buffer \o x \in Seq(BytesSent) /\ Len(buffer \o x) = Len(buffer) + Len(x)
        /\ \A i \in 1 .. Len(buffer) + Len(x) : (buffer \o x)[i] =
             IF i <= Len(buffer) THEN buffer[i] ELSE x[i - Len(buffer)]
    BY <1>3, <1>4, ConcatProperties
  <2>2. Len(buffer) \in Nat /\ n \in Nat
    BY <1>3
  <2> DEFINE z == buffer \o x
  <2>3. z = buffer'
    BY <1>6
  <2> HIDE DEF z
  <2>4. QED BY <1>5, <2>1, <2>2, <2>3 DEF z
<1>9. FrameInv' /\ DecodedInOrder'
  BY <1>1, <1>7 DEF FrameInv, DecodedInOrder, Unread
<1>10. ReadAheadBounded'
  BY <1>1 DEF ReadAheadBounded
<1>11. BehindInv'
  <2> DEFINE b == buffer'
             k == Nul(b)
  <2>1. /\ k \in Nat
        /\ k # 0 => k \in 1 .. Len(b) /\ b[k] = "0"
    BY <1>8, NulFacts
  <2>2. \A i \in 1 .. Len(buffer) : buffer[i] # "0"
    BY <1>1, <1>3, NulFacts
  <2>3. k # 0 => k > Len(buffer)
    BY <1>8, <2>1, <2>2
  <2>4. Len(b) = Len(buffer) + n
    BY <1>8
  <2>5. n <= Chunk /\ Chunk \in Nat
    BY <1>2, ChunkAssumption
  <2> HIDE DEF b, k
  <2>6. k # 0 => Len(b) - k < Chunk
    BY <1>8, <2>1, <2>3, <2>4, <2>5
  <2>7. QED BY <2>6 DEF BehindInv, b, k
<1>12. TypeOK'
  BY <1>1, <1>4, <1>6, <1>8 DEF TypeOK
<1>13. QED BY <1>9, <1>10, <1>11, <1>12 DEF ChannelInv

(* ... until a NUL is there, which ends the message.                        *)
LEMMA TakeMessageStep ==
  ASSUME ChannelInv, TakeMessage
  PROVE  ChannelInv'
<1> DEFINE n == Nul(buffer)
           l == Len(buffer)
           u == SubSeq(buffer, 1, n)
           v == SubSeq(buffer, n + 1, l)
<1>1. /\ TypeOK /\ Framed(Unread, TRUE) /\ Encode(Unread, handled, sent)
      /\ n # 0 /\ l - n < Chunk
      /\ UNCHANGED <<sup, crashes, logq, pipe, sent>>
      /\ pc' = "one" /\ handled' = Append(handled, "log") /\ buffer' = v
  BY DEF ChannelInv, FrameInv, DecodedInOrder, Unread, BehindInv, TakeMessage, AfterMessage
<1>2. /\ pipe \in Seq(BytesSent) /\ buffer \in Seq(BytesSent)
      /\ sent \in Seq(Meanings) /\ handled \in Seq(Meanings)
  BY <1>1, Shapes
<1>3. n \in 1 .. l /\ buffer[n] = "0" /\ \A i \in 1 .. n - 1 : buffer[i] # "0"
  BY <1>1, <1>2, NulFacts
<1> HIDE DEF n
<1>4. /\ u \in Seq(BytesSent) /\ v \in Seq(BytesSent) /\ u \o v = buffer
  BY <1>2, <1>3, ReadAhead
<1>5. /\ Len(u) = n /\ \A i \in 1 .. n : u[i] = buffer[i]
  BY <1>2, <1>3
<1> HIDE DEF u, v
<1>6. u # <<>> /\ u[Len(u)] = "0" /\ \A i \in 1 .. Len(u) - 1 : u[i] # "0"
  BY <1>3, <1>5
<1>7. Len(v) = l - n
  <2>1. Len(u \o v) = Len(u) + Len(v) /\ Len(v) \in Nat
    BY <1>4
  <2>2. QED BY <1>2, <1>3, <1>4, <1>5, <2>1
<1>8. Unread = u \o (v \o pipe) /\ Unread' = v \o pipe
  <2>1. Cat(Cat(u, v), pipe) = Cat(u, Cat(v, pipe))
    BY <1>2, <1>4, Associative
  <2>2. QED BY <1>1, <1>4, <2>1 DEF Unread, Cat
<1> DEFINE w == v \o pipe
<1>9. w \in Seq(BytesSent)
  BY <1>2, <1>4
<1> HIDE DEF w
<1>10. Framed(u \o w, TRUE) /\ Encode(u \o w, handled, sent)
  BY <1>1, <1>8 DEF w
<1>11. Piece(u) /\ Framed(w, FALSE)
  BY <1>4, <1>6, <1>9, <1>10, FramedRest
<1>12. Encode(w, Append(handled, Meaning(u[Len(u)])), sent)
  BY <1>2, <1>4, <1>9, <1>10, <1>11, EncodeTaken
<1>13. Meaning(u[Len(u)]) = "log"
  BY <1>6 DEF Meaning
<1>14. FrameInv'
  BY <1>1, <1>8, <1>11 DEF FrameInv, w
<1>15. DecodedInOrder'
  BY <1>1, <1>8, <1>12, <1>13 DEF DecodedInOrder, Unread, w
<1>16. ReadAheadBounded' /\ BehindInv'
  BY <1>1, <1>7 DEF ReadAheadBounded, BehindInv
<1>17. TypeOK'
  <2>1. handled' \in Seq({"resend", "log"})
    BY <1>1, <1>2 DEF Meanings
  <2>2. QED BY <1>1, <1>4, <2>1 DEF TypeOK
<1>18. QED BY <1>14, <1>15, <1>16, <1>17 DEF ChannelInv

(* The steps of the supervisor, and those that do nothing.                  *)
LEMMA OtherSteps ==
  ASSUME ChannelInv, Fork \/ Crash \/ Quiet \/ UNCHANGED vars
  PROVE  ChannelInv'
<1>1. /\ TypeOK /\ UNCHANGED <<pipe, sent, readVars>>
  BY DEF ChannelInv, Fork, Crash, Quiet, vars
<1>2. TypeOK'
  <2>1. CASE Fork
    BY <1>1, <2>1 DEF Fork, TypeOK, readVars
  <2>2. CASE Crash
    <3>1. crashes' \in 0 .. MaxCrashes
      BY <1>1, <2>2, ChannelCrashesAssumption DEF Crash, TypeOK
    <3>2. QED BY <1>1, <2>2, <3>1 DEF Crash, TypeOK, readVars
  <2>3. CASE Quiet \/ UNCHANGED vars
    BY <1>1, <2>3 DEF Quiet, TypeOK, vars, readVars
  <2>4. QED BY <2>1, <2>2, <2>3
<1>3. FrameInv' /\ DecodedInOrder' /\ ReadAheadBounded' /\ BehindInv'
  BY <1>1 DEF ChannelInv, FrameInv, DecodedInOrder, ReadAheadBounded, BehindInv,
              Unread, readVars
<1>4. QED BY <1>2, <1>3 DEF ChannelInv

-----------------------------------------------------------------------------
(* The invariant of the resend pipe.                                        *)
THEOREM ChannelInvariance == Spec => []ChannelInv
<1>1. Init => ChannelInv
  BY ChannelInit
<1>2. ChannelInv /\ [Next]_vars => ChannelInv'
  BY WriteResendStep, WriteLogStep, ReadOneStep, ReadMoreStep, TakeMessageStep,
     OtherSteps DEF Next
<1>3. QED BY <1>1, <1>2, PTL DEF Spec

(* exec.childproc.cpp:200-273: the loop of handle_child_requests never      *)
(* takes a byte for a request it does not know.                             *)
THEOREM ChannelTyping == Spec => []TypeOK
<1>1. ChannelInv => TypeOK
  BY DEF ChannelInv
<1>2. QED BY <1>1, ChannelInvariance, PTL

(* exec.childproc.cpp:200-273, exec.logging.cpp: what the supervisor writes *)
(* is acted on once and in order, for messages of any length.               *)
THEOREM NothingGarbled == Spec => []DecodedInOrder
<1>1. ChannelInv => DecodedInOrder
  BY DEF ChannelInv
<1>2. QED BY <1>1, ChannelInvariance, PTL

(* exec.childproc.cpp:203, 245: the streambuf does not grow, for reads of   *)
(* any size.                                                                *)
THEOREM ReadAheadStaysBounded == Spec => []ReadAheadBounded
<1>1. ChannelInv => ReadAheadBounded
  BY DEF ChannelInv
<1>2. QED BY <1>1, ChannelInvariance, PTL

=============================================================================
