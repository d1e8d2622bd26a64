--------------------------- MODULE SequenceLemmas ---------------------------
(***************************************************************************)
(* Lemmas about sequences that the proofs share: how often an element       *)
(* occurs in a sequence and in a family of queues (so that nothing is       *)
(* duplicated, whatever is appended, popped, joined or redistributed),      *)
(* which jobs are reported by which lines (so that nothing is lost), and    *)
(* where a loop is in a ring that is pushed to and popped from meanwhile.   *)
(***************************************************************************)
EXTENDS Integers, Sequences, Counting, Matching, FiniteSetTheorems, FunctionTheorems,
        SequenceTheorems, WellFoundedInduction, TLAPS

-----------------------------------------------------------------------------
(* Of some numbers one is the least.                                        *)
LEMMA Least ==
  ASSUME NEW T, T \subseteq Nat, T # {}
  PROVE  \E n \in T : \A m \in T : n <= m
<1>1. PICK n \in T : \A m \in T : ~(<<m, n>> \in OpToRel(<, Nat))
  BY NatLessThanWellFounded, WFMin
<1>2. ASSUME NEW m \in T PROVE n <= m
  <2>1. ~(<<m, n>> \in OpToRel(<, Nat))
    BY <1>1
  <2>2. ~(m < n)
    BY <2>1 DEF OpToRel
  <2>3. QED BY <2>2
<1>3. QED BY <1>2

(* Sets with nothing in common.                                             *)
LEMMA DisjointCount ==
  ASSUME NEW A, NEW B, IsFiniteSet(A), IsFiniteSet(B), A \cap B = {}
  PROVE  Cardinality(A \cup B) = Cardinality(A) + Cardinality(B)
<1>1. Cardinality(A \cap B) = 0
  BY FS_EmptySet
<1>2. Cardinality(A) \in Nat /\ Cardinality(B) \in Nat
  BY FS_CardinalityType
<1>3. Cardinality(A \cup B) = Cardinality(A) + Cardinality(B) - Cardinality(A \cap B)
  BY FS_Union
<1>4. QED BY <1>1, <1>2, <1>3

(* There are finitely many copies in a sequence.                            *)
LEMMA CopiesType ==
  ASSUME NEW S, NEW s \in Seq(S), NEW j
  PROVE  IsFiniteSet(At(s, j)) /\ Copies(s, j) \in Nat
<1>1. IsFiniteSet(1 .. Len(s))
  <2> DEFINE n == Len(s)
  <2>1. n \in Nat
    OBVIOUS
  <2> HIDE DEF n
  <2>2. IsFiniteSet(1 .. n)
    BY <2>1, FS_Interval
  <2>3. QED BY <2>2 DEF n
<1>2. IsFiniteSet(At(s, j))
  BY <1>1, FS_Subset DEF At
<1>3. QED BY <1>2, FS_CardinalityType DEF Copies

(* An element that is not in the sequence has no copy, one that is has one. *)
LEMMA CopiesPositive ==
  ASSUME NEW S, NEW s \in Seq(S), NEW j
  PROVE  Copies(s, j) > 0 <=> \E i \in 1 .. Len(s) : s[i] = j
<1>1. IsFiniteSet(At(s, j)) /\ Copies(s, j) \in Nat
  BY CopiesType
<1>2. Copies(s, j) = 0 <=> At(s, j) = {}
  BY <1>1, FS_EmptySet DEF Copies
<1>3. At(s, j) # {} <=> \E i \in 1 .. Len(s) : s[i] = j
  BY DEF At
<1>4. QED BY <1>1, <1>2, <1>3

(* The empty sequence.                                                      *)
LEMMA CopiesEmpty ==
  ASSUME NEW j
  PROVE  Copies(<<>>, j) = 0
<1>1. At(<<>>, j) = {}
  BY DEF At
<1>2. QED BY <1>1, FS_EmptySet DEF Copies

(* A sequence of one element.                                               *)
LEMMA CopiesOne ==
  ASSUME NEW k, NEW j
  PROVE  Copies(<<k>>, j) = IF k = j THEN 1 ELSE 0
<1>1. At(<<k>>, j) = IF k = j THEN {1} ELSE {}
  BY DEF At
<1>2. Cardinality({1}) = 1 /\ Cardinality({}) = 0
  BY FS_EmptySet, FS_Singleton
<1>3. QED BY <1>1, <1>2 DEF Copies

(* Appending an element adds a copy of it and of no other.                  *)
LEMMA CopiesAppend ==
  ASSUME NEW S, NEW s \in Seq(S), NEW k \in S, NEW j
  PROVE  Copies(Append(s, k), j) = Copies(s, j) + IF k = j THEN 1 ELSE 0
<1> DEFINE n == Len(s)
           t == Append(s, k)
<1>1. /\ n \in Nat /\ Len(t) = n + 1 /\ t[n + 1] = k
      /\ \A i \in 1 .. n : t[i] = s[i]
  OBVIOUS
<1> HIDE DEF t
<1>2. At(t, j) = IF k = j THEN At(s, j) \cup {n + 1} ELSE At(s, j)
  BY <1>1 DEF At
<1>3. n + 1 \notin At(s, j)
  BY <1>1 DEF At
<1>4. IsFiniteSet(At(s, j)) /\ Cardinality(At(s, j)) \in Nat
  BY CopiesType DEF Copies
<1>5. Cardinality(At(s, j) \cup {n + 1}) = Cardinality(At(s, j)) + 1
  BY <1>3, <1>4, FS_AddElement
<1>6. QED BY <1>2, <1>4, <1>5 DEF Copies, t

(* Joining two sequences adds their copies.                                 *)
LEMMA CopiesConcat ==
  ASSUME NEW S, NEW s \in Seq(S), NEW t \in Seq(S), NEW j
  PROVE  Copies(s \o t, j) = Copies(s, j) + Copies(t, j)
<1> DEFINE n == Len(s)
           m == Len(t)
           u == s \o t
           Moved == {i \in n + 1 .. n + m : u[i] = j}
           g == [i \in At(t, j) |-> n + i]
<1>1. /\ n \in Nat /\ m \in Nat /\ Len(u) = n + m
      /\ \A i \in 1 .. n : u[i] = s[i]
      /\ \A i \in 1 .. m : u[n + i] = t[i]
  OBVIOUS
<1> HIDE DEF u
<1>2. At(u, j) = At(s, j) \cup Moved
  BY <1>1 DEF At
<1>3. At(s, j) \cap Moved = {}
  BY <1>1 DEF At
<1>4. g \in Bijection(At(t, j), Moved)
  <2>1. g \in [At(t, j) -> Moved]
    BY <1>1 DEF At
  <2>2. \A a, b \in At(t, j) : g[a] = g[b] => a = b
    BY <1>1 DEF At
  <2>3. ASSUME NEW i \in Moved PROVE \E a \in At(t, j) : g[a] = i
    <3>1. i - n \in 1 .. m /\ n + (i - n) = i
      BY <1>1
    <3>2. i - n \in At(t, j)
      BY <1>1, <3>1 DEF At
    <3>3. QED BY <3>1, <3>2
  <2>4. QED BY <2>1, <2>2, <2>3 DEF Bijection, Injection, IsInjective, Surjection
<1>5. IsFiniteSet(Moved) /\ Cardinality(Moved) = Copies(t, j)
  BY <1>4, CopiesType, FS_Bijection, Fun_ExistsBij DEF Copies
<1>6. IsFiniteSet(At(s, j)) /\ Copies(s, j) \in Nat /\ Copies(t, j) \in Nat
  BY CopiesType
<1>7. Cardinality(At(s, j) \cup Moved) = Copies(s, j) + Copies(t, j)
  BY <1>3, <1>5, <1>6, DisjointCount DEF Copies
<1>8. QED BY <1>2, <1>7 DEF Copies, u

(* Taking the head off removes one copy of it.                              *)
LEMMA CopiesTail ==
  ASSUME NEW S, NEW s \in Seq(S), s # <<>>, NEW j
  PROVE  Copies(Tail(s), j) = Copies(s, j) - IF Head(s) = j THEN 1 ELSE 0
<1>1. <<Head(s)>> \in Seq(S) /\ Tail(s) \in Seq(S)
  OBVIOUS
<1>2. s = <<Head(s)>> \o Tail(s)
  <2>1. /\ Len(<<Head(s)>> \o Tail(s)) = Len(s)
        /\ <<Head(s)>> \o Tail(s) \in Seq(S)
    BY <1>1
  <2>2. \A i \in 1 .. Len(s) : (<<Head(s)>> \o Tail(s))[i] = s[i]
    BY <1>1
  <2>3. QED BY <2>1, <2>2
<1>3. Copies(s, j) = Copies(<<Head(s)>>, j) + Copies(Tail(s), j)
  BY <1>1, <1>2, CopiesConcat, ZenonT(60)
<1>4. Copies(Tail(s), j) \in Nat
  BY <1>1, CopiesType
<1>5. QED BY <1>3, <1>4, CopiesOne

(* A sequence without repetition holds each of its elements once.           *)
LEMMA CopiesOnce ==
  ASSUME NEW S, NEW s \in Seq(S), NEW j,
         \A i, k \in 1 .. Len(s) : s[i] = s[k] => i = k
  PROVE  Copies(s, j) = IF \E i \in 1 .. Len(s) : s[i] = j THEN 1 ELSE 0
<1>1. CASE \E i \in 1 .. Len(s) : s[i] = j
  <2>1. PICK i \in 1 .. Len(s) : s[i] = j
    BY <1>1
  <2>2. At(s, j) = {i}
    BY <2>1 DEF At
  <2>3. QED BY <1>1, <2>2, FS_Singleton DEF Copies
<1>2. CASE ~\E i \in 1 .. Len(s) : s[i] = j
  <2>1. At(s, j) = {}
    BY <1>2 DEF At
  <2>2. QED BY <1>2, <2>1, FS_EmptySet DEF Copies
<1>3. QED BY <1>1, <1>2

-----------------------------------------------------------------------------
(* Tagging the members of a set does not change how many there are.         *)
LEMMA TaggedCount ==
  ASSUME NEW x, NEW S, IsFiniteSet(S)
  PROVE  IsFiniteSet({x} \X S) /\ Cardinality({x} \X S) = Cardinality(S)
<1>1. IsFiniteSet({x}) /\ Cardinality({x}) = 1
  BY FS_Singleton
<1>2. Cardinality(S) \in Nat
  BY FS_CardinalityType
<1>3. QED BY <1>1, <1>2, FS_Product

(* In finitely many queues there are finitely many copies.                  *)
LEMMA TotalCopiesType ==
  ASSUME NEW S, NEW C, IsFiniteSet(C), NEW q, \A c \in C : q[c] \in Seq(S), NEW j
  PROVE  IsFiniteSet(AtAny(q, C, j)) /\ TotalCopies(q, C, j) \in Nat
<1>1. \A c \in C : IsFiniteSet({c} \X At(q[c], j))
  BY CopiesType, TaggedCount
<1>2. IsFiniteSet({{c} \X At(q[c], j) : c \in C})
  <2> DEFINE T == {{c} \X At(q[c], j) : c \in C}
             f == [c \in C |-> {c} \X At(q[c], j)]
  <2>1. f \in Surjection(C, T)
    BY DEF Surjection
  <2>2. QED BY <2>1, FS_Surjection
<1>3. IsFiniteSet(AtAny(q, C, j))
  BY <1>1, <1>2, FS_UNION DEF AtAny
<1>4. QED BY <1>3, FS_CardinalityType DEF TotalCopies

(* The copies in all the queues are those in one of them and in the others. *)
LEMMA TotalCopiesSplit ==
  ASSUME NEW S, NEW C, IsFiniteSet(C), NEW q, \A c \in C : q[c] \in Seq(S),
         NEW j, NEW d \in C
  PROVE  TotalCopies(q, C, j) = TotalCopies(q, C \ {d}, j) + Copies(q[d], j)
<1> DEFINE A == AtAny(q, C \ {d}, j)
           B == {d} \X At(q[d], j)
<1>1. AtAny(q, C, j) = A \cup B
  BY DEF AtAny
<1>2. A \cap B = {}
  BY DEF AtAny
<1>3. IsFiniteSet(C \ {d})
  BY FS_Subset
<1>4. IsFiniteSet(A) /\ Cardinality(A) \in Nat
  BY <1>3, TotalCopiesType DEF TotalCopies
<1>5. IsFiniteSet(B) /\ Cardinality(B) = Copies(q[d], j) /\ Copies(q[d], j) \in Nat
  BY CopiesType, TaggedCount DEF Copies
<1>6. Cardinality(A \cup B) = Cardinality(A) + Cardinality(B)
  BY <1>2, <1>4, <1>5, DisjointCount
<1>7. QED BY <1>1, <1>5, <1>6 DEF TotalCopies

(* Changing one queue changes the total by what that queue gains or loses.  *)
LEMMA TotalCopiesUpdate ==
  ASSUME NEW S, NEW C, IsFiniteSet(C), NEW q, \A c \in C : q[c] \in Seq(S),
         NEW r, \A c \in C : r[c] \in Seq(S), NEW j, NEW d \in C,
         \A c \in C \ {d} : r[c] = q[c]
  PROVE  TotalCopies(r, C, j) = TotalCopies(q, C, j) - Copies(q[d], j) + Copies(r[d], j)
<1>1. AtAny(r, C \ {d}, j) = AtAny(q, C \ {d}, j)
  BY DEF AtAny
<1>2. TotalCopies(r, C \ {d}, j) = TotalCopies(q, C \ {d}, j)
  BY <1>1 DEF TotalCopies
<1>3. /\ TotalCopies(q, C, j) = TotalCopies(q, C \ {d}, j) + Copies(q[d], j)
      /\ TotalCopies(r, C, j) = TotalCopies(r, C \ {d}, j) + Copies(r[d], j)
  <2>1. TotalCopies(q, C, j) = TotalCopies(q, C \ {d}, j) + Copies(q[d], j)
    BY TotalCopiesSplit
  <2>2. TotalCopies(r, C, j) = TotalCopies(r, C \ {d}, j) + Copies(r[d], j)
    BY TotalCopiesSplit
  <2>3. QED BY <2>1, <2>2
<1>4. TotalCopies(q, C \ {d}, j) \in Nat
  <2>1. IsFiniteSet(C \ {d}) /\ \A c \in C \ {d} : q[c] \in Seq(S)
    BY FS_Subset
  <2>2. QED BY <2>1, TotalCopiesType
<1>5. Copies(q[d], j) \in Nat /\ Copies(r[d], j) \in Nat
  BY CopiesType
<1>6. QED BY <1>2, <1>3, <1>4, <1>5

-----------------------------------------------------------------------------
(* No job at all is reported by any lines.                                  *)
LEMMA AmongEmpty ==
  ASSUME NEW lines
  PROVE  Among(<<>>, lines)
<1> DEFINE none == DOMAIN <<>>
           at == [n \in none |-> 0]
<1>1. none = {}
  OBVIOUS
<1> HIDE DEF none
<1>2. at \in [none -> DOMAIN lines]
  BY <1>1
<1> HIDE DEF at
<1>3. /\ \A m, n \in none : m < n => at[m] < at[n]
      /\ \A n \in none : lines[at[n]] = <<>>[n]
  BY <1>1
<1>4. QED BY <1>2, <1>3 DEF Among, none

(* The jobs themselves, at the end of other lines, report the jobs.         *)
LEMMA AmongSuffix ==
  ASSUME NEW S, NEW s \in Seq(S), NEW u \in Seq(S)
  PROVE  Among(s, u \o s)
<1> DEFINE at == [n \in 1 .. Len(s) |-> Len(u) + n]
           t == u \o s
<1>1. /\ t \in Seq(S) /\ Len(t) = Len(u) + Len(s) /\ Len(u) \in Nat /\ Len(s) \in Nat
      /\ \A n \in 1 .. Len(s) : t[Len(u) + n] = s[n]
      /\ DOMAIN s = 1 .. Len(s)
  OBVIOUS
<1> HIDE DEF t
<1>2. DOMAIN t = 1 .. Len(u) + Len(s)
  BY <1>1
<1>3. at \in [DOMAIN s -> DOMAIN t]
  BY <1>1, <1>2
<1>4. /\ \A m, n \in DOMAIN s : m < n => at[m] < at[n]
      /\ \A n \in DOMAIN s : t[at[n]] = s[n]
  BY <1>1
<1> HIDE DEF at
<1>5. Among(s, t)
  BY <1>3, <1>4 DEF Among
<1>6. QED BY <1>5 DEF t

(* Lines in between do no harm.                                             *)
LEMMA AmongMore ==
  ASSUME NEW S, NEW s \in Seq(S), NEW u \in Seq(S), NEW v \in Seq(S), NEW w \in Seq(S),
         Among(s, u \o v)
  PROVE  Among(s, (u \o w) \o v)
<1> DEFINE x == u \o v
           y == (u \o w) \o v
<1>1. /\ Len(u) \in Nat /\ Len(v) \in Nat /\ Len(w) \in Nat
      /\ DOMAIN x = 1 .. Len(u) + Len(v)
      /\ DOMAIN y = 1 .. Len(u) + Len(w) + Len(v)
      /\ \A i \in 1 .. Len(u) : x[i] = u[i] /\ y[i] = u[i]
      /\ \A i \in 1 .. Len(v) : x[Len(u) + i] = v[i] /\ y[Len(u) + Len(w) + i] = v[i]
  OBVIOUS
<1> HIDE DEF x, y
<1>2. PICK at \in [DOMAIN s -> DOMAIN x] :
        /\ \A m, n \in DOMAIN s : m < n => at[m] < at[n]
        /\ \A n \in DOMAIN s : x[at[n]] = s[n]
  BY DEF Among, x
<1> DEFINE to == [n \in DOMAIN s |->
                    IF at[n] <= Len(u) THEN at[n] ELSE at[n] + Len(w)]
<1>3. ASSUME NEW n \in DOMAIN s PROVE to[n] \in DOMAIN y /\ y[to[n]] = s[n]
  <2>1. at[n] \in 1 .. Len(u) + Len(v)
    BY <1>1, <1>2
  <2>2. CASE at[n] <= Len(u)
    BY <1>1, <1>2, <2>1, <2>2
  <2>3. CASE ~(at[n] <= Len(u))
    <3>1. at[n] - Len(u) \in 1 .. Len(v) /\ at[n] = Len(u) + (at[n] - Len(u))
      BY <1>1, <2>1, <2>3
    <3>2. to[n] = Len(u) + Len(w) + (at[n] - Len(u))
      BY <1>1, <2>1, <2>3
    <3>3. x[at[n]] = v[at[n] - Len(u)] /\ y[to[n]] = v[at[n] - Len(u)]
      BY <1>1, <3>1, <3>2
    <3>4. to[n] \in DOMAIN y
      BY <1>1, <3>1, <3>2
    <3>5. QED BY <1>2, <3>3, <3>4
  <2>4. QED BY <2>2, <2>3
<1>4. ASSUME NEW m \in DOMAIN s, NEW n \in DOMAIN s, m < n PROVE to[m] < to[n]
  <2>1. at[m] < at[n] /\ at[m] \in Int /\ at[n] \in Int
    BY <1>1, <1>2, <1>4
  <2>2. QED BY <1>1, <2>1
<1>5. to \in [DOMAIN s -> DOMAIN y]
  BY <1>3
<1>6. Among(s, y)
  <2> HIDE DEF to
  <2>1. QED BY <1>3, <1>4, <1>5 DEF Among
<1>7. QED BY <1>6 DEF y

(* The same lines added to both at the end.                                 *)
LEMMA AmongBoth ==
  ASSUME NEW S, NEW s \in Seq(S), NEW t \in Seq(S), NEW r \in Seq(S), Among(s, t)
  PROVE  Among(s \o r, t \o r)
<1> DEFINE x == s \o r
           y == t \o r
<1>1. /\ Len(s) \in Nat /\ Len(t) \in Nat /\ Len(r) \in Nat
      /\ DOMAIN s = 1 .. Len(s) /\ DOMAIN t = 1 .. Len(t)
      /\ DOMAIN x = 1 .. Len(s) + Len(r) /\ DOMAIN y = 1 .. Len(t) + Len(r)
      /\ \A i \in 1 .. Len(s) : x[i] = s[i]
      /\ \A i \in 1 .. Len(t) : y[i] = t[i]
      /\ \A i \in 1 .. Len(r) : x[Len(s) + i] = r[i] /\ y[Len(t) + i] = r[i]
  OBVIOUS
<1> HIDE DEF x, y
<1>2. PICK at \in [DOMAIN s -> DOMAIN t] :
        /\ \A m, n \in DOMAIN s : m < n => at[m] < at[n]
        /\ \A n \in DOMAIN s : t[at[n]] = s[n]
  BY DEF Among
<1> DEFINE to == [n \in DOMAIN x |->
                    IF n <= Len(s) THEN at[n] ELSE Len(t) + (n - Len(s))]
<1>3. ASSUME NEW n \in DOMAIN x PROVE to[n] \in DOMAIN y /\ y[to[n]] = x[n]
  <2>1. CASE n <= Len(s)
    <3>1. n \in 1 .. Len(s) /\ to[n] = at[n] /\ at[n] \in 1 .. Len(t)
      BY <1>1, <1>2, <2>1
    <3>2. QED BY <1>1, <1>2, <3>1
  <2>2. CASE ~(n <= Len(s))
    <3>1. n - Len(s) \in 1 .. Len(r) /\ n = Len(s) + (n - Len(s))
      BY <1>1, <2>2
    <3>2. to[n] = Len(t) + (n - Len(s))
      BY <2>2
    <3>3. QED BY <1>1, <3>1, <3>2
  <2>3. QED BY <2>1, <2>2
<1>4. ASSUME NEW m \in DOMAIN x, NEW n \in DOMAIN x, m < n PROVE to[m] < to[n]
  <2>1. m \in Int /\ n \in Int
    BY <1>1
  <2>2. CASE n <= Len(s)
    <3>1. m \in DOMAIN s /\ n \in DOMAIN s /\ m <= Len(s)
      BY <1>1, <1>4, <2>1, <2>2
    <3>2. QED BY <1>2, <1>4, <2>2, <3>1
  <2>3. CASE ~(n <= Len(s)) /\ m <= Len(s)
    <3>1. at[m] \in 1 .. Len(t) /\ to[m] = at[m]
      BY <1>1, <1>2, <2>1, <2>3
    <3>2. QED BY <1>1, <2>1, <2>3, <3>1
  <2>4. CASE ~(n <= Len(s)) /\ ~(m <= Len(s))
    BY <1>1, <1>4, <2>1, <2>4
  <2>5. QED BY <2>2, <2>3, <2>4
<1>5. to \in [DOMAIN x -> DOMAIN y]
  BY <1>3
<1>6. Among(x, y)
  <2> HIDE DEF to
  <2>1. QED BY <1>3, <1>4, <1>5 DEF Among
<1>7. QED BY <1>6 DEF x, y

(* A line that reports the first job: the rest reports the other jobs.      *)
LEMMA AmongTail ==
  ASSUME NEW S, NEW s \in Seq(S), NEW t \in Seq(S), s # <<>>, t # <<>>, Among(s, t)
  PROVE  Among(Tail(s), Tail(t))
<1> DEFINE x == Tail(s)
           y == Tail(t)
<1>1. /\ Len(s) \in Nat \ {0} /\ Len(t) \in Nat \ {0}
      /\ DOMAIN s = 1 .. Len(s) /\ DOMAIN t = 1 .. Len(t)
      /\ DOMAIN x = 1 .. Len(s) - 1 /\ DOMAIN y = 1 .. Len(t) - 1
      /\ \A i \in 1 .. Len(s) - 1 : x[i] = s[i + 1]
      /\ \A i \in 1 .. Len(t) - 1 : y[i] = t[i + 1]
  OBVIOUS
<1> HIDE DEF x, y
<1>2. PICK at \in [DOMAIN s -> DOMAIN t] :
        /\ \A m, n \in DOMAIN s : m < n => at[m] < at[n]
        /\ \A n \in DOMAIN s : t[at[n]] = s[n]
  BY DEF Among
<1> DEFINE to == [n \in DOMAIN x |-> at[n + 1] - 1]
<1>3. ASSUME NEW n \in DOMAIN x PROVE to[n] \in DOMAIN y /\ y[to[n]] = x[n]
  <2>1. n + 1 \in DOMAIN s /\ 1 \in DOMAIN s /\ 1 < n + 1
    BY <1>1
  <2>2. at[1] < at[n + 1] /\ at[1] \in 1 .. Len(t) /\ at[n + 1] \in 1 .. Len(t)
    BY <1>1, <1>2, <2>1
  <2>3. to[n] \in 1 .. Len(t) - 1 /\ to[n] + 1 = at[n + 1]
    BY <1>1, <2>2
  <2>4. QED BY <1>1, <1>2, <2>1, <2>3
<1>4. ASSUME NEW m \in DOMAIN x, NEW n \in DOMAIN x, m < n PROVE to[m] < to[n]
  <2>1. m + 1 \in DOMAIN s /\ n + 1 \in DOMAIN s /\ m + 1 < n + 1
    BY <1>1, <1>4
  <2>2. at[m + 1] < at[n + 1] /\ at[m + 1] \in Int /\ at[n + 1] \in Int
    BY <1>1, <1>2, <2>1
  <2>3. QED BY <2>2
<1>5. to \in [DOMAIN x -> DOMAIN y]
  BY <1>3
<1>6. Among(x, y)
  <2> HIDE DEF to
  <2>1. QED BY <1>3, <1>4, <1>5 DEF Among
<1>7. QED BY <1>6 DEF x, y

(* A line that is not the first job is passed over.                         *)
LEMMA AmongSkip ==
  ASSUME NEW S, NEW s \in Seq(S), NEW t \in Seq(S), t # <<>>, Among(s, t),
         s # <<>> => Head(s) # Head(t)
  PROVE  Among(s, Tail(t))
<1> DEFINE y == Tail(t)
<1>1. /\ Len(s) \in Nat /\ Len(t) \in Nat \ {0}
      /\ DOMAIN s = 1 .. Len(s) /\ DOMAIN t = 1 .. Len(t)
      /\ DOMAIN y = 1 .. Len(t) - 1
      /\ \A i \in 1 .. Len(t) - 1 : y[i] = t[i + 1]
      /\ Head(t) = t[1]
      /\ s # <<>> => Head(s) = s[1]
  OBVIOUS
<1> HIDE DEF y
<1>2. PICK at \in [DOMAIN s -> DOMAIN t] :
        /\ \A m, n \in DOMAIN s : m < n => at[m] < at[n]
        /\ \A n \in DOMAIN s : t[at[n]] = s[n]
  BY DEF Among
<1> DEFINE to == [n \in DOMAIN s |-> at[n] - 1]
<1>3. ASSUME NEW n \in DOMAIN s PROVE at[n] \in 2 .. Len(t)
  <2>1. at[n] \in 1 .. Len(t) /\ 1 \in DOMAIN s /\ n \in 1 .. Len(s)
    BY <1>1, <1>2
  <2>2. at[1] \in 1 .. Len(t) /\ at[1] # 1
    <3>1. s # <<>> /\ t[at[1]] = s[1]
      BY <1>2, <2>1
    <3>2. QED BY <1>1, <1>2, <2>1, <3>1
  <2>3. n = 1 \/ at[1] < at[n]
    BY <1>2, <2>1
  <2>4. QED BY <1>1, <2>1, <2>2, <2>3
<1>4. ASSUME NEW n \in DOMAIN s PROVE to[n] \in DOMAIN y /\ y[to[n]] = s[n]
  <2>1. to[n] \in 1 .. Len(t) - 1 /\ to[n] + 1 = at[n]
    BY <1>1, <1>3
  <2>2. QED BY <1>1, <1>2, <2>1
<1>5. ASSUME NEW m \in DOMAIN s, NEW n \in DOMAIN s, m < n PROVE to[m] < to[n]
  <2>1. at[m] < at[n] /\ at[m] \in Int /\ at[n] \in Int
    BY <1>2, <1>3, <1>5
  <2>2. QED BY <2>1
<1>6. to \in [DOMAIN s -> DOMAIN y]
  BY <1>4
<1>7. Among(s, y)
  <2> HIDE DEF to
  <2>1. QED BY <1>4, <1>5, <1>6 DEF Among
<1>8. QED BY <1>7 DEF y

(* More lines before or behind.                                             *)
LEMMA AmongAround ==
  ASSUME NEW S, NEW s \in Seq(S), NEW t \in Seq(S), NEW w \in Seq(S), Among(s, t)
  PROVE  Among(s, w \o t) /\ Among(s, t \o w)
<1>1. <<>> \in Seq(S) /\ t \o w \in Seq(S)
  OBVIOUS
<1>2. <<>> \o t = t /\ <<>> \o w = w /\ t \o <<>> = t /\ (t \o w) \o <<>> = t \o w
  BY <1>1, ConcatEmptySeq
<1>3. Among(s, <<>> \o t) /\ Among(s, t \o <<>>)
  BY <1>2
<1>4. Among(s, (<<>> \o w) \o t)
  BY <1>1, <1>3, AmongMore
<1>5. Among(s, (t \o w) \o <<>>)
  BY <1>1, <1>3, AmongMore
<1>6. QED BY <1>2, <1>4, <1>5

(* Lines that are among others are in turn among whatever has those.        *)
LEMMA AmongTransitive ==
  ASSUME NEW S, NEW s \in Seq(S), NEW t \in Seq(S), NEW u \in Seq(S), Among(s, t), Among(t, u)
  PROVE  Among(s, u)
<1>1. /\ DOMAIN s = 1 .. Len(s) /\ DOMAIN t = 1 .. Len(t)
      /\ Len(s) \in Nat /\ Len(t) \in Nat
  OBVIOUS
<1>2. PICK at \in [DOMAIN s -> DOMAIN t] :
        /\ \A m, n \in DOMAIN s : m < n => at[m] < at[n]
        /\ \A n \in DOMAIN s : t[at[n]] = s[n]
  BY DEF Among
<1>3. PICK by \in [DOMAIN t -> DOMAIN u] :
        /\ \A m, n \in DOMAIN t : m < n => by[m] < by[n]
        /\ \A n \in DOMAIN t : u[by[n]] = t[n]
  BY DEF Among
<1> DEFINE to == [n \in DOMAIN s |-> by[at[n]]]
<1>4. to \in [DOMAIN s -> DOMAIN u]
  BY <1>2, <1>3
<1>5. \A m, n \in DOMAIN s : m < n => to[m] < to[n]
  BY <1>2, <1>3
<1>6. \A n \in DOMAIN s : u[to[n]] = s[n]
  BY <1>2, <1>3
<1> HIDE DEF to
<1>7. QED BY <1>4, <1>5, <1>6 DEF Among

(* Two joined sequences are among two joined sequences, each in its own.    *)
LEMMA AmongConcat ==
  ASSUME NEW S, NEW s \in Seq(S), NEW t \in Seq(S), NEW q \in Seq(S), NEW r \in Seq(S),
         Among(s, t), Among(q, r)
  PROVE  Among(s \o q, t \o r)
<1> DEFINE x == s \o q
           y == t \o r
<1>1. /\ Len(s) \in Nat /\ Len(t) \in Nat /\ Len(q) \in Nat /\ Len(r) \in Nat
      /\ DOMAIN s = 1 .. Len(s) /\ DOMAIN t = 1 .. Len(t)
      /\ DOMAIN q = 1 .. Len(q) /\ DOMAIN r = 1 .. Len(r)
      /\ DOMAIN x = 1 .. Len(s) + Len(q) /\ DOMAIN y = 1 .. Len(t) + Len(r)
      /\ \A i \in 1 .. Len(s) : x[i] = s[i]
      /\ \A i \in 1 .. Len(t) : y[i] = t[i]
      /\ \A i \in 1 .. Len(q) : x[Len(s) + i] = q[i]
      /\ \A i \in 1 .. Len(r) : y[Len(t) + i] = r[i]
  OBVIOUS
<1> HIDE DEF x, y
<1>2. PICK at \in [DOMAIN s -> DOMAIN t] :
        /\ \A m, n \in DOMAIN s : m < n => at[m] < at[n]
        /\ \A n \in DOMAIN s : t[at[n]] = s[n]
  BY DEF Among
<1>3. PICK by \in [DOMAIN q -> DOMAIN r] :
        /\ \A m, n \in DOMAIN q : m < n => by[m] < by[n]
        /\ \A n \in DOMAIN q : r[by[n]] = q[n]
  BY DEF Among
<1> DEFINE to == [n \in DOMAIN x |->
                    IF n <= Len(s) THEN at[n] ELSE Len(t) + by[n - Len(s)]]
<1>4. ASSUME NEW n \in DOMAIN x, n <= Len(s)
      PROVE  n \in DOMAIN s /\ to[n] = at[n] /\ to[n] \in 1 .. Len(t) /\ y[to[n]] = x[n]
  <2>1. n \in 1 .. Len(s) /\ to[n] = at[n] /\ at[n] \in 1 .. Len(t)
    BY <1>1, <1>2, <1>4
  <2>2. QED BY <1>1, <1>2, <2>1
<1>5. ASSUME NEW n \in DOMAIN x, ~(n <= Len(s))
      PROVE  /\ n - Len(s) \in DOMAIN q /\ by[n - Len(s)] \in 1 .. Len(r)
             /\ to[n] = Len(t) + by[n - Len(s)] /\ y[to[n]] = x[n]
  <2>1. n - Len(s) \in 1 .. Len(q) /\ n = Len(s) + (n - Len(s))
    BY <1>1, <1>5
  <2>2. by[n - Len(s)] \in 1 .. Len(r) /\ r[by[n - Len(s)]] = q[n - Len(s)]
    BY <1>1, <1>3, <2>1
  <2>3. to[n] = Len(t) + by[n - Len(s)]
    BY <1>5
  <2>4. y[to[n]] = r[by[n - Len(s)]] /\ x[n] = q[n - Len(s)]
    BY <1>1, <2>1, <2>2, <2>3
  <2>5. QED BY <1>1, <2>1, <2>2, <2>3, <2>4
<1> HIDE DEF to
<1>6. ASSUME NEW n \in DOMAIN x PROVE to[n] \in DOMAIN y /\ y[to[n]] = x[n]
  BY <1>1, <1>4, <1>5
<1>7. ASSUME NEW m \in DOMAIN x, NEW n \in DOMAIN x, m < n PROVE to[m] < to[n]
  <2>1. m \in Int /\ n \in Int
    BY <1>1
  <2>2. CASE n <= Len(s)
    <3>1. m <= Len(s)
      BY <1>1, <1>7, <2>1, <2>2
    <3>2. QED BY <1>2, <1>4, <1>7, <2>2, <3>1
  <2>3. CASE ~(n <= Len(s)) /\ m <= Len(s)
    BY <1>1, <1>4, <1>5, <2>3
  <2>4. CASE ~(n <= Len(s)) /\ ~(m <= Len(s))
    <3>1. m - Len(s) < n - Len(s)
      BY <1>1, <1>7, <2>1
    <3>2. by[m - Len(s)] < by[n - Len(s)]
      BY <1>3, <1>5, <2>4, <3>1
    <3>3. QED BY <1>1, <1>5, <2>4, <3>2
  <2>5. QED BY <2>2, <2>3, <2>4
<1>8. to \in [DOMAIN x -> DOMAIN y]
  <2>1. to = [n \in DOMAIN x |-> to[n]]
    BY DEF to
  <2>2. QED BY <1>6, <2>1
<1>9. Among(x, y)
  BY <1>6, <1>7, <1>8 DEF Among
<1>10. QED BY <1>9 DEF x, y

(* Lines that are none of the jobs can be left out.                         *)
LEMMA AmongDrop ==
  ASSUME NEW S, NEW s \in Seq(S), NEW u \in Seq(S), NEW w \in Seq(S), NEW v \in Seq(S),
         \A n \in DOMAIN s : \A i \in DOMAIN w : s[n] # w[i],
         Among(s, u \o (w \o v))
  PROVE  Among(s, u \o v)
<1> DEFINE z == w \o v
           x == u \o z
           y == u \o v
<1>0. /\ z \in Seq(S) /\ Len(z) = Len(w) + Len(v)
      /\ DOMAIN w = 1 .. Len(w)
      /\ \A i \in 1 .. Len(w) : z[i] = w[i]
      /\ \A i \in 1 .. Len(v) : z[Len(w) + i] = v[i]
      /\ Len(u) \in Nat /\ Len(v) \in Nat /\ Len(w) \in Nat
  OBVIOUS
<1> HIDE DEF z
<1>1. /\ DOMAIN x = 1 .. Len(u) + Len(z)
      /\ DOMAIN y = 1 .. Len(u) + Len(v)
      /\ \A i \in 1 .. Len(u) : x[i] = u[i] /\ y[i] = u[i]
      /\ \A i \in 1 .. Len(z) : x[Len(u) + i] = z[i]
      /\ \A i \in 1 .. Len(v) : y[Len(u) + i] = v[i]
  <2>1. /\ DOMAIN x = 1 .. Len(u) + Len(z)
        /\ \A i \in 1 .. Len(u) : x[i] = u[i]
        /\ \A i \in 1 .. Len(z) : x[Len(u) + i] = z[i]
    <3>1. x \in Seq(S) /\ Len(x) = Len(u) + Len(z)
      BY <1>0, ConcatProperties
    <3>2. DOMAIN x = 1 .. Len(x)
      BY <3>1
    <3>3. QED BY <1>0, <3>1, <3>2, ConcatProperties
  <2>2. /\ DOMAIN y = 1 .. Len(u) + Len(v)
        /\ \A i \in 1 .. Len(u) : y[i] = u[i]
        /\ \A i \in 1 .. Len(v) : y[Len(u) + i] = v[i]
    OBVIOUS
  <2>3. QED BY <2>1, <2>2
<1> HIDE DEF x, y
<1>2. PICK at \in [DOMAIN s -> DOMAIN x] :
        /\ \A m, n \in DOMAIN s : m < n => at[m] < at[n]
        /\ \A n \in DOMAIN s : x[at[n]] = s[n]
  BY DEF Among, x, z
<1> DEFINE to == [n \in DOMAIN s |->
                    IF at[n] <= Len(u) THEN at[n] ELSE at[n] - Len(w)]
<1>3. ASSUME NEW n \in DOMAIN s
      PROVE  /\ at[n] \in 1 .. Len(u) + Len(w) + Len(v)
             /\ at[n] <= Len(u) \/ at[n] > Len(u) + Len(w)
  <2>1. at[n] \in 1 .. Len(u) + Len(w) + Len(v)
    BY <1>0, <1>1, <1>2
  <2>2. ASSUME at[n] > Len(u), at[n] <= Len(u) + Len(w) PROVE FALSE
    <3>1. at[n] - Len(u) \in 1 .. Len(w) /\ at[n] = Len(u) + (at[n] - Len(u))
      BY <1>0, <2>1, <2>2
    <3>2. at[n] - Len(u) \in 1 .. Len(z)
      BY <1>0, <3>1
    <3>3. x[at[n]] = z[at[n] - Len(u)] /\ z[at[n] - Len(u)] = w[at[n] - Len(u)]
      BY <1>0, <1>1, <3>1, <3>2
    <3>4. QED BY <1>0, <1>2, <3>1, <3>3
  <2>3. QED BY <1>0, <2>1, <2>2
<1>4. ASSUME NEW n \in DOMAIN s PROVE to[n] \in DOMAIN y /\ y[to[n]] = s[n]
  <2>1. CASE at[n] <= Len(u)
    <3>1. at[n] \in 1 .. Len(u) /\ to[n] = at[n]
      BY <1>0, <1>3, <2>1
    <3>2. QED BY <1>0, <1>1, <1>2, <3>1
  <2>2. CASE ~(at[n] <= Len(u))
    <3> DEFINE k == at[n] - (Len(u) + Len(w))
    <3>1. k \in 1 .. Len(v) /\ at[n] = Len(u) + (Len(w) + k) /\ at[n] - Len(w) = Len(u) + k
      <4>1. /\ at[n] \in 1 .. Len(u) + Len(w) + Len(v) /\ at[n] > Len(u) + Len(w)
            /\ Len(u) \in Nat /\ Len(v) \in Nat /\ Len(w) \in Nat
        BY <1>0, <1>3, <2>2
      <4>2. \A i, l, m, r \in Int :
              i <= l + m + r /\ i > l + m =>
                /\ i - (l + m) \in 1 .. r /\ i = l + (m + (i - (l + m)))
                /\ i - m = l + (i - (l + m))
        OBVIOUS
      <4>3. at[n] \in Int /\ at[n] <= Len(u) + Len(w) + Len(v)
        BY <4>1
      <4>4. QED BY <4>1, <4>2, <4>3
    <3>2. to[n] = at[n] - Len(w)
      BY <2>2
    <3>3. to[n] = Len(u) + k
      BY <3>1, <3>2
    <3> HIDE DEF k, to
    <3>4. x[at[n]] = v[k]
      <4>1. Len(w) + k \in 1 .. Len(z)
        BY <1>0, <3>1
      <4>2. x[Len(u) + (Len(w) + k)] = z[Len(w) + k]
        BY <1>1, <4>1
      <4>3. z[Len(w) + k] = v[k]
        <5>1. \A i \in 1 .. Len(v) : z[Len(w) + i] = v[i]
          BY <1>0
        <5>2. QED BY <3>1, <5>1
      <4>4. QED BY <3>1, <4>2, <4>3
    <3>5. to[n] \in DOMAIN y /\ y[to[n]] = v[k]
      BY <1>0, <1>1, <3>1, <3>3
    <3>6. QED BY <1>2, <3>4, <3>5
  <2>3. QED BY <2>1, <2>2
<1>5. ASSUME NEW m \in DOMAIN s, NEW n \in DOMAIN s, m < n PROVE to[m] < to[n]
  <2>1. at[m] < at[n]
    BY <1>2, <1>5
  <2>2. QED BY <1>0, <1>3, <2>1, SMTT(30)
<1>6. to \in [DOMAIN s -> DOMAIN y]
  BY <1>4
<1> HIDE DEF to
<1>7. Among(s, y)
  BY <1>4, <1>5, <1>6 DEF Among
<1>8. QED BY <1>7 DEF y

-----------------------------------------------------------------------------
(* Two joined sequences.                                                    *)
LEMMA Joined ==
  ASSUME NEW S, NEW s \in Seq(S), NEW t \in Seq(S)
  PROVE  /\ s \o t \in Seq(S) /\ Len(s \o t) = Len(s) + Len(t)
         /\ \A n \in 1 .. Len(s) : (s \o t)[n] = s[n]
         /\ \A n \in 1 .. Len(t) : (s \o t)[Len(s) + n] = t[n]
OBVIOUS

(* Taking the head off a joined sequence takes it off the first part.       *)
LEMMA ConcatTail ==
  ASSUME NEW S, NEW s \in Seq(S), NEW t \in Seq(S), s # <<>>
  PROVE  s \o t # <<>> /\ Head(s \o t) = Head(s) /\ Tail(s \o t) = Tail(s) \o t
<1>1. /\ Len(s) \in Nat \ {0} /\ Len(t) \in Nat
      /\ s \o t \in Seq(S) /\ Len(s \o t) = Len(s) + Len(t)
      /\ Tail(s) \in Seq(S) /\ Len(Tail(s)) = Len(s) - 1
  OBVIOUS
<1>2. s \o t # <<>>
  BY <1>1
<1>3. Tail(s \o t) \in Seq(S) /\ Tail(s) \o t \in Seq(S)
  BY <1>1, <1>2
<1>4. Len(Tail(s \o t)) = Len(s) + Len(t) - 1 /\ Len(Tail(s) \o t) = Len(s) + Len(t) - 1
  BY <1>1, <1>2
<1>5. ASSUME NEW i \in 1 .. Len(s) + Len(t) - 1
      PROVE  Tail(s \o t)[i] = (Tail(s) \o t)[i]
  <2>1. Tail(s \o t)[i] = (s \o t)[i + 1]
    BY <1>1, <1>2
  <2>2. CASE i <= Len(s) - 1
    BY <1>1, <2>1, <2>2
  <2>3. CASE ~(i <= Len(s) - 1)
    <3>1. (s \o t)[i + 1] = t[i + 1 - Len(s)]
      BY <1>1, <2>3
    <3>2. (Tail(s) \o t)[i] = t[i - (Len(s) - 1)]
      BY <1>1, <2>3
    <3>3. i + 1 - Len(s) = i - (Len(s) - 1)
      BY <1>1
    <3>4. QED BY <2>1, <3>1, <3>2, <3>3
  <2>4. QED BY <2>2, <2>3
<1>6. Tail(s \o t) = Tail(s) \o t
  BY <1>3, <1>4, <1>5, SeqEqual
<1>7. Head(s \o t) = Head(s)
  BY <1>1, <1>2
<1>8. QED BY <1>2, <1>6, <1>7

(* What is joined to a sequence is joined to its end.                       *)
LEMMA EndConcat ==
  ASSUME NEW S, NEW s \in Seq(S), NEW t \in Seq(S), NEW k \in 1 .. Len(s) + 1
  PROVE  SubSeq(s \o t, k, Len(s) + Len(t)) = SubSeq(s, k, Len(s)) \o t
<1> DEFINE n == Len(s)
           m == Len(t)
           u == s \o t
           x == SubSeq(u, k, n + m)
           y == SubSeq(s, k, n)
<1>1. /\ n \in Nat /\ m \in Nat /\ k \in 1 .. n + 1
      /\ u \in Seq(S) /\ Len(u) = n + m
      /\ \A i \in 1 .. n : u[i] = s[i]
      /\ \A i \in 1 .. m : u[n + i] = t[i]
  OBVIOUS
<1> HIDE DEF u
<1>2. /\ x \in Seq(S) /\ Len(x) = n + m - k + 1
      /\ \A i \in 1 .. n + m - k + 1 : x[i] = u[k + i - 1]
  BY <1>1
<1>3. /\ y \in Seq(S) /\ Len(y) = n - k + 1
      /\ \A i \in 1 .. n - k + 1 : y[i] = s[k + i - 1]
  BY <1>1
<1> HIDE DEF x, y
<1>4. y \o t \in Seq(S) /\ Len(y \o t) = n + m - k + 1
  <2>1. y \in Seq(S)
    BY <1>3
  <2>2. y \o t \in Seq(S) /\ Len(y \o t) = Len(y) + m
    BY <2>1, ConcatProperties
  <2>3. QED BY <1>1, <1>3, <2>2
<1>5. ASSUME NEW i \in 1 .. n + m - k + 1 PROVE x[i] = (y \o t)[i]
  <2>1. CASE i <= n - k + 1
    <3>1. (y \o t)[i] = y[i] /\ k + i - 1 \in 1 .. n /\ i \in 1 .. n - k + 1
      BY <1>1, <1>3, <2>1
    <3>2. QED BY <1>1, <1>2, <1>3, <3>1
  <2>2. CASE ~(i <= n - k + 1)
    <3> DEFINE j == i - (n - k + 1)
    <3>1. j \in 1 .. m /\ k + i - 1 = n + j
      BY <1>1, <2>2
    <3>2. (y \o t)[i] = t[j]
      BY <1>1, <1>3, <2>2, SMTT(30)
    <3> HIDE DEF j
    <3>3. QED BY <1>1, <1>2, <3>1, <3>2
  <2>3. QED BY <2>1, <2>2
<1>6. x = y \o t
  BY <1>2, <1>4, <1>5, SeqEqual
<1>7. QED BY <1>6 DEF x, y, u

(* The end of the tail is the end of the sequence.                          *)
LEMMA EndTail ==
  ASSUME NEW S, NEW s \in Seq(S), s # <<>>, NEW k \in 1 .. Len(s)
  PROVE  SubSeq(Tail(s), k, Len(s) - 1) = SubSeq(s, k + 1, Len(s))
<1> DEFINE n == Len(s)
           u == Tail(s)
           x == SubSeq(u, k, n - 1)
           y == SubSeq(s, k + 1, n)
<1>1. /\ n \in Nat \ {0} /\ k \in 1 .. n
      /\ u \in Seq(S) /\ Len(u) = n - 1
      /\ \A i \in 1 .. n - 1 : u[i] = s[i + 1]
  OBVIOUS
<1> HIDE DEF u
<1>2. /\ x \in Seq(S) /\ Len(x) = n - k
      /\ \A i \in 1 .. n - k : x[i] = u[k + i - 1]
  BY <1>1
<1>3. /\ y \in Seq(S) /\ Len(y) = n - k
      /\ \A i \in 1 .. n - k : y[i] = s[k + i]
  BY <1>1
<1> HIDE DEF x, y
<1>4. ASSUME NEW i \in 1 .. n - k PROVE x[i] = y[i]
  <2>1. k + i - 1 \in 1 .. n - 1 /\ (k + i - 1) + 1 = k + i
    BY <1>1
  <2>2. QED BY <1>1, <1>2, <1>3, <2>1
<1>5. x = y
  BY <1>2, <1>3, <1>4, SeqEqual
<1>6. QED BY <1>5 DEF x, y, u

(* A sequence is its head and its tail, ...                                 *)
LEMMA HeadAndTail ==
  ASSUME NEW S, NEW s \in Seq(S), s # <<>>
  PROVE  <<Head(s)>> \in Seq(S) /\ Tail(s) \in Seq(S) /\ s = <<Head(s)>> \o Tail(s)
<1>1. <<Head(s)>> \in Seq(S) /\ Tail(s) \in Seq(S)
  OBVIOUS
<1>2. /\ Len(<<Head(s)>> \o Tail(s)) = Len(s)
      /\ <<Head(s)>> \o Tail(s) \in Seq(S)
  BY <1>1
<1>3. \A i \in 1 .. Len(s) : (<<Head(s)>> \o Tail(s))[i] = s[i]
  BY <1>1
<1>4. QED BY <1>1, <1>2, <1>3, SeqEqual

(* ... or what is read of it at once, and the rest.                         *)
LEMMA ReadAhead ==
  ASSUME NEW S, NEW s \in Seq(S), NEW n \in 1 .. Len(s)
  PROVE  /\ SubSeq(s, 1, n) \in Seq(S) /\ SubSeq(s, n + 1, Len(s)) \in Seq(S)
         /\ SubSeq(s, 1, n) \o SubSeq(s, n + 1, Len(s)) = s
<1> DEFINE x == SubSeq(s, 1, n)
           y == SubSeq(s, n + 1, Len(s))
<1>1. /\ Len(s) \in Nat /\ n \in 1 .. Len(s)
      /\ x \in Seq(S) /\ Len(x) = n /\ \A i \in 1 .. n : x[i] = s[i]
  OBVIOUS
<1>2. y \in Seq(S) /\ Len(y) = Len(s) - n /\ \A i \in 1 .. Len(s) - n : y[i] = s[n + i]
  <2> DEFINE l == Len(s)
  <2>1. n + 1 \in Int /\ l \in Int /\ \A i \in n + 1 .. l : s[i] \in S
    BY <1>1
  <2>2. /\ y \in Seq(S) /\ Len(y) = IF n + 1 <= l THEN l - (n + 1) + 1 ELSE 0
        /\ \A i \in 1 .. l - (n + 1) + 1 : y[i] = s[n + 1 + i - 1]
    BY <2>1, SubSeqProperties
  <2>3. QED BY <1>1, <2>2
<1> HIDE DEF x, y
<1>3. x \o y \in Seq(S) /\ Len(x \o y) = Len(s)
  <2>1. x \in Seq(S) /\ y \in Seq(S)
    BY <1>1, <1>2
  <2>2. x \o y \in Seq(S) /\ Len(x \o y) = Len(x) + Len(y)
    BY <2>1, ConcatProperties
  <2>3. QED BY <1>1, <1>2, <2>2
<1>4. ASSUME NEW i \in 1 .. Len(s) PROVE (x \o y)[i] = s[i]
  <2>1. CASE i <= n
    BY <1>1, <1>2, <2>1
  <2>2. CASE ~(i <= n)
    <3>1. (x \o y)[i] = y[i - n] /\ i - n \in 1 .. Len(s) - n /\ n + (i - n) = i
      BY <1>1, <1>2, <2>2
    <3>2. QED BY <1>2, <3>1
  <2>3. QED BY <2>1, <2>2
<1>5. x \o y = s
  BY <1>3, <1>4, SeqEqual
<1>6. QED BY <1>1, <1>2, <1>5 DEF x, y

------------------------------------------------------------------------
(* Going around a ring of b slots, from 0 to b - 1.                         *)
LEMMA Around ==
  ASSUME NEW b \in Nat \ {0}, NEW n \in 0 .. 2 * b - 1
  PROVE  n % b = (IF n < b THEN n ELSE n - b) /\ n % b \in 0 .. b - 1
<1>1. CASE n < b
  <2>1. n \in 0 .. b - 1 /\ n % b = n
    BY <1>1
  <2>2. QED BY <1>1, <2>1
<1>2. CASE ~(n < b)
  <2>1. n - b \in 0 .. b - 1 /\ n % b = n - b
    BY <1>2
  <2>2. QED BY <1>2, <2>1
<1>3. QED BY <1>1, <1>2

-----------------------------------------------------------------------------
(* The jobs behind the one at offset o of a ring; all of them if there is   *)
(* none at o.                                                               *)
After(ring, o) == SubSeq(ring, IF o < Len(ring) THEN o + 2 ELSE 1, Len(ring))

LEMMA AfterType ==
  ASSUME NEW S, NEW ring \in Seq(S), NEW o \in Nat
  PROVE  After(ring, o) \in Seq(S) /\ (o >= Len(ring) => After(ring, o) = ring)
<1> DEFINE k == IF o < Len(ring) THEN o + 2 ELSE 1
<1>1. Len(ring) \in Nat /\ k \in Nat \ {0}
  OBVIOUS
<1> HIDE DEF k
<1>2. \A i \in k .. Len(ring) : ring[i] \in S
  BY <1>1
<1>3. SubSeq(ring, k, Len(ring)) \in Seq(S)
  BY <1>1, <1>2, SubSeqProperties
<1>4. o >= Len(ring) => k = 1
  BY <1>1 DEF k
<1>5. SubSeq(ring, 1, Len(ring)) = ring
  BY SubSeqFull
<1>6. QED BY <1>3, <1>4, <1>5 DEF After, k

(* A job that is pushed comes behind all the others, unless it comes to o   *)
(* itself.                                                                  *)
LEMMA AfterPush ==
  ASSUME NEW S, NEW ring \in Seq(S), NEW more \in Seq(S), NEW o \in Nat,
         o < Len(ring) \/ o >= Len(ring) + Len(more)
  PROVE  After(ring \o more, o) = After(ring, o) \o more
<1> DEFINE n == Len(ring)
           m == Len(more)
           k == IF o < n THEN o + 2 ELSE 1
           r == ring \o more
<1>1. n \in Nat /\ m \in Nat /\ Len(r) = n + m
  OBVIOUS
<1>2. After(ring, o) = SubSeq(ring, k, n)
  BY DEF After
<1>3. After(r, o) = SubSeq(r, IF o < Len(r) THEN o + 2 ELSE 1, Len(r))
  BY DEF After
<1>4. k \in 1 .. n + 1 /\ k = (IF o < n + m THEN o + 2 ELSE 1)
  BY <1>1
<1> HIDE DEF k, r, n, m
<1>5. SubSeq(r, k, n + m) = SubSeq(ring, k, n) \o more
  BY <1>4, EndConcat DEF r, n, m
<1>6. After(r, o) = SubSeq(r, k, n + m)
  BY <1>1, <1>3, <1>4
<1>7. QED BY <1>2, <1>5, <1>6 DEF r

(* Popping the front takes nothing from what is behind o.                   *)
LEMMA AfterPop ==
  ASSUME NEW S, NEW ring \in Seq(S), ring # <<>>, NEW o \in Nat, o < Len(ring),
         NEW p \in Nat, IF o = 0 THEN p + 1 >= Len(ring) ELSE p = o - 1
  PROVE  After(Tail(ring), p) = After(ring, o)
<1> DEFINE n == Len(ring)
           r == Tail(ring)
           k == IF p < n - 1 THEN p + 2 ELSE 1
<1>1. n \in Nat \ {0} /\ Len(r) = n - 1 /\ r \in Seq(S)
  OBVIOUS
<1>2. After(ring, o) = SubSeq(ring, o + 2, n)
  BY DEF After
<1>3. After(r, p) = SubSeq(r, k, n - 1)
  BY <1>1 DEF After
<1>4. k \in 1 .. n /\ k + 1 = o + 2
  BY <1>1
<1> HIDE DEF k, n, r
<1>5. SubSeq(r, k, n - 1) = SubSeq(ring, k + 1, n)
  BY <1>4, EndTail DEF r, n
<1>6. QED BY <1>2, <1>3, <1>4, <1>5 DEF r

(* Behind the job at o comes the next one and what is behind that.          *)
LEMMA AfterNext ==
  ASSUME NEW S, NEW ring \in Seq(S), NEW o \in Nat, o + 1 < Len(ring)
  PROVE  After(ring, o) = <<ring[o + 2]>> \o After(ring, o + 1)
<1> DEFINE n == Len(ring)
           i == o + 2
<1>1. n \in Nat /\ i \in 1 .. n /\ n \in 1 .. n /\ o + 1 + 2 = i + 1
  OBVIOUS
<1>2. After(ring, o) = SubSeq(ring, i, n) /\ After(ring, o + 1) = SubSeq(ring, o + 1 + 2, n)
  BY DEF After
<1> HIDE DEF i, n
<1>3. SubSeq(ring, i, n) = <<ring[i]>> \o SubSeq(ring, i + 1, n)
  BY <1>1, SubSeqRecursiveFirst DEF n
<1>4. QED BY <1>1, <1>2, <1>3 DEF i

(* The ring is its front and what is behind it.                             *)
LEMMA AfterFront ==
  ASSUME NEW S, NEW ring \in Seq(S), ring # <<>>
  PROVE  ring = <<ring[1]>> \o After(ring, 0)
<1>1. Len(ring) \in Nat \ {0}
  BY EmptySeq
<1>2. After(ring, 0) = SubSeq(ring, 2, Len(ring))
  BY <1>1 DEF After
<1>3. SubSeq(ring, 1, Len(ring)) = <<ring[1]>> \o SubSeq(ring, 1 + 1, Len(ring))
  <2>1. 1 \in 1 .. Len(ring) /\ Len(ring) \in 1 .. Len(ring)
    BY <1>1
  <2>2. QED BY <2>1, SubSeqRecursiveFirst
<1>4. SubSeq(ring, 1, Len(ring)) = ring
  BY SubSeqFull
<1>5. 1 + 1 = 2
  OBVIOUS
<1>6. QED BY <1>2, <1>3, <1>4, <1>5

(* There is nothing behind the last one.                                    *)
LEMMA AfterLast ==
  ASSUME NEW S, NEW ring \in Seq(S), NEW o \in Nat, o + 1 = Len(ring)
  PROVE  After(ring, o) = <<>>
<1>1. After(ring, o) = SubSeq(ring, o + 2, Len(ring)) /\ o + 2 > Len(ring)
  BY DEF After
<1>2. QED BY <1>1, SubSeqEmpty

-----------------------------------------------------------------------------
(* Concatenation as an operator that the provers do not look into: they    *)
(* need it to use what follows for expressions that are not variables.      *)
Cat(x, y) == x \o y

(* A part moved from one side to the other ...                              *)
LEMMA Associative ==
  ASSUME NEW S, NEW x \in Seq(S), NEW y \in Seq(S), NEW z \in Seq(S)
  PROVE  Cat(Cat(x, y), z) = Cat(x, Cat(y, z))
<1>1. (x \o y) \o z = x \o (y \o z)
  BY ConcatAssociative
<1>2. QED BY <1>1 DEF Cat

(* ... and within a longer sequence.                                        *)
LEMMA Regroup ==
  ASSUME NEW S, NEW x \in Seq(S), NEW e \in Seq(S), NEW b \in Seq(S), NEW f \in Seq(S)
  PROVE  Cat(Cat(x, e), Cat(b, f)) = Cat(x, Cat(Cat(e, b), f))
<1>1. Cat(b, f) \in Seq(S)
  BY DEF Cat
<1>2. QED BY <1>1, Associative

(* A new job comes last, and so does its line, twice if some of the lines   *)
(* will be written again.                                                   *)
LEMMA AmongAppended ==
  ASSUME NEW S, NEW s \in Seq(S), NEW x \in Seq(S), NEW b \in Seq(S), NEW e \in Seq(S),
         Among(s, x \o b)
  PROVE  /\ Among(s \o e, (x \o e) \o (b \o e))
         /\ b = <<>> => Among(s \o e, (x \o e) \o <<>>)
<1> DEFINE j == s \o e
           c == b \o e
           t == x \o b
<1>1. j \in Seq(S) /\ c \in Seq(S) /\ x \o e \in Seq(S) /\ t \in Seq(S)
  OBVIOUS
<1>2. Among(j, t \o e)
  <2> HIDE DEF t
  <2>1. t \in Seq(S) /\ Among(s, t)
    BY <1>1 DEF t
  <2>2. QED BY <2>1, AmongBoth
<1>3. t \o e = x \o c
  BY ConcatAssociative
<1> HIDE DEF j, c, t
<1>4. Among(j, (x \o e) \o c)
  <2>1. Among(j, x \o c)
    BY <1>2, <1>3
  <2>2. QED BY <1>1, <2>1, AmongMore
<1>5. ASSUME b = <<>> PROVE Among(j, (x \o e) \o <<>>)
  <2>1. t = x
    BY <1>5, ConcatEmptySeq DEF t
  <2>2. (x \o e) \o <<>> = x \o e
    BY <1>1, ConcatEmptySeq
  <2>3. QED BY <1>2, <2>1, <2>2
<1>6. QED BY <1>4, <1>5 DEF j, c

(* Lines report themselves.                                                 *)
LEMMA AmongSelf ==
  ASSUME NEW S, NEW s \in Seq(S)
  PROVE  Among(s, s)
<1>1. <<>> \o s = s /\ <<>> \in Seq(S)
  BY ConcatEmptySeq
<1>2. Among(s, <<>> \o s)
  BY <1>1, AmongSuffix
<1>3. QED BY <1>1, <1>2

(* Lines x are on their way, z is to be written next and y behind it: then  *)
(* z is written.                                                            *)
LEMMA AmongWritten ==
  ASSUME NEW S, NEW s \in Seq(S), NEW x \in Seq(S), NEW z \in Seq(S), NEW y \in Seq(S),
         Among(s, x \o Cat(z, y)),
         NEW u \in Seq(S), Among(x \o z, u), NEW v \in Seq(S), Among(y, v)
  PROVE  Among(s, u \o v)
<1>1. x \o z \in Seq(S) /\ u \o v \in Seq(S) /\ (x \o z) \o y \in Seq(S)
  OBVIOUS
<1>2. Cat(Cat(x, z), y) = Cat(x, Cat(z, y))
  BY Associative
<1>3. Among(s, (x \o z) \o y)
  BY <1>2 DEF Cat
<1>4. Among((x \o z) \o y, u \o v)
  <2> DEFINE w == x \o z
  <2>1. w \in Seq(S) /\ Among(w, u)
    BY <1>1
  <2> HIDE DEF w
  <2>2. Among(w \o y, u \o v)
    BY <2>1, AmongConcat
  <2>3. QED BY <2>2 DEF w
<1> DEFINE a == (x \o z) \o y
           b == u \o v
<1>5. a \in Seq(S) /\ b \in Seq(S) /\ Among(s, a) /\ Among(a, b)
  BY <1>1, <1>3, <1>4
<1> HIDE DEF a, b
<1>6. Among(s, b)
  BY <1>5, AmongTransitive
<1>7. QED BY <1>6 DEF b

(* ... when z is none of the jobs.                                          *)
LEMMA WrittenLost ==
  ASSUME NEW S, NEW s \in Seq(S), NEW x \in Seq(S), NEW z \in Seq(S), NEW y \in Seq(S),
         Among(s, x \o Cat(z, y)),
         \A n \in DOMAIN s : \A i \in DOMAIN z : s[n] # z[i],
         NEW u \in Seq(S), Among(x, u), NEW v \in Seq(S), Among(y, v)
  PROVE  Among(s, u \o v)
<1>1. x \o y \in Seq(S) /\ u \o v \in Seq(S)
  OBVIOUS
<1>2. Among(s, x \o y)
  <2>1. Among(s, x \o (z \o y))
    BY DEF Cat
  <2>2. QED BY <2>1, AmongDrop
<1>3. Among(x \o y, u \o v)
  BY AmongConcat
<1> DEFINE a == x \o y
           b == u \o v
<1>4. a \in Seq(S) /\ b \in Seq(S) /\ Among(s, a) /\ Among(a, b)
  BY <1>1, <1>2, <1>3
<1> HIDE DEF a, b
<1>5. Among(s, b)
  BY <1>4, AmongTransitive
<1>6. QED BY <1>5 DEF b

=============================================================================
