------------------------------ MODULE Counting ------------------------------
(***************************************************************************)
(* How often a job, or a packet with it, occurs in a queue of the program   *)
(* (stdin lines, rings, packets), and in a family of them.                  *)
(***************************************************************************)
EXTENDS Naturals, Sequences, FiniteSets

(* The places of j in the sequence s, and how many there are.               *)
At(s, j) == {i \in 1 .. Len(s) : s[i] = j}
Copies(s, j) == Cardinality(At(s, j))

(* The places of j in the queues q[c], for c in C, and how many there are.  *)
AtAny(q, C, j) == UNION {{c} \X At(q[c], j) : c \in C}
TotalCopies(q, C, j) == Cardinality(AtAny(q, C, j))

=============================================================================
