------------------------------ MODULE Matching ------------------------------
(***************************************************************************)
(* What childproc::handle_stdout makes of the lines of a worker: it pops    *)
(* the jobs of the ring one after the other, each at the first line that is *)
(* equal to it, and passes over every other line.                           *)
(***************************************************************************)
EXTENDS Naturals, Sequences

(* All of these jobs are reported by these lines: they are among them, in   *)
(* this order.                                                              *)
Among(jobs, lines) ==
  \E at \in [DOMAIN jobs -> DOMAIN lines] :
    /\ \A m, n \in DOMAIN jobs : m < n => at[m] < at[n]
    /\ \A n \in DOMAIN jobs : lines[at[n]] = jobs[n]

=============================================================================
