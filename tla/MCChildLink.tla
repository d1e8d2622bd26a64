---------------------------- MODULE MCChildLink -----------------------------
(* Small instances of ChildLink for TLC.                                    *)
EXTENDS ChildLink

CONSTANTS j1, j2

MCJobs == {j1, j2}

(* Three jobs for a ring of two; two of them have the same text, so that a  *)
(* late answer to the first may be taken for one to the last.               *)
MCInputs == {<<j1, j2, j1>>}

(* How far handle_stdout gets into a sequence of jobs, line by line.        *)
Reports(lines, jobs) ==
  FoldLeft(LAMBDA n, line : IF n < Len(jobs) /\ line = jobs[n + 1] THEN n + 1 ELSE n,
           0, lines)

(* Taking each job at the first line that matches it loses nothing: the     *)
(* loop of handle_stdout reports all the jobs that are among the lines.     *)
SomeLines(k) == UNION {[1 .. n -> MCJobs] : n \in 0 .. k}
ASSUME GreedyReports ==
  \A lines \in SomeLines(5), jobs \in SomeLines(3) :
    Reports(lines, jobs) = Len(jobs) <=> Among(jobs, lines)

=============================================================================
