----------------------------- MODULE MCJobPipe ------------------------------
(* Small instances of JobPipe for TLC.                                      *)
EXTENDS JobPipe

CONSTANTS a, b

MCLetters == {a, b}

(* Four jobs, more than a ring of three holds and twice what the pipe does; *)
(* the end of the first is the text of the second.                          *)
MCInputs == {<<<<a, b>>, <<b>>, <<a, b>>, <<b>>>>}

(* Two jobs; no proper end of either is a job.                              *)
MCTornInputs == {<<<<a, b>>, <<b, a>>>>}

=============================================================================
