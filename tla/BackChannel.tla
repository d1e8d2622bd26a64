---------------------------- MODULE BackChannel -----------------------------
(***************************************************************************)
(* The resend pipe of one child, byte by byte: the supervisor's log thread  *)
(* writes a JSON message and its NUL in one write (exec.logging.cpp), its   *)
(* main thread writes single bytes (fork_worker, exec.childproc.cpp:50-84), *)
(* and handle_child_requests (200-273) takes them apart again.              *)
(*                                                                          *)
(* The reader is two reads of Boost.Asio on one streambuf.  async_read with *)
(* transfer_exactly(1) always transfers one more byte from the pipe,        *)
(* whatever the streambuf holds; async_read_until transfers all that a read *)
(* returns, and so may leave bytes behind the NUL in the streambuf.         *)
(***************************************************************************)
EXTENDS Integers, Sequences, SequencesExt, Counting

CONSTANTS
  Bodies,           \* Bodies[n]: the bytes between { and NUL of message n
  MaxCrashes,       \* bound on the crashes of the worker
  Chunk             \* the most bytes one read of async_read_until returns

ASSUME BodiesAssumption == Bodies \in [{"started", "errored"} -> Nat]
ASSUME ChannelCrashesAssumption == MaxCrashes \in Nat
ASSUME ChunkAssumption == Chunk \in Nat \ {0}

VARIABLES
  sup,              \* the supervisor: "fork", "wait" or "report"
  crashes,
  logq,             \* the messages its log thread has still to write
  pipe,             \* the bytes in the pipe
  buffer,           \* the streambuf
  pc,               \* the reader: in async_read "one" or async_read "until"
  sent,             \* what has been written, as the supervisor meant it
  handled           \* what the reader has acted on

readVars == <<buffer, pc, handled>>
vars == <<sup, crashes, logq, pipe, sent, readVars>>

(* A message on the wire: its opening brace, its body and its NUL, "0".     *)
Message(m) == <<"brace">> \o [i \in 1 .. Bodies[m] |-> "b"] \o <<"0">>

Init ==
  /\ sup = "fork" /\ crashes = 0 /\ logq = <<>>
  /\ pipe = <<>> /\ buffer = <<>> /\ pc = "one"
  /\ sent = <<>> /\ handled = <<>>

(***************************************************************************)
(* The supervisor: the loop of fork_worker hands messages to the log thread *)
(* and writes its own bytes when it gets there.                             *)
(***************************************************************************)
Fork ==
  /\ sup = "fork"
  /\ logq' = Append(logq, "started")
  /\ sup' = "wait"
  /\ UNCHANGED <<crashes, pipe, sent, readVars>>

Crash ==
  /\ sup = "wait"
  /\ crashes < MaxCrashes
  /\ crashes' = crashes + 1
  /\ logq' = Append(logq, "errored")
  /\ sup' = "report"
  /\ UNCHANGED <<pipe, sent, readVars>>

WriteResend ==
  /\ sup = "report"
  /\ pipe' = Append(pipe, "r")
  /\ sent' = Append(sent, "resend")
  /\ sup' = "fork"
  /\ UNCHANGED <<crashes, logq, readVars>>

(* rawfd: unparse, and one write of size() + 1 bytes.                       *)
BytesWithoutNul(m) == Front(Message(m))
BytesOf(m) == Message(m)
WriteLog ==
  /\ logq # <<>>
  /\ pipe' = pipe \o BytesOf(Head(logq))
  /\ sent' = Append(sent, "log")
  /\ logq' = Tail(logq)
  /\ UNCHANGED <<sup, crashes, readVars>>

(***************************************************************************)
(* handle_child_requests.                                                   *)
(***************************************************************************)
Request(byte) == IF byte = "r" THEN "resend" ELSE "unknown"
Act(byte) ==
  IF byte = "brace"
  THEN pc' = "until" /\ UNCHANGED handled
  ELSE UNCHANGED pc /\ handled' = Append(handled, Request(byte))

(* async_read(..., transfer_exactly(1)), then sbumpc: the byte that is      *)
(* taken is the oldest one, the one that was waited for goes to the end.    *)
NextByteNewest(b) == b[Len(b)]
NextByte(b) == Head(b)
ReadOne ==
  /\ pc = "one"
  /\ pipe # <<>>
  /\ LET b == Append(buffer, Head(pipe)) IN
       /\ buffer' = Tail(b)
       /\ Act(NextByte(b))
  /\ pipe' = Tail(pipe)
  /\ UNCHANGED <<sup, crashes, logq, sent>>

Nul(b) == SelectInSeq(b, LAMBDA byte : byte = "0")

(* async_read_until(..., 0): if the streambuf has no NUL, one read of what  *)
(* is there, up to Chunk bytes.                                             *)
NeedsMoreAlways == TRUE
NeedsMore == Nul(buffer) = 0
ReadMore ==
  /\ pc = "until"
  /\ NeedsMore
  /\ \E n \in 1 .. Len(pipe) :
       /\ n <= Chunk
       /\ buffer' = buffer \o SubSeq(pipe, 1, n)
       /\ pipe' = SubSeq(pipe, n + 1, Len(pipe))
  /\ UNCHANGED <<sup, crashes, logq, sent, pc, handled>>

(* The bytes up to the NUL, and no more, are the rest of the message.       *)
AfterMessageNothing(b) == <<>>
AfterMessage(b) == SubSeq(b, Nul(b) + 1, Len(b))
TakeMessage ==
  /\ pc = "until"
  /\ Nul(buffer) # 0
  /\ buffer' = AfterMessage(buffer)
  /\ handled' = Append(handled, "log")
  /\ pc' = "one"
  /\ UNCHANGED <<sup, crashes, logq, pipe, sent>>

(* All crashes have happened and no byte is left to be read.                *)
Quiet ==
  /\ sup = "wait" /\ crashes = MaxCrashes /\ logq = <<>>
  /\ pipe = <<>>
  /\ UNCHANGED vars

Next ==
  \/ Fork \/ Crash \/ WriteResend \/ WriteLog
  \/ ReadOne \/ ReadMore \/ TakeMessage
  \/ Quiet

Spec == Init /\ [][Next]_vars

(* The supervisor, its log thread and the reader run; the worker need not   *)
(* crash.                                                                   *)
FairSpec ==
  /\ Spec
  /\ WF_vars(Fork) /\ WF_vars(WriteResend) /\ WF_vars(WriteLog)
  /\ WF_vars(ReadOne) /\ WF_vars(ReadMore) /\ WF_vars(TakeMessage)

-----------------------------------------------------------------------------
BytesSent == {"brace", "b", "0", "r"}

(* The shape of every variable.                                             *)
TypeOK ==
  /\ sup \in {"fork", "wait", "report"} /\ crashes \in 0 .. MaxCrashes
  /\ logq \in Seq({"started", "errored"})
  /\ pipe \in Seq(BytesSent) /\ buffer \in Seq(BytesSent)
  /\ pc \in {"one", "until"}
  /\ sent \in Seq({"resend", "log"}) /\ handled \in Seq({"resend", "log"})

(* The bytes that complete a request or a message, and what they complete.  *)
Final == {"r", "0"}
Completed(bytes) == Copies(bytes, "r") + Copies(bytes, "0")
Meaning(byte) == IF byte = "r" THEN "resend" ELSE "log"

(* These bytes are what is left of what was written, behind what was done:  *)
(* the n-th thing they complete is the n-th of the rest.                    *)
Encode(bytes, done, written) ==
  /\ IsPrefix(done, written)
  /\ Len(written) = Len(done) + Completed(bytes)
  /\ \A i \in DOMAIN bytes :
       bytes[i] \in Final =>
         written[Len(done) + Completed(SubSeq(bytes, 1, i))] = Meaning(bytes[i])

(* Exactly what was written is acted on, once and in order, although the    *)
(* reader lags behind what it has read and the writers interleave: no byte  *)
(* of a log message is ever taken for a request, no request is swallowed    *)
(* with a message.                                                          *)
DecodedInOrder == Encode(buffer \o pipe, handled, sent)

(* The read-ahead does not build up: what stays in the streambuf never      *)
(* exceeds what a single read returned.                                     *)
ReadAheadBounded == pc = "one" => Len(buffer) < Chunk

(* The reader keeps up with the pipe, and never settles in a message.       *)
PipeDrained == pipe # <<>> ~> pipe = <<>> /\ pc = "one"

Requests(s) == Len(SelectSeq(s, LAMBDA e : e = "resend"))

(* wright-exec-helper/README.md:18: after a crash "any outstanding work is  *)
(* given to it again": each resend request is acted on, whether or not      *)
(* anything more is written.                                                *)
ResendsHandled == <>[](Requests(handled) = Requests(sent))

=============================================================================
