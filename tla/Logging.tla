------------------------------- MODULE Logging ------------------------------
(***************************************************************************)
(* The log messages of the child: any of its threads formats a line and    *)
(* queues it (logfunc), the log thread writes the lines to stderr          *)
(* (logWriter), and the communication thread of the client cuts what it    *)
(* reads from the pipe into lines again (_processLogs). stop_logging()     *)
(* closes stderr under the log thread to make it end.                      *)
(*                                                                         *)
(* A byte is a record: the child and the number of the message it belongs  *)
(* to, its place there, and whether it is a "\n", a "\r" or any other. The *)
(* first byte of a message stands for its "LEVEL|domain|".                 *)
(***************************************************************************)
EXTENDS Integers, Sequences, FiniteSets, SequencesExt

CONSTANTS
  Texts,        \* the messages: sequences of "text", "cr" and "nl"; a path can bring line
                \* ends of its own into a message
  MaxMessages,  \* bound: messages one child logs
  MaxChildren,  \* bound: children
  ReadSize,     \* bytes of one os.read(), 1024 in the code
  Faults        \* a subset of {"malloc", "crash"}

ASSUME ConstantsAssumption ==
  /\ \A t \in Texts : /\ t \in Seq({"text", "cr", "nl"})
                      /\ Len(t) > 0 /\ t[1] = "text" /\ Last(t) = "nl"
  /\ MaxMessages \in Nat /\ MaxChildren \in Nat \ {0} /\ ReadSize \in Nat \ {0}
  /\ Faults \subseteq {"malloc", "crash"}

VARIABLES
  child,        \* the number of the child
  pushed,       \* history: the messages this child has queued
  queue,        \* logger_queue
  text,         \* what the log thread has not written of its message
  logger,       \* the log thread: "pop", "write", "fwrite" (it holds stderr's lock), "done"
  closed,       \* fclose(stderr) was called
  main,         \* "serving", "closing", "joining", "exited" or "crashed"
  pipe,         \* the pipe of stderr
  partialLogs,  \* _partialLogs
  taken,        \* history: the number of bytes the client has read from this child
  lines         \* history: the lines the client has reported of this child

serverVars == <<child, pushed, queue, text, logger, closed, main>>
clientVars == <<partialLogs, taken, lines>>
vars == <<child, pushed, queue, text, logger, closed, main, pipe, partialLogs, taken, lines>>

Alive == main \in {"serving", "closing", "joining"}

\* The k-th message of child c.
Message(c, k, t) == [i \in 1..Len(t) |-> [child |-> c, msg |-> k, at |-> i, ch |-> t[i]]]

-----------------------------------------------------------------------------
(* The child: setup_logging(), logfunc(), logWriter(), stop_logging() *)

Init ==
  /\ child = 1 /\ pushed = <<>> /\ queue = <<>> /\ text = <<>> /\ logger = "pop"
  /\ closed = FALSE /\ main = "serving"
  /\ pipe = <<>> /\ partialLogs = <<>> /\ taken = 0 /\ lines = <<>>

\* logfunc(); without memory the message is dropped.
logfunc(t) ==
  LET m == Message(child, Len(pushed) + 1, t) IN
    \/ queue' = Append(queue, m) /\ pushed' = Append(pushed, m)
    \/ "malloc" \in Faults /\ UNCHANGED <<queue, pushed>>

\* Any thread of the child logs.
Log ==
  /\ main = "serving" /\ Len(pushed) < MaxMessages
  /\ \E t \in Texts : logfunc(t)
  /\ UNCHANGED <<child, text, logger, closed, main, pipe, clientVars>>

\* g_async_queue_pop() waits for a message.
LoggerPop ==
  /\ Alive /\ logger = "pop" /\ queue # <<>>
  /\ text' = Head(queue) /\ queue' = Tail(queue) /\ logger' = "write"
  /\ UNCHANGED <<child, pushed, closed, main, pipe, clientVars>>

\* A bug: the result of fwrite() is not looked at.
Mutant_StreamFails == FALSE

\* fwrite() fails on a stream that was closed: ferror() ends the loop.
StreamFails == closed

LoggerEnters ==
  /\ Alive /\ logger = "write"
  /\ logger' = IF StreamFails THEN "done" ELSE "fwrite"
  /\ UNCHANGED <<child, pushed, queue, text, closed, main, pipe, clientVars>>

\* The bytes arrive in the pipe in pieces, n at a time.
LoggerWrites(n) ==
  /\ Alive /\ logger = "fwrite" /\ n \in 1..Len(text)
  /\ pipe' = pipe \o SubSeq(text, 1, n)
  /\ text' = SubSeq(text, n + 1, Len(text))
  /\ logger' = IF n = Len(text) THEN "pop" ELSE "fwrite"
  /\ UNCHANGED <<child, pushed, queue, closed, main, clientVars>>

\* "Push a message so that the log thread shuts down".
CloseMessage == logfunc(<<"text", "nl">>)

\* communicate() has returned and main() calls stop_logging(): fclose() waits for the lock of
\* the stream, which a fwrite() holds.
StopLogging ==
  /\ main = "serving" /\ logger # "fwrite"
  /\ closed' = TRUE /\ main' = "closing"
  /\ UNCHANGED <<child, pushed, queue, text, logger, pipe, clientVars>>

StopLoggingPush ==
  /\ main = "closing"
  /\ CloseMessage /\ main' = "joining"
  /\ UNCHANGED <<child, text, logger, closed, pipe, clientVars>>

\* g_thread_join(log_writer), and main() returns.
StopLoggingJoin ==
  /\ main = "joining" /\ logger = "done"
  /\ main' = "exited"
  /\ UNCHANGED <<child, pushed, queue, text, logger, closed, pipe, clientVars>>

Crash ==
  /\ Alive /\ "crash" \in Faults
  /\ main' = "crashed"
  /\ UNCHANGED <<child, pushed, queue, text, logger, closed, pipe, clientVars>>

-----------------------------------------------------------------------------
(* The client: _processLogs(), and _run() for the next child *)

\* bytes.splitlines(True): a line ends after "\n", after "\r\n", or after a "\r" that no "\n"
\* follows. The last one may have no end.
EndsLine(d, i) == d[i].ch = "nl" \/ (d[i].ch = "cr" /\ ~(i < Len(d) /\ d[i + 1].ch = "nl"))
Ends(d) == {i \in DOMAIN d : EndsLine(d, i)}
Stops(d) == Ends(d) \cup {Len(d)}

\* The place where the k-th line of d stops.
Stop(d, k) == IF k = 0 THEN 0
              ELSE CHOOSE i \in Stops(d) : Cardinality({j \in Stops(d) : j <= i}) = k

splitlines(d) ==
  [k \in 1..Cardinality(Stops(d)) |-> SubSeq(d, Stop(d, k - 1) + 1, Stop(d, k))]

\* What is left of the last read comes first.
Joined(d) == partialLogs \o d

\* A bug: what was read is taken for one line.
Mutant_LinesOf(d) == <<Joined(d)>>

LinesOf(d) == splitlines(Joined(d))

\* The lines that do not end in "\n"; the loop leaves at the first.
Incomplete(ls) == {i \in DOMAIN ls : Last(ls[i]).ch # "nl"}

ProcessLogs(d) ==
  LET ls == LinesOf(d)
      stop == Incomplete(ls)
      first == CHOOSE i \in stop : \A j \in stop : i <= j
  IN /\ lines' = lines \o (IF stop = {} THEN ls ELSE SubSeq(ls, 1, first - 1))
     /\ partialLogs' = IF stop = {} THEN <<>> ELSE ls[first]

\* The communication thread reads what is there, at most ReadSize bytes.
ClientReads(n) ==
  /\ Alive /\ n \in 1..ReadSize /\ n <= Len(pipe)
  /\ ProcessLogs(SubSeq(pipe, 1, n))
  /\ pipe' = SubSeq(pipe, n + 1, Len(pipe))
  /\ taken' = taken + n
  /\ UNCHANGED serverVars

\* A bug: the rest of the old child's last line is kept.
Mutant_ResetPartial == partialLogs' = partialLogs

ResetPartial == partialLogs' = <<>>

\* The hang-up of the old child's pipes ends the thread before it reads what is left, and
\* _run() starts a new child.
ClientRestarts ==
  /\ ~Alive /\ child < MaxChildren
  /\ child' = child + 1 /\ pushed' = <<>> /\ queue' = <<>> /\ text' = <<>> /\ logger' = "pop"
  /\ closed' = FALSE /\ main' = "serving"
  /\ pipe' = <<>> /\ ResetPartial /\ taken' = 0 /\ lines' = <<>>

LoggerStep == LoggerPop \/ LoggerEnters \/ LoggerWrites(Len(text))

Next ==
  \/ Log \/ LoggerPop \/ LoggerEnters \/ (\E n \in 1..Len(text) : LoggerWrites(n))
  \/ StopLogging \/ StopLoggingPush \/ StopLoggingJoin \/ Crash
  \/ (\E n \in 1..ReadSize : ClientReads(n))
  \/ ClientRestarts

Spec == Init /\ [][Next]_vars

\* The log thread and the main thread run; the client reads, so a write to the pipe returns.
FairSpec ==
  /\ Spec
  /\ WF_vars(LoggerStep)
  /\ WF_vars(StopLoggingPush) /\ WF_vars(StopLoggingJoin)

-----------------------------------------------------------------------------
(* Properties *)

Bytes == [child : 1..MaxChildren, msg : 1..(MaxMessages + 1), at : Nat, ch : {"text", "cr", "nl"}]

\* Every variable holds what the code keeps in it: the log thread has bytes left exactly while
\* it writes, a reported line has ended and what the client keeps has not.
TypeOK ==
  /\ child \in 1..MaxChildren
  /\ logger \in {"pop", "write", "fwrite", "done"}
  /\ main \in {"serving", "closing", "joining", "exited", "crashed"} /\ closed \in BOOLEAN
  /\ pushed \in Seq(Seq(Bytes)) /\ queue \in Seq(Seq(Bytes)) /\ lines \in Seq(Seq(Bytes))
  /\ text \in Seq(Bytes) /\ pipe \in Seq(Bytes) /\ partialLogs \in Seq(Bytes) /\ taken \in Nat
  /\ Len(pushed) <= MaxMessages + (IF main \in {"serving", "closing"} THEN 0 ELSE 1)
  /\ logger = "pop" => text = <<>>
  /\ logger \in {"write", "fwrite"} => text # <<>>
  /\ \A i \in DOMAIN lines : lines[i] # <<>> /\ Last(lines[i]).ch = "nl"
  /\ partialLogs # <<>> => Last(partialLogs).ch # "nl"

\* In s, a byte that is no line end is followed by the next byte of its message.
Flows(s) ==
  \A i \in DOMAIN s : s[i].ch = "text" =>
    i < Len(s) /\ s[i + 1] = [s[i] EXCEPT !.at = @ + 1, !.ch = s[i + 1].ch]

\* What is on its way to the client.
Stream == partialLogs \o pipe \o text

\* What this child has queued.
Logged == FlattenSeq(pushed)

\* Every "\r" the client has read of this child is followed by a "\n". After any other, which
\* a path may bring into a message, _processLogs() keeps the line it takes for unfinished and
\* drops what it reads, until a read begins with a "\n" or the child is replaced.
Clean ==
  \A i \in 1..taken : Logged[i].ch = "cr" => i < Len(Logged) /\ Logged[i + 1].ch = "nl"

\* The inductive invariant: what is on its way, or waits for it, is whole but for the beginning
\* of the first line, and is all that was queued and not read; what was read is what is
\* reported or kept, while no "\r" stood alone.
LogInv ==
  /\ TypeOK
  /\ Flows(Stream) /\ \A i \in DOMAIN queue : queue[i] # <<>> /\ Flows(queue[i])
  /\ taken <= Len(Logged)
  /\ pipe \o text \o FlattenSeq(queue) = SubSeq(Logged, taken + 1, Len(Logged))
  /\ Clean => FlattenSeq(lines) \o partialLogs = SubSeq(Logged, 1, taken)

\* The length of a line without the "\n" behind a "\r".
Own(l) == IF Len(l) > 1 /\ l[Len(l) - 1].ch = "cr" THEN Len(l) - 1 ELSE Len(l)

\* No reported line holds bytes of two messages, the "\n" behind a "\r" excepted: neither the
\* cuts of the reads, the death of a child in the middle of a line nor what _processLogs() drops
\* after a lone "\r" put the "LEVEL|domain|" of one message inside another.
NoRawLogData ==
  \A i \in DOMAIN lines : \A j \in 1..Own(lines[i]) :
    lines[i][j] = [lines[i][1] EXCEPT !.at = @ + j - 1, !.ch = lines[i][j].ch]

\* What is reported of a child, with the line that has not ended, are the first bytes of its
\* messages in the order in which they were queued, as many as were read: none is left out,
\* repeated or out of its place, whatever the child loses at its end and wherever a read cuts,
\* also in the middle of a "\r\n". The exception is a child of which a "\r" without a "\n" was
\* read. The inductive invariant holds in either case.
ReportedInOrder ==
  /\ LogInv
  /\ Clean => FlattenSeq(lines) \o partialLogs = SubSeq(Logged, 1, taken)

\* stop_logging() ends the log thread, so that the process exits, whenever that thread has a
\* message left to take, CLOSE or an earlier one; without memory for CLOSE it may have none.
LogThreadStops ==
  main = "joining" /\ (queue # <<>> \/ logger # "pop") ~> main \in {"exited", "crashed"}
=============================================================================
