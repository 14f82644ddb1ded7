-------------------------- MODULE ResponseFraming ---------------------------
(***************************************************************************)
(* How a response crosses the response pipe: responseWriter() of the       *)
(* server, which writes the size and then the text and blocks while the    *)
(* pipe is full, and ResponseReader of the client, called when poll() says *)
(* that there is something to read. A unit of the pipe is the 8-byte size  *)
(* or a piece of the text.                                                 *)
(***************************************************************************)
EXTENDS Integers, Sequences, FiniteSets, SequencesExt

CONSTANTS
  Response,
  Size,        \* Size[r]: length of the text of r, which is a JSON map and never empty
  PipeCap      \* bound: units the pipe holds

VARIABLES
  server,        \* "up" or "dead"
  sent,          \* responses taken from responseQueue, in order
  sizeSent,      \* the size of the last of them has been written: "yes" or "no"
  bytesWritten, bufflen,
  pipe,
  comm,          \* the communication thread: "poll", "process", "failed"
  dataRemaining, dataBuffer,
  received       \* responses handed to pendingRequests

vars == <<server, sent, sizeSent, bytesWritten, bufflen, pipe, comm, dataRemaining, dataBuffer,
          received>>

Init ==
  /\ server = "up" /\ sent = <<>> /\ sizeSent = "yes" /\ bytesWritten = 0 /\ bufflen = 0
  /\ pipe = <<>> /\ comm = "poll" /\ dataRemaining = 0 /\ dataBuffer = <<>>
  /\ received = <<>>

Unit(r, n) == [resp |-> r, n |-> n]
text(r) == [i \in 1..Size[r] |-> Unit(r, i)]

-----------------------------------------------------------------------------
(* responseWriter() *)

\* jdGenerator_generate() of the next response.
WriterPop(r) ==
  /\ server = "up" /\ sizeSent = "yes" /\ bytesWritten = bufflen /\ ~Contains(sent, r)
  /\ sent' = Append(sent, r)
  /\ bufflen' = Size[r]
  /\ sizeSent' = "no"
  /\ UNCHANGED <<server, bytesWritten, pipe, comm, dataRemaining, dataBuffer, received>>

\* A bug: the size counts the terminating zero.
Mutant_SizeField == bufflen + 1

SizeField == bufflen

WriterSize ==
  /\ server = "up" /\ sizeSent = "no" /\ Len(pipe) < PipeCap
  /\ pipe' = Append(pipe, Unit(Last(sent), SizeField))
  /\ sizeSent' = "yes" /\ bytesWritten' = 0
  /\ UNCHANGED <<server, sent, bufflen, comm, dataRemaining, dataBuffer, received>>

WriterData ==
  /\ server = "up" /\ sizeSent = "yes" /\ bytesWritten < bufflen
  /\ \E n \in 1..(bufflen - bytesWritten) :
       /\ n <= PipeCap - Len(pipe)
       /\ pipe' = pipe \o SubSeq(text(Last(sent)), bytesWritten + 1, bytesWritten + n)
       /\ bytesWritten' = bytesWritten + n
  /\ UNCHANGED <<server, sent, sizeSent, bufflen, comm, dataRemaining, dataBuffer, received>>

\* The process ends, maybe between a size and its text or in the middle of a text.
ServerDie ==
  /\ server = "up"
  /\ server' = "dead"
  /\ UNCHANGED <<sent, sizeSent, bytesWritten, bufflen, pipe, comm, dataRemaining, dataBuffer,
                 received>>

-----------------------------------------------------------------------------
(* ResponseReader.process() *)

\* poll() reports data; the size is read unless a response is half read already.
CommReadable ==
  /\ comm = "poll" /\ server = "up" /\ pipe # <<>>
  /\ IF dataRemaining = 0 THEN dataRemaining' = Head(pipe).n /\ pipe' = Tail(pipe)
                          ELSE UNCHANGED <<dataRemaining, pipe>>
  /\ comm' = "process"
  /\ UNCHANGED <<server, sent, sizeSent, bytesWritten, bufflen, dataBuffer, received>>

\* poll() reports that the pipe is closed: what is still in it is not read.
CommHangup ==
  /\ comm = "poll" /\ server = "dead"
  /\ comm' = "failed"
  /\ UNCHANGED <<server, sent, sizeSent, bytesWritten, bufflen, pipe, dataRemaining, dataBuffer,
                 received>>

\* json.loads() accepts the text of one response and nothing else.
Decodes(b) == b # <<>> /\ b = text(Head(b).resp)

\* The read of the text. EAGAIN is tried again at once, without a pause: the thread spins
\* inside process() until there is something to read. The end of the pipe reads as nothing,
\* and process() returns.
CommProcess ==
  /\ comm = "process" /\ (pipe # <<>> \/ server = "dead")
  /\ LET n == IF Len(pipe) < dataRemaining THEN Len(pipe) ELSE dataRemaining
         b == dataBuffer \o SubSeq(pipe, 1, n)
     IN  /\ pipe' = SubSeq(pipe, n + 1, Len(pipe))
         /\ dataRemaining' = dataRemaining - n
         /\ IF n < dataRemaining
            THEN dataBuffer' = b /\ comm' = "poll" /\ UNCHANGED received
            ELSE /\ dataBuffer' = <<>>
                 /\ comm' = IF Decodes(b) THEN "poll" ELSE "failed"
                 /\ received' = IF Decodes(b) THEN Append(received, Head(b).resp) ELSE received
  /\ UNCHANGED <<server, sent, sizeSent, bytesWritten, bufflen>>

Writer == WriterSize \/ WriterData \/ \E r \in Response : WriterPop(r)
Comm   == CommReadable \/ CommHangup \/ CommProcess

-----------------------------------------------------------------------------
(* Properties *)

UnitOf == [resp : Response, n : Nat]

\* Counters and buffers of both ends are what their code expects; what is half read and what
\* is missing make up one response.
TypeOK ==
  /\ server \in {"up", "dead"} /\ comm \in {"poll", "process", "failed"}
  /\ sizeSent \in {"yes", "no"} /\ sent \in Seq(Response) /\ received \in Seq(Response)
  /\ bufflen \in Nat /\ bytesWritten \in Nat /\ (sizeSent = "yes" => bytesWritten <= bufflen)
  /\ pipe \in Seq(UnitOf) /\ Len(pipe) <= PipeCap
  /\ dataBuffer \in Seq(UnitOf) /\ dataRemaining \in Nat
  /\ \/ dataBuffer = <<>> /\ dataRemaining = 0
     \/ \E r \in Response : Len(dataBuffer) + dataRemaining = Size[r]

Pipe == INSTANCE Channel WITH Message <- Response

\* The client gets the responses the server has taken from its queue, whole, once and in that
\* order, wherever the process dies.
ImplementsChannel == Pipe!Spec

\* The communication thread fails over a response only when the server has died.
FailsWithServer == comm = "failed" => server = "dead"
=============================================================================
