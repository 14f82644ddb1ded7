--------------------------- MODULE RequestFraming ---------------------------
(***************************************************************************)
(* How a request crosses the request pipe: _requestToBytes() and           *)
(* DataSender of the client, which writes without blocking, and the loop   *)
(* of requestReader() in the server, which reads a size and then as many   *)
(* bytes. A unit of the pipe is the 8-byte size, which is never split (the *)
(* client writes only after POLLOUT, when a page of the pipe is free), or  *)
(* a piece of the text.                                                    *)
(***************************************************************************)
EXTENDS Integers, Sequences, FiniteSets, SequencesExt

CONSTANTS
  Request,
  Text,        \* Text[r]: how many ASCII and other characters the request has
  PipeCap,     \* bound: units the pipe holds
  Faults       \* {"malloc"} when the buffer of a request may not be available

VARIABLES
  sent,          \* requests DataSender was made for, in order
  dataPending,   \* units DataSender has not written
  pipe,
  client,        \* "open", or "closed" when it has closed its end or died
  reader,        \* "size", "data", "oom", or "done" after the loop
  reqSize,       \* as the last read of a size left it
  bytesPending, buffer,
  received       \* requests pushed to requestQueue

vars == <<sent, dataPending, pipe, client, reader, reqSize, bytesPending, buffer, received>>

Init ==
  /\ sent = <<>> /\ dataPending = <<>> /\ pipe = <<>> /\ client = "open"
  /\ reader = "size" /\ reqSize = 0 /\ bytesPending = 0 /\ buffer = <<>>
  /\ received = <<>>

-----------------------------------------------------------------------------
(* _requestToBytes() and DataSender *)

\* A bug: json.dumps(..., ensure_ascii=False).
Mutant_dumps(t) == t

\* json.dumps() writes any character that is not ASCII as an escape sequence.
dumps(t) == [ascii |-> t.ascii + 2 * t.wide, wide |-> 0]

\* The size counts the characters of the text; what follows is its UTF-8 encoding.
Unit(r, n, last) == [req |-> r, n |-> n, last |-> last]
requestToBytes(r) ==
  LET text  == dumps(Text[r])
      bytes == text.ascii + 2 * text.wide
  IN  <<Unit(r, text.ascii + text.wide, FALSE)>>
        \o [i \in 1..bytes |-> Unit(r, i, i = bytes)]

SenderBegin(r) ==
  /\ client = "open" /\ dataPending = <<>> /\ ~Contains(sent, r)
  /\ sent' = Append(sent, r)
  /\ dataPending' = requestToBytes(r)
  /\ UNCHANGED <<pipe, client, reader, reqSize, bytesPending, buffer, received>>

\* A bug: what was written is not cut off.
Mutant_Remaining(n) == dataPending

Remaining(n) == SubSeq(dataPending, n + 1, Len(dataPending))

\* os.write() takes as much as it likes of what fits.
SenderWrite ==
  /\ client = "open" /\ dataPending # <<>>
  /\ \E n \in 1..Len(dataPending) :
       /\ n <= PipeCap - Len(pipe)
       /\ pipe' = pipe \o SubSeq(dataPending, 1, n)
       /\ dataPending' = Remaining(n)
  /\ UNCHANGED <<sent, client, reader, reqSize, bytesPending, buffer, received>>

\* The client closes its pipes or dies, maybe in the middle of a request.
SenderClose ==
  /\ client = "open"
  /\ client' = "closed"
  /\ UNCHANGED <<sent, dataPending, pipe, reader, reqSize, bytesPending, buffer, received>>

-----------------------------------------------------------------------------
(* requestReader() *)

Wanted(size) == size

\* The read of the size is tested for an error only: at the end of the pipe it leaves in
\* reqSize the size of the request before.
ReaderSize ==
  /\ reader = "size" /\ (pipe # <<>> \/ client = "closed")
  /\ IF pipe = <<>> THEN UNCHANGED <<pipe, reqSize>>
                    ELSE pipe' = Tail(pipe) /\ reqSize' = Head(pipe).n
  /\ \/ reader' = "data" /\ bytesPending' = Wanted(reqSize') /\ buffer' = <<>>
     \/ "malloc" \in Faults /\ reader' = "oom" /\ UNCHANGED <<bytesPending, buffer>>
  /\ UNCHANGED <<sent, dataPending, client, received>>

\* jdParser_buildDom() accepts the text of one request and nothing else.
Parses(b) == b # <<>> /\ b = Tail(requestToBytes(Head(b).req))

\* read() returns what there is, up to what is asked for; the request that is complete is
\* parsed and queued.
ReaderData ==
  /\ reader = "data" /\ pipe # <<>> /\ bytesPending > 0
  /\ LET n == IF Len(pipe) < bytesPending THEN Len(pipe) ELSE bytesPending IN
       /\ pipe' = SubSeq(pipe, n + 1, Len(pipe))
       /\ bytesPending' = bytesPending - n
       /\ buffer' = buffer \o SubSeq(pipe, 1, n)
  /\ \/ bytesPending' > 0 /\ UNCHANGED <<reader, received>>
     \/ /\ bytesPending' = 0
        /\ received' = IF Parses(buffer') THEN Append(received, Head(buffer').req) ELSE received
        /\ reader' = IF Parses(buffer') THEN "size" ELSE "done"
  /\ UNCHANGED <<sent, dataPending, client, reqSize>>

\* read() returns 0: at the end of the pipe, and for a size of 0.
EndOfPipe == bytesPending = 0 \/ (pipe = <<>> /\ client = "closed")

ReaderEof ==
  /\ reader = "data" /\ EndOfPipe
  /\ reader' = "done"
  /\ UNCHANGED <<sent, dataPending, pipe, client, reqSize, bytesPending, buffer, received>>

Sender == SenderWrite \/ \E r \in Request : SenderBegin(r)
Reader == ReaderSize \/ ReaderData \/ ReaderEof

-----------------------------------------------------------------------------
(* Properties *)

UnitOf == [req : Request, n : Nat, last : BOOLEAN]

\* Sizes and buffers are what requestReader expects of them; the bytes it still wants never
\* exceed the size it has read.
TypeOK ==
  /\ sent \in Seq(Request) /\ received \in Seq(Request)
  /\ dataPending \in Seq(UnitOf) /\ pipe \in Seq(UnitOf) /\ buffer \in Seq(UnitOf)
  /\ client \in {"open", "closed"} /\ reader \in {"size", "data", "oom", "done"}
  /\ reqSize \in Nat /\ bytesPending \in 0..reqSize
  /\ Len(pipe) <= PipeCap /\ (reader = "data" => Len(buffer) + bytesPending = reqSize)

Pipe == INSTANCE Channel WITH Message <- Request

\* requestReader queues the requests DataSender was given, whole, once and in their order,
\* however writes and reads cut them and wherever the client stops; a size left over from an
\* earlier request never makes a request of its own.
ImplementsChannel == Pipe!Spec

\* requestReader leaves its loop only when the client has closed the pipe: no cut or mixed-up
\* request makes it give up on a client that is there.
StopsWithClient == reader = "done" => client = "closed"
=============================================================================
