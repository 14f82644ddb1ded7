------------------------------- MODULE Framing ------------------------------
(***************************************************************************)
(* The two pipes between a client and its child: RequestFraming and        *)
(* ResponseFraming composed. Both client ends belong to one thread, the    *)
(* communication thread; the server ends belong to requestReader and       *)
(* responseWriter, and a response is written to a request that was read.   *)
(***************************************************************************)
EXTENDS Integers, Sequences, FiniteSets, SequencesExt

CONSTANTS
  Request,     \* a response is named by its request
  Text, Size,  \* what the texts of a request and of its response are made of
  PipeCap,     \* bound: units each pipe holds
  Faults

ASSUME ConstantsAssumption ==
  /\ IsFiniteSet(Request) /\ PipeCap \in Nat \ {0} /\ Faults \subseteq {"malloc"}
  /\ Size \in [Request -> Nat \ {0}]
  /\ \A r \in Request : /\ Text[r].ascii \in Nat /\ Text[r].wide \in Nat
                        /\ Text[r].ascii + Text[r].wide > 0

VARIABLES
  sent, dataPending, pipe, client, reader, reqSize, bytesPending, buffer, received,
  server, answered, sizeSent, bytesWritten, bufflen, respPipe, comm, dataRemaining, dataBuffer,
  results

reqVars  == <<sent, dataPending, pipe, client, reader, reqSize, bytesPending, buffer, received>>
respVars == <<server, answered, sizeSent, bytesWritten, bufflen, respPipe, comm, dataRemaining,
              dataBuffer, results>>
vars == <<reqVars, respVars>>

Req  == INSTANCE RequestFraming
Resp == INSTANCE ResponseFraming WITH
          Response <- Request, sent <- answered, pipe <- respPipe, received <- results

Init == Req!Init /\ Resp!Init

-----------------------------------------------------------------------------
(* The communication thread: it sends while it is not busy with a response. *)

SenderBegin ==
  /\ comm = "poll" /\ server = "up"
  /\ \E r \in Request : Req!SenderBegin(r)
  /\ UNCHANGED respVars

SenderWrite == comm = "poll" /\ server = "up" /\ Req!SenderWrite /\ UNCHANGED respVars

Comm == client = "open" /\ Resp!Comm /\ UNCHANGED reqVars

\* close(), the death of the client, or the kill after a response that cannot be read.
ClientClose == Req!SenderClose /\ UNCHANGED respVars

-----------------------------------------------------------------------------
(* The child: requestReader and responseWriter. *)

Reader == server = "up" /\ Req!Reader /\ UNCHANGED respVars

\* The answer to a request that was read, in any order: workers run side by side.
Answer ==
  /\ client = "open"
  /\ \E r \in Request : Contains(received, r) /\ Resp!WriterPop(r)
  /\ UNCHANGED reqVars

Writer == client = "open" /\ (Resp!WriterSize \/ Resp!WriterData) /\ UNCHANGED reqVars

ServerDie == Resp!ServerDie /\ UNCHANGED reqVars

\* All calls are answered, or one side has gone and the other has noticed.
Quiet ==
  /\ \/ Len(results) = Cardinality(Request)
     \/ server = "dead" /\ (comm = "failed" \/ client = "closed")
     \/ reader \in {"done", "oom"}
  /\ UNCHANGED vars

Next ==
  \/ SenderBegin \/ SenderWrite \/ Comm \/ ClientClose
  \/ Reader \/ Answer \/ Writer \/ ServerDie \/ Quiet

Spec == Init /\ [][Next]_vars

\* The threads of both processes keep running, and every request that was read is served.
FairSpec ==
  /\ Spec
  /\ WF_vars(SenderWrite) /\ WF_vars(Comm)
  /\ WF_vars(Reader) /\ WF_vars(Answer) /\ WF_vars(Writer)

-----------------------------------------------------------------------------
(* Properties *)

\* Counters and buffers of the four ends are what their code expects of them.
TypeOK == Req!TypeOK /\ Resp!TypeOK

\* The units of all texts but the first k.
Ahead(texts, k) == FlattenSeq(SubSeq(texts, k + 1, Len(texts)))

requestTexts  == [i \in 1..Len(sent) |-> Req!requestToBytes(sent[i])]
responseTexts == [i \in 1..Len(answered) |->
                    <<Resp!Unit(answered[i], Size[answered[i]])>> \o Resp!text(answered[i])]

\* What requestReader has of the request it reads, what is in the pipe and what DataSender has
\* not written are together what was sent and not yet queued, unless the client has gone.
RequestInv ==
  /\ Len(received) <= Len(sent)
  /\ reader = "size" =>
       bytesPending = 0 /\ pipe \o dataPending = Ahead(requestTexts, Len(received))
  /\ reader = "data" =>
       \/ client = "closed" /\ pipe = <<>> /\ buffer = <<>>
       \/ /\ Len(received) < Len(sent) /\ bytesPending > 0
          /\ LET t == Tail(requestTexts[Len(received) + 1]) IN
               /\ reqSize = Len(t)
               /\ buffer \o (pipe \o dataPending) = t \o Ahead(requestTexts, Len(received) + 1)

\* The part of the last response that responseWriter has not written.
unwritten ==
  IF sizeSent = "no" THEN responseTexts[Len(answered)]
  ELSE IF bytesWritten = bufflen THEN <<>>
  ELSE SubSeq(Resp!text(answered[Len(answered)]), bytesWritten + 1, bufflen)

\* The same of the responses, unless the communication thread has failed.
ResponseInv ==
  /\ Len(results) <= Len(answered)
  /\ IF answered = <<>> THEN sizeSent = "yes" /\ bytesWritten = 0 /\ bufflen = 0
                        ELSE bufflen = Size[answered[Len(answered)]]
  /\ comm # "failed" =>
       \/ /\ comm = "poll" /\ dataRemaining = 0 /\ dataBuffer = <<>>
          /\ respPipe \o unwritten = Ahead(responseTexts, Len(results))
       \/ /\ Len(results) < Len(answered) /\ dataRemaining > 0
          /\ LET t == Tail(responseTexts[Len(results) + 1]) IN
               /\ Len(dataBuffer) + dataRemaining = Len(t)
               /\ dataBuffer \o (respPipe \o unwritten)
                    = t \o Ahead(responseTexts, Len(results) + 1)

\* The inductive invariant.
FramingInv == TypeOK /\ RequestInv /\ ResponseInv

\* Requests and responses cross their pipes whole, once and in order, however writes and
\* reads cut them and wherever either process stops.
ImplementsChannels == Req!ImplementsChannel /\ Resp!ImplementsChannel

\* Neither reader gives up on a peer that is still there: no cut or mixed-up message ends
\* requestReader's loop or the communication thread.
FailsOnlyWithPeer == FramingInv /\ Req!StopsWithClient /\ Resp!FailsWithServer

\* A call that was begun gets its response although both pipes may be full at once: the
\* communication thread, which does both, never waits in one direction for the other. A
\* request that was written completely is read also when the client closes its end right
\* behind it, and the reader of a client that has gone ends.
CallCompletes ==
  /\ \A r \in Request :
       /\ Contains(sent, r)
            ~> Contains(results, r) \/ reader = "oom" \/ server = "dead" \/ client = "closed"
       /\ Contains(sent, r) /\ (dataPending = <<>> \/ Head(dataPending).req # r)
            ~> Contains(received, r) \/ reader = "oom" \/ server = "dead"
  /\ client = "closed" ~> reader \in {"done", "oom"} \/ server = "dead"
=============================================================================
