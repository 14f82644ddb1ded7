------------------------------- MODULE Server -------------------------------
(***************************************************************************)
(* The ioprocess server: the threads that communicate() of ioprocess.c     *)
(* starts, the queues between them, the thread pool that runs the exported *)
(* functions, the counter that limits the number of admitted requests and  *)
(* the shutdown of the process.                                            *)
(*                                                                         *)
(*   request pipe -> requestReader -> requestQueue -> requestHandler       *)
(*     -> thread pool (servRequest) -> responseQueue -> responseWriter     *)
(*     -> response pipe                                                    *)
(*                                                                         *)
(* A message of a pipe is one element of a sequence; how messages are cut  *)
(* into bytes is not the subject of this module.                           *)
(***************************************************************************)
EXTENDS Integers, Sequences, FiniteSets

CONSTANTS
  Request,     \* the requests a client may send, each at most once
  Kind,        \* Kind[r]: what is in the message of request r
  MaxThreads,  \* MAX_THREADS, 0 for an unlimited pool
  MaxQueued,   \* MAX_QUEUED_REQUESTS, negative for an unlimited queue
  PipeCap,     \* bound: messages a pipe holds before its writer must wait
  Faults,      \* the failures of the environment that may happen
  STOP,        \* STOP_PTR, the element that ends a queue
  NoReq        \* no request in hand

\* What a message holds: a method that returns, one that may block for ever on its file
\* system, an unknown one, no id or no method name, the exported function "crash", or bytes
\* that are not JSON.
Kinds == {"call", "hang", "nomethod", "noid", "crash", "garbage"}

\* The options parseCmdLine() accepts.
OptionsAccepted ==
  /\ MaxThreads \in Nat
  /\ MaxQueued \in Int
  /\ MaxQueued >= 0 => MaxThreads > 0

ASSUME OptionsAssumption == OptionsAccepted

ASSUME ConstantsAssumption ==
  /\ IsFiniteSet(Request)
  /\ Kind \in [Request -> Kinds]
  /\ PipeCap \in Nat \ {0}
  /\ Faults \subseteq {"malloc", "pthread", "write"}
  /\ STOP \notin Request
  /\ NoReq \notin Request
  /\ Request \cap {"pipe", "free"} = {}

VARIABLES
  client,        \* "open" while the client holds its ends of both pipes, or "closed"
  reqPipe,       \* messages in the request pipe
  written,       \* responses written to the response pipe, in order
  nread,         \* how many of them the client has read
  stage,         \* stage[r]: how far request r has come
  heap,          \* requests whose JsonNode is allocated in the server
  requestQueue, responseQueue,   \* the two queues of IOProcessCtx
  poolQueue,     \* tasks the thread pool has not started
  poolThreads,   \* threads that serve the pool, busy or waiting for a task
  queueSlotsLeft,
  READ_PIPE_FD,  \* "fd", the number it had at start, or "none" (-1)
  readFd,        \* what the descriptor READ_PIPE_FD named at start refers to:
                 \* the request pipe, nothing, or a file some request opened
  reader, handler, writer, main, \* where each thread is
  hreq,          \* the request requestHandler works on
  wresp,         \* the response responseWriter works on
  proc           \* "up", "exited" (main returned) or "killed"

envVars   == <<client, nread>>
queueVars == <<requestQueue, responseQueue, poolQueue, poolThreads>>
fdVars    == <<READ_PIPE_FD, readFd>>
pcVars    == <<reader, handler, writer, main>>
handVars  == <<hreq, wresp>>
vars == <<client, reqPipe, written, nread, stage, heap, requestQueue, responseQueue,
          poolQueue, poolThreads, queueSlotsLeft, READ_PIPE_FD, readFd, reader, handler,
          writer, main, hreq, wresp, proc>>

Stages == {"new", "piped", "malformed", "queued", "handling", "lost", "rejecting",
           "rejected", "pooled", "running", "answering", "releasing", "finished"}

Statuses == {"done", "einval", "eagain"}
Response == [req : Request, status : Statuses]
NoResp   == [req |-> NoReq, status |-> "none"]

\* STOP_PTR is not the address of a node.
ASSUME StopAssumption == STOP \notin Response

\* The answer buildResponse() makes for request r. What goes over the pipe is the request's id;
\* a request without one gets -1, which belongs to no call of the client.
buildResponse(r, status) == [req |-> r, status |-> status]

\* Requests that hold a slot, and those a pool thread works on.
Admitted == {r \in Request : stage[r] \in {"pooled", "running", "answering", "releasing"}}
Busy     == {r \in Request : stage[r] \in {"running", "answering", "releasing"}}

Bounded  == MaxQueued >= 0
Capacity == MaxThreads + MaxQueued

Init ==
  /\ client = "open"
  /\ reqPipe = <<>> /\ written = <<>> /\ nread = 0
  /\ stage = [r \in Request |-> "new"]
  /\ heap = {}
  /\ requestQueue = <<>> /\ responseQueue = <<>> /\ poolQueue = <<>>
  /\ poolThreads = 0
  /\ queueSlotsLeft = Capacity + 1
  /\ READ_PIPE_FD = "fd" /\ readFd = "pipe"
  /\ reader = "enter" /\ handler = "pop" /\ writer = "pop" /\ main = "reader"
  /\ hreq = NoReq /\ wresp = NoResp
  /\ proc = "up"

-----------------------------------------------------------------------------
(***************************************************************************)
(* The client, as far as the server sees it: it writes requests, reads     *)
(* responses, closes both pipes (or dies) and kills the process afterwards.*)
(***************************************************************************)
ClientSend(r) ==
  /\ proc = "up" /\ client = "open"
  /\ stage[r] = "new" /\ Len(reqPipe) < PipeCap
  /\ reqPipe' = Append(reqPipe, r)
  /\ stage' = [stage EXCEPT ![r] = "piped"]
  /\ UNCHANGED <<envVars, written, heap, queueVars, queueSlotsLeft, fdVars, pcVars,
                 handVars, proc>>

ClientRecv ==
  /\ client = "open" /\ nread < Len(written)
  /\ nread' = nread + 1
  /\ UNCHANGED <<client, reqPipe, written, stage, heap, queueVars, queueSlotsLeft,
                 fdVars, pcVars, handVars, proc>>

ClientClose ==
  /\ client = "open"
  /\ client' = "closed"
  /\ UNCHANGED <<reqPipe, written, nread, stage, heap, queueVars, queueSlotsLeft,
                 fdVars, pcVars, handVars, proc>>

ClientKill ==
  /\ proc = "up" /\ client = "closed"
  /\ proc' = "killed"
  /\ UNCHANGED <<envVars, reqPipe, written, stage, heap, queueVars, queueSlotsLeft,
                 fdVars, pcVars, handVars>>

-----------------------------------------------------------------------------
(* requestReader() *)

\* The call of read(): on the pipe, on a descriptor that was closed (EBADF ends the
\* thread's loop), or on the file of a worker that got the same descriptor number.
ReaderEnter ==
  /\ proc = "up" /\ reader = "enter"
  /\ \/ readFd = "pipe" /\ reader' = "inread"
     \/ readFd = "free" /\ reader' = "stop"
     \/ readFd \in Request /\ reader' = "stolen"
  /\ UNCHANGED <<envVars, reqPipe, written, stage, heap, queueVars, queueSlotsLeft,
                 fdVars, handler, writer, main, handVars, proc>>

\* The size of a message arrives. Closing the descriptor does not wake a thread that is
\* already in read(), so this does not depend on readFd.
ReaderSize ==
  /\ proc = "up" /\ reader = "inread" /\ reqPipe # <<>>
  /\ reader' = "payload"
  /\ UNCHANGED <<envVars, reqPipe, written, stage, heap, queueVars, queueSlotsLeft,
                 fdVars, handler, writer, main, handVars, proc>>

\* The message itself: a second read() of the same descriptor. Bytes that do not parse end
\* the loop, and so does a descriptor that was closed in the meantime.
ReaderPayload ==
  /\ proc = "up" /\ reader = "payload"
  /\ LET r == Head(reqPipe) IN
       \/ /\ readFd # "pipe"
          /\ reader' = IF readFd = "free" THEN "stop" ELSE "stolen"
          /\ UNCHANGED <<reqPipe, stage, heap, requestQueue>>
       \/ /\ readFd = "pipe" /\ Kind[r] = "garbage"
          /\ reqPipe' = Tail(reqPipe)
          /\ stage' = [stage EXCEPT ![r] = "malformed"]
          /\ reader' = "stop"
          /\ UNCHANGED <<heap, requestQueue>>
       \/ /\ readFd = "pipe" /\ Kind[r] # "garbage"
          /\ reqPipe' = Tail(reqPipe)
          /\ stage' = [stage EXCEPT ![r] = "queued"]
          /\ heap' = heap \cup {r}
          /\ requestQueue' = Append(requestQueue, r)
          /\ reader' = "enter"
  /\ UNCHANGED <<envVars, written, responseQueue, poolQueue, poolThreads, queueSlotsLeft,
                 fdVars, handler, writer, main, handVars, proc>>

\* The client closed its end: read() returns 0 for the size, which the code does not test.
ReaderEof ==
  /\ proc = "up" /\ reader = "inread" /\ reqPipe = <<>> /\ client = "closed"
  /\ reader' = "eof"
  /\ UNCHANGED <<envVars, reqPipe, written, stage, heap, queueVars, queueSlotsLeft,
                 fdVars, handler, writer, main, handVars, proc>>

\* It goes on to the read() of the message, which returns 0 as well, or fails when the
\* descriptor was closed in between, or reads the file that got its number.
ReaderPipeClosed ==
  /\ proc = "up" /\ reader = "eof"
  /\ reader' = IF readFd \in Request THEN "stolen" ELSE "stop"
  /\ UNCHANGED <<envVars, reqPipe, written, stage, heap, queueVars, queueSlotsLeft,
                 fdVars, handler, writer, main, handVars, proc>>

\* What was read from a worker's file is not a request: the loop ends.
ReaderStolen ==
  /\ proc = "up" /\ reader = "stolen"
  /\ reader' = "stop"
  /\ UNCHANGED <<envVars, reqPipe, written, stage, heap, queueVars, queueSlotsLeft,
                 fdVars, handler, writer, main, handVars, proc>>

\* A bug: the reader leaves without announcing its end.
Mutant_EndOfRequests == UNCHANGED requestQueue

EndOfRequests == requestQueue' = Append(requestQueue, STOP)

\* A bug: the error path does not leave the loop.
Mutant_AfterLoop == "enter"

AfterLoop == "done"

ReaderStop ==
  /\ proc = "up" /\ reader = "stop"
  /\ EndOfRequests
  /\ reader' = AfterLoop
  /\ UNCHANGED <<envVars, reqPipe, written, stage, heap, responseQueue, poolQueue, poolThreads,
                 queueSlotsLeft, fdVars, handler, writer, main, handVars, proc>>

-----------------------------------------------------------------------------
(* requestHandler() *)

IsStop(x) == x = STOP

\* g_async_queue_pop and the allocation of RequestParams.
HandlerPop ==
  /\ proc = "up" /\ handler = "pop" /\ requestQueue # <<>>
  /\ requestQueue' = Tail(requestQueue)
  /\ LET r == Head(requestQueue) IN
       \/ /\ IsStop(r)
          /\ handler' = "stopcheck"
          /\ UNCHANGED <<stage, hreq>>
       \/ /\ ~IsStop(r)
          /\ handler' = "admit" /\ hreq' = r
          /\ stage' = [stage EXCEPT ![r] = "handling"]
       \/ /\ ~IsStop(r) /\ "malloc" \in Faults
          /\ handler' = "stopcheck"
          /\ stage' = [stage EXCEPT ![r] = "lost"]
          /\ UNCHANGED hreq
  /\ UNCHANGED <<envVars, reqPipe, written, heap, responseQueue, poolQueue, poolThreads,
                 queueSlotsLeft, fdVars, reader, writer, main, wresp, proc>>

\* A bug: the counter is tested before the decrement.
Mutant_DecAndTest == queueSlotsLeft = 0

DecAndTest == queueSlotsLeft - 1 = 0

\* g_atomic_int_dec_and_test: one atomic step, and zero means that the queue is full.
HandlerAdmit ==
  /\ proc = "up" /\ handler = "admit"
  /\ IF Bounded
     THEN /\ queueSlotsLeft' = queueSlotsLeft - 1
          /\ handler' = IF DecAndTest THEN "reject" ELSE "push"
     ELSE handler' = "push" /\ UNCHANGED queueSlotsLeft
  /\ stage' = [stage EXCEPT ![hreq] = IF handler' = "reject" THEN "rejecting" ELSE @]
  /\ UNCHANGED <<envVars, reqPipe, written, heap, queueVars, fdVars, reader, writer,
                 main, handVars, proc>>

\* A bug: a rejected request gets no answer.
Mutant_RespondFull(r) == UNCHANGED responseQueue

RespondFull(r) == responseQueue' = Append(responseQueue, buildResponse(r, "eagain"))

\* servQueueFull(): it answers EAGAIN and frees neither the request nor its parameters.
servQueueFull ==
  /\ proc = "up" /\ handler = "reject"
  /\ RespondFull(hreq)
  /\ stage' = [stage EXCEPT ![hreq] = "rejected"]
  /\ handler' = "undo"
  /\ UNCHANGED <<envVars, reqPipe, written, heap, requestQueue, poolQueue, poolThreads,
                 queueSlotsLeft, fdVars, reader, writer, main, handVars, proc>>

\* A bug: a rejection keeps its slot.
Mutant_UndoSlot == UNCHANGED queueSlotsLeft

UndoSlot == queueSlotsLeft' = queueSlotsLeft + 1

HandlerUndo ==
  /\ proc = "up" /\ handler = "undo"
  /\ UndoSlot
  /\ handler' = "pop" /\ hreq' = NoReq
  /\ UNCHANGED <<envVars, reqPipe, written, stage, heap, queueVars, fdVars, reader,
                 writer, main, wresp, proc>>

\* g_thread_pool_push: a thread is added when none waits for a task and the pool may grow.
\* When it cannot be created the task is queued all the same and the handler leaves its loop.
PoolGrows == /\ Len(poolQueue) + Cardinality(Busy) >= poolThreads
             /\ MaxThreads = 0 \/ poolThreads < MaxThreads

HandlerPush ==
  /\ proc = "up" /\ handler = "push"
  /\ poolQueue' = Append(poolQueue, hreq)
  /\ stage' = [stage EXCEPT ![hreq] = "pooled"]
  /\ hreq' = NoReq
  /\ \/ /\ poolThreads' = IF PoolGrows THEN poolThreads + 1 ELSE poolThreads
        /\ handler' = "pop"
     \/ /\ "pthread" \in Faults /\ PoolGrows
        /\ handler' = "stopcheck"
        /\ UNCHANGED poolThreads
  /\ UNCHANGED <<envVars, reqPipe, written, heap, requestQueue, responseQueue,
                 queueSlotsLeft, fdVars, reader, writer, main, wresp, proc>>

\* stop_request_reader(), called by two threads without a lock: the test of READ_PIPE_FD
\* and the close are two steps, and the variable is read again for the close.
StopReaderTest == READ_PIPE_FD # "none"

StopReaderClose ==
  /\ \/ readFd' = "free"
     \/ READ_PIPE_FD = "none" /\ UNCHANGED readFd
  /\ READ_PIPE_FD' = "none"

HandlerStopCheck ==
  /\ proc = "up" /\ handler = "stopcheck"
  /\ handler' = IF StopReaderTest THEN "stopclose" ELSE "flush"
  /\ UNCHANGED <<envVars, reqPipe, written, stage, heap, queueVars, queueSlotsLeft,
                 fdVars, reader, writer, main, handVars, proc>>

HandlerStopClose ==
  /\ proc = "up" /\ handler = "stopclose"
  /\ StopReaderClose
  /\ handler' = "flush"
  /\ UNCHANGED <<envVars, reqPipe, written, stage, heap, queueVars, queueSlotsLeft,
                 reader, writer, main, handVars, proc>>

\* A bug: the pool is freed without waiting for the running tasks.
Mutant_PoolDrained == poolQueue = <<>>

PoolDrained == poolQueue = <<>> /\ Busy = {}

\* g_thread_pool_free(pool, FALSE, TRUE) waits for the queued and the running tasks;
\* then the end of the responses is announced.
HandlerFlush ==
  /\ proc = "up" /\ handler = "flush"
  /\ PoolDrained
  /\ responseQueue' = Append(responseQueue, STOP)
  /\ handler' = "done"
  /\ UNCHANGED <<envVars, reqPipe, written, stage, heap, requestQueue, poolQueue, poolThreads,
                 queueSlotsLeft, fdVars, reader, writer, main, handVars, proc>>

-----------------------------------------------------------------------------
(* servRequest(), one pool thread per request *)

\* A thread of the pool takes the task that was pushed first.
WorkerStart ==
  /\ proc = "up" /\ poolQueue # <<>>
  /\ Cardinality(Busy) < poolThreads
  /\ poolQueue' = Tail(poolQueue)
  /\ stage' = [stage EXCEPT ![Head(poolQueue)] = "running"]
  /\ UNCHANGED <<envVars, reqPipe, written, heap, requestQueue, responseQueue, poolThreads,
                 queueSlotsLeft, fdVars, pcVars, handVars, proc>>

\* A thread of a shared pool that finds no task for half a second leaves the pool.
PoolRetire ==
  /\ proc = "up" /\ poolQueue = <<>> /\ Cardinality(Busy) < poolThreads
  /\ poolThreads' = poolThreads - 1
  /\ UNCHANGED <<envVars, reqPipe, written, stage, heap, requestQueue, responseQueue,
                 poolQueue, queueSlotsLeft, fdVars, pcVars, handVars, proc>>

\* The exported function opens a file and gets the descriptor number the pipe had.
WorkerOpen(r) ==
  /\ proc = "up" /\ stage[r] = "running" /\ Kind[r] \in {"call", "hang"}
  /\ readFd = "free"
  /\ readFd' = r
  /\ UNCHANGED <<envVars, reqPipe, written, stage, heap, queueVars, queueSlotsLeft,
                 READ_PIPE_FD, pcVars, handVars, proc>>

\* Extraction of the request, look-up of the method and the call of it. Without an id or
\* a method name there is no answer; "crash" calls exit(1).
WorkerCallback(r) ==
  /\ proc = "up" /\ stage[r] = "running"
  /\ IF Kind[r] = "crash"
     THEN proc' = "killed" /\ UNCHANGED <<stage, readFd>>
     ELSE /\ stage' = [stage EXCEPT ![r] = IF Kind[r] = "noid" THEN "releasing"
                                                              ELSE "answering"]
          /\ readFd' = IF readFd = r THEN "free" ELSE readFd
          /\ UNCHANGED proc
  /\ UNCHANGED <<envVars, reqPipe, written, heap, queueVars, queueSlotsLeft, READ_PIPE_FD,
                 pcVars, handVars>>

\* A bug: the answer is queued again.
Mutant_Answered(r) == "answering"

Answered(r) == "releasing"

\* The response is queued before the slot is given back.
WorkerAnswer(r) ==
  /\ proc = "up" /\ stage[r] = "answering"
  /\ responseQueue' = Append(responseQueue,
       buildResponse(r, IF Kind[r] = "nomethod" THEN "einval" ELSE "done"))
  /\ stage' = [stage EXCEPT ![r] = Answered(r)]
  /\ UNCHANGED <<envVars, reqPipe, written, heap, requestQueue, poolQueue, poolThreads,
                 queueSlotsLeft, fdVars, pcVars, handVars, proc>>

\* A bug: the early exit of a request without an id keeps its slot.
Mutant_ReleaseSlot(r) ==
  queueSlotsLeft' = IF Bounded /\ Kind[r] # "noid" THEN queueSlotsLeft + 1 ELSE queueSlotsLeft

ReleaseSlot(r) ==
  queueSlotsLeft' = IF Bounded THEN queueSlotsLeft + 1 ELSE queueSlotsLeft

\* A bug: the early exit of a request without an id skips the clean-up.
Mutant_FreeRequest(r) == heap' = IF Kind[r] = "noid" THEN heap ELSE heap \ {r}

FreeRequest(r) == heap' = heap \ {r}

WorkerRelease(r) ==
  /\ proc = "up" /\ stage[r] = "releasing"
  /\ stage' = [stage EXCEPT ![r] = "finished"]
  /\ FreeRequest(r)
  /\ ReleaseSlot(r)
  /\ UNCHANGED <<envVars, reqPipe, written, queueVars, fdVars, pcVars, handVars, proc>>

-----------------------------------------------------------------------------
(* responseWriter() *)

\* g_async_queue_pop and the text of the response. The code tests the text for NULL, but
\* jdGenerator_generate() has copied into it by then: without memory the process dies.
WriterPop ==
  /\ proc = "up" /\ writer = "pop" /\ responseQueue # <<>>
  /\ responseQueue' = Tail(responseQueue)
  /\ \/ /\ Head(responseQueue) = STOP
        /\ writer' = "done"
        /\ UNCHANGED <<wresp, proc>>
     \/ /\ Head(responseQueue) # STOP
        /\ writer' = "write"
        /\ wresp' = Head(responseQueue)
        /\ UNCHANGED proc
     \/ /\ Head(responseQueue) # STOP /\ "malloc" \in Faults
        /\ proc' = "killed"
        /\ UNCHANGED <<writer, wresp>>
  /\ UNCHANGED <<envVars, reqPipe, written, stage, heap, requestQueue, poolQueue, poolThreads,
                 queueSlotsLeft, fdVars, reader, handler, main, hreq>>

WriterWrite ==
  /\ proc = "up" /\ writer = "write" /\ client = "open"
  /\ Len(written) - nread < PipeCap
  /\ written' = Append(written, wresp)
  /\ wresp' = NoResp
  /\ writer' = "pop"
  /\ UNCHANGED <<envVars, reqPipe, stage, heap, queueVars, queueSlotsLeft, fdVars,
                 reader, handler, main, hreq, proc>>

\* Nobody reads the pipe any more: SIGPIPE ends the process, unless whoever started it
\* left the signal ignored, in which case write() fails and the thread stops.
WriterBroken ==
  /\ proc = "up" /\ writer = "write" /\ client = "closed"
  /\ \/ proc' = "killed" /\ UNCHANGED writer
     \/ "write" \in Faults /\ writer' = "stopcheck" /\ UNCHANGED proc
  /\ UNCHANGED <<envVars, reqPipe, written, stage, heap, queueVars, queueSlotsLeft,
                 fdVars, reader, handler, main, handVars>>

WriterStopCheck ==
  /\ proc = "up" /\ writer = "stopcheck"
  /\ writer' = IF StopReaderTest THEN "stopclose" ELSE "failed"
  /\ UNCHANGED <<envVars, reqPipe, written, stage, heap, queueVars, queueSlotsLeft,
                 fdVars, reader, handler, main, handVars, proc>>

WriterStopClose ==
  /\ proc = "up" /\ writer = "stopclose"
  /\ StopReaderClose
  /\ writer' = "failed"
  /\ UNCHANGED <<envVars, reqPipe, written, stage, heap, queueVars, queueSlotsLeft,
                 reader, handler, main, handVars, proc>>

-----------------------------------------------------------------------------
(* communicate(): the joins of the main thread, in their order *)

\* A bug: the reader is not joined.
Mutant_ReaderJoined == TRUE

ReaderJoined == reader = "done"

MainJoin ==
  /\ proc = "up"
  /\ \/ main = "reader" /\ ReaderJoined /\ main' = "handler" /\ UNCHANGED proc
     \/ main = "handler" /\ handler = "done" /\ main' = "writer" /\ UNCHANGED proc
     \/ main = "writer" /\ writer \in {"done", "failed"}
        /\ main' = "returned" /\ proc' = "exited"
  /\ UNCHANGED <<envVars, reqPipe, written, stage, heap, queueVars, queueSlotsLeft,
                 fdVars, reader, handler, writer, handVars>>

\* The process has ended and the client is gone.
Ended ==
  /\ proc # "up" /\ client = "closed"
  /\ UNCHANGED vars

Reader  == \/ ReaderEnter \/ ReaderSize \/ ReaderPayload \/ ReaderEof
           \/ ReaderPipeClosed \/ ReaderStolen \/ ReaderStop
Handler == \/ HandlerPop \/ HandlerAdmit \/ servQueueFull \/ HandlerUndo \/ HandlerPush
           \/ HandlerStopCheck \/ HandlerStopClose \/ HandlerFlush
Worker(r) == WorkerOpen(r) \/ WorkerCallback(r) \/ WorkerAnswer(r) \/ WorkerRelease(r)
Writer  == WriterPop \/ WriterWrite \/ WriterBroken \/ WriterStopCheck \/ WriterStopClose

Next ==
  \/ \E r \in Request : ClientSend(r)
  \/ ClientRecv \/ ClientClose \/ ClientKill
  \/ Reader \/ Handler \/ Writer \/ MainJoin
  \/ WorkerStart \/ PoolRetire
  \/ \E r \in Request : Worker(r)
  \/ Ended

Spec == Init /\ [][Next]_vars

\* Every thread of the process keeps running, an exported function that can return does,
\* and the client reads what it is sent while it is there.
Fairness ==
  /\ WF_vars(Reader) /\ WF_vars(Handler) /\ WF_vars(Writer) /\ WF_vars(MainJoin)
  /\ WF_vars(WorkerStart)
  /\ \A r \in Request : /\ Kind[r] # "hang" => WF_vars(WorkerCallback(r))
                        /\ WF_vars(WorkerAnswer(r)) /\ WF_vars(WorkerRelease(r))
  /\ WF_vars(ClientRecv)

FairSpec == Spec /\ Fairness

-----------------------------------------------------------------------------
(* Properties *)

\* Every queue holds what its threads expect of it, and every thread is at a place of its
\* code.
TypeOK ==
  /\ client \in {"open", "closed"} /\ READ_PIPE_FD \in {"fd", "none"}
  /\ reqPipe \in Seq(Request) /\ poolQueue \in Seq(Request)
  /\ written \in Seq(Response) /\ nread \in 0..Len(written)
  /\ stage \in [Request -> Stages]
  /\ heap \in SUBSET Request
  /\ requestQueue \in Seq(Request \cup {STOP})
  /\ responseQueue \in Seq(Response \cup {STOP})
  /\ poolThreads \in Nat /\ queueSlotsLeft \in Int
  /\ readFd \in {"pipe", "free"} \cup Request
  /\ reader \in {"enter", "inread", "payload", "eof", "stolen", "stop", "done"}
  /\ handler \in {"pop", "admit", "reject", "undo", "push", "stopcheck", "stopclose",
                  "flush", "done"}
  /\ writer \in {"pop", "write", "stopcheck", "stopclose", "failed", "done"}
  /\ main \in {"reader", "handler", "writer", "returned"}
  /\ hreq \in Request \cup {NoReq}
  /\ wresp \in Response \cup {NoResp}
  /\ proc \in {"up", "exited", "killed"}

\* The request requestHandler holds a slot for, between its decrement and the moment the
\* pool has the task or the rejection is undone.
InHand == IF handler \in {"reject", "undo", "push"} THEN {hreq} ELSE {}

\* The counter that limits the queue is exact at every step, although the handler and the
\* workers change it without a lock and a worker's increment comes after its answer: one
\* slot per admitted request and one for the request in the handler's hands.
SlotAccounting ==
  Bounded => queueSlotsLeft = Capacity + 1 - Cardinality(Admitted) - Cardinality(InHand)

\* No more than MaxThreads + MaxQueued requests are in the pool or being served, and no
\* more than MaxThreads of them are being served, as the options of the program say.
AdmissionBound ==
  /\ Bounded => Cardinality(Admitted) <= Capacity
  /\ MaxThreads > 0 => Cardinality(Busy) <= MaxThreads

\* requestHandler turns a request away only when every slot is really taken: the increment
\* of a rejected request never makes a later request see a full queue.
RejectionHonest ==
  [][handler = "admit" /\ handler' = "reject" => Cardinality(Admitted) = Capacity]_vars

\* Every response made for request r so far: in the queue, in the writer's hands, written.
Answers(r) ==
  Cardinality({i \in DOMAIN responseQueue : responseQueue[i] # STOP /\ responseQueue[i].req = r})
  + (IF wresp.req = r THEN 1 ELSE 0)
  + Cardinality({i \in DOMAIN written : written[i].req = r})

\* A request is answered at most once, whichever of rejection, unknown method, success and
\* shutdown happens to it, and never without having been served or rejected.
AtMostOneResponse ==
  \A r \in Request : Answers(r) <= (IF stage[r] \in {"rejected", "releasing", "finished"}
                                    THEN 1 ELSE 0)

\* When requestHandler has returned, so that its stack frame with the counter is gone, no
\* worker can touch the counter any more; when communicate() drops the queues, no thread
\* that uses them is left.
NoUseAfterFree ==
  /\ handler = "done" => Admitted = {}
  /\ main = "returned" => reader = "done" /\ handler = "done" /\ writer \in {"done", "failed"}

\* The stop marker of responseWriter comes behind every response, so that a process that
\* exits by itself has answered every request it had read, the one without an id excepted;
\* a failed allocation or thread creation may leave requests in the queue, no other place.
DrainOnExit ==
  proc = "exited" /\ writer = "done" =>
    \A r \in Request :
      \/ stage[r] \in {"new", "piped", "malformed"}
      \/ stage[r] \in {"queued", "lost"} /\ Faults \cap {"malloc", "pthread"} # {}
      \/ stage[r] = "finished" /\ Kind[r] = "noid"
      \/ stage[r] \in {"finished", "rejected"} /\ \E i \in DOMAIN written : written[i].req = r

\* requestReader never reads from a descriptor that is not the request pipe: the number is
\* closed, and free for a worker's open(), only once the thread has left its loop.
ReaderStaysOnPipe == reader # "stolen"

\* A request's memory lasts as long as a queue or a thread still refers to it and is given
\* back by every way of serving it; only what the reader could not parse was never
\* allocated, and only requests turned away (servQueueFull frees nothing) or dropped for
\* lack of memory keep theirs.
NodeLifetime ==
  /\ \A r \in Request : stage[r] \notin {"new", "piped", "malformed", "finished"} => r \in heap
  /\ \A r \in heap : stage[r] # "finished"

\* Requests sent, the one in the handler's hands included, whose answer the client lacks.
Outstanding == {r \in Request : stage[r] # "new" /\ \A i \in 1..nread : written[i].req # r}

\* A client that sends its next request only when it has received the answers of all but
\* Capacity - 1 of the earlier ones.
KeepsLimit ==
  \A r \in Request : stage[r] = "new" /\ stage'[r] # "new" => Cardinality(Outstanding) < Capacity

PatientSpec == Init /\ [][Next /\ KeepsLimit]_vars

\* No request is turned away: of a client that never has more than MaxThreads + MaxQueued
\* calls under way, the handler refuses none.
NoSpuriousEAGAIN == [][~(handler = "admit" /\ handler' = "reject")]_vars

\* No call that may block for ever is left in the server or the request pipe.
NoneHangs == \A r \in Request : Kind[r] = "hang" => stage[r] \in {"new", "rejected", "finished"}

\* Once the client has closed its pipes, or died, the process ends by itself.
ExitsWithClient == client = "closed" /\ NoneHangs ~> proc # "up"

\* Calls that block for ever in their file system, fewer than there are threads, do not
\* keep the others of a client that sends requests only from being answered, with a result
\* or EAGAIN, unless the process ends.
OthersAnswered ==
  \A r \in Request :
    stage[r] = "piped" /\ Kind[r] \in {"call", "nomethod"}
      ~> (\E i \in DOMAIN written : written[i].req = r) \/ proc # "up" \/ client = "closed"

-----------------------------------------------------------------------------
(***************************************************************************)
(* The inductive invariant the proofs of ServerProofs rest on: where a     *)
(* request is agrees with how far it has come, so that no step counts it   *)
(* twice, and the counter never reaches zero outside a rejection.          *)
(***************************************************************************)
\* Where requestHandler has a request in hand.
Handling == {"admit", "reject", "undo", "push"}

\* A thread that is about to use what it took has taken it.
HandsInv ==
  /\ writer = "write" => wresp \in Response
  /\ handler \in Handling => hreq \in Request
  /\ reader = "payload" => reqPipe # <<>>

\* Queue q holds distinct requests, all of which f says are at stage st.
Holds(q, f, st) ==
  /\ \A i \in DOMAIN q : q[i] # STOP => f[q[i]] = st
  /\ \A i, j \in DOMAIN q : q[i] # STOP /\ q[i] = q[j] => i = j

\* Every request that f says is at stage st is in queue q.
Within(q, f, st) == \A r \in Request : f[r] = st => \E i \in DOMAIN q : q[i] = r

\* Where a request lies and the stage it has reached agree.
PlacesInv ==
  /\ Holds(reqPipe, stage, "piped")
  /\ Holds(requestQueue, stage, "queued")
  /\ Holds(poolQueue, stage, "pooled")
  /\ Within(poolQueue, stage, "pooled")
  /\ handler \in {"admit", "push"} => stage[hreq] = "handling"
  /\ handler = "reject" => stage[hreq] = "rejecting"
  /\ handler = "undo" => stage[hreq] = "rejected"

\* The counter is exact and, outside a rejection, positive: dec_and_test never passes zero.
SlotsInv ==
  /\ SlotAccounting
  /\ Bounded => queueSlotsLeft >= (IF handler \in {"reject", "undo"} THEN 0 ELSE 1)
  /\ handler \in {"reject", "undo"} => Bounded
  /\ Cardinality(Busy) <= poolThreads
  /\ MaxThreads > 0 => poolThreads <= MaxThreads

\* The order in which the threads of the process end. Unless an allocation or the creation of
\* a thread fails, requestHandler stops only after requestReader has ended and the queue
\* between them is empty; without failures the descriptor of the pipe is closed later still.
ShutdownInv ==
  /\ handler = "done" => poolQueue = <<>> /\ Busy = {}
  /\ main # "reader" => reader = "done"
  /\ main \in {"writer", "returned"} => handler = "done"
  /\ main = "returned" => writer \in {"done", "failed"}
  /\ \A i \in DOMAIN requestQueue :
       requestQueue[i] = STOP => reader = "done" /\ i = Len(requestQueue)
  /\ Faults \cap {"malloc", "pthread"} = {}
       /\ handler \in {"stopcheck", "stopclose", "flush", "done"} =>
         reader = "done" /\ requestQueue = <<>>
  /\ Faults = {} =>
       /\ writer \notin {"stopcheck", "stopclose", "failed"}
       /\ readFd # "pipe" => reader = "done"
       /\ reader # "stolen"

\* What holds of the threads, the queues between them and the counter.
ThreadsInv == TypeOK /\ HandsInv /\ PlacesInv /\ SlotsInv /\ ShutdownInv

\* x is a response to request r; one is among the elements of q; and there is only one.
AnswerTo(x, r) == x # STOP /\ x.req = r
Among(q, r)    == \E i \in DOMAIN q : AnswerTo(q[i], r)
Once(q, r)     == \A i, j \in DOMAIN q : AnswerTo(q[i], r) /\ AnswerTo(q[j], r) => i = j

\* A response is in one place of the way from the workers to the pipe, and its request has
\* been served or turned away.
AnswersInv ==
  /\ writer \in {"pop", "done"} => wresp = NoResp
  /\ \A r \in Request :
       /\ Once(responseQueue, r) /\ Once(written, r)
       /\ ~(Among(responseQueue, r) /\ Among(written, r))
       /\ AnswerTo(wresp, r) => ~Among(responseQueue, r) /\ ~Among(written, r)
       /\ Among(responseQueue, r) \/ AnswerTo(wresp, r) \/ Among(written, r) =>
            stage[r] \in {"rejected", "releasing", "finished"}

\* The requests that must have a response by now.
Owed(r) == \/ stage[r] = "rejected"
           \/ stage[r] \in {"releasing", "finished"} /\ Kind[r] # "noid"

\* The stop marker of responseWriter is the last element of its queue: whoever queues a
\* response does so while requestHandler has not queued the marker.
StopLast ==
  /\ \A i \in DOMAIN responseQueue :
       responseQueue[i] = STOP => handler = "done" /\ i = Len(responseQueue)
  /\ writer = "done" => handler = "done" /\ responseQueue = <<>>

\* What the reader has queued stays queued until the handler takes it, and the handler keeps
\* what it took until the pool or the writer has it.
NoneMislaid ==
  /\ Within(requestQueue, stage, "queued")
  /\ \A r \in Request :
       /\ stage[r] = "handling" => handler \in {"admit", "push"} /\ hreq = r
       /\ stage[r] = "rejecting" => handler = "reject" /\ hreq = r
       /\ stage[r] = "lost" => "malloc" \in Faults

\* A process that was not killed has every response it owes in its queue, in the hands of
\* responseWriter or in the pipe.
NoneDropped ==
  /\ proc = "exited" => main = "returned"
  /\ \A r \in Request :
       Owed(r) => \/ Among(responseQueue, r) \/ AnswerTo(wresp, r) \/ Among(written, r)
                  \/ proc = "killed"

\* The inductive invariant.
ServerInv ==
  ThreadsInv /\ NodeLifetime /\ AnswersInv /\ StopLast /\ NoneMislaid /\ NoneDropped
-----------------------------------------------------------------------------
(* The server is a child process as the client knows it. *)

\* A request counts as sent once it is in the pipe, and as answered once its response is
\* written.
SentUnanswered ==
  {r \in Request : stage[r] # "new" /\ \A i \in DOMAIN written : written[i].req # r}

Unread == [i \in 1..(Len(written) - nread) |-> written[nread + i].req]

Child == INSTANCE ChildProcess WITH
           Message   <- Request,
           state     <- IF proc = "up" THEN "up" ELSE "dead",
           pending   <- SentUnanswered,
           responses <- Unread

\* Seen through its pipes the server is a ChildProcess: whatever its threads do, it writes
\* one response per request at most and none that was not asked for.
ImplementsChild == Child!Spec
=============================================================================
