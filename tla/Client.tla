------------------------------- MODULE Client -------------------------------
(***************************************************************************)
(* The Python client (bindings/python/ioprocess/__init__.py): callers that *)
(* queue commands and wake the communication thread through the event      *)
(* pipe, the poll loop of _communicate(), the restart of a child process   *)
(* that died, and close().                                                 *)
(*                                                                         *)
(* The g-th child process and the communication thread that serves it form *)
(* generation g. A child is what Server models, seen through its pipes: it *)
(* answers the requests it has received in any order, or dies.             *)
(***************************************************************************)
EXTENDS Integers, Sequences, FiniteSets

CONSTANTS
  Call,       \* the calls of the program, each made by a thread of its own
  MaxGen,     \* bound: how many children are started
  Chunks,     \* os.write() calls it takes to send one request
  Faults,     \* what may happen: see ConstantsAssumption
  NoMsg       \* nothing to send

ASSUME ConstantsAssumption ==
  /\ IsFiniteSet(Call)
  /\ MaxGen \in Nat \ {0} /\ Chunks \in Nat \ {0}
  /\ Faults \subseteq
       {"crash",       \* a child dies at any time
        "garbled",     \* a response is not the JSON text it should be
        "startcrash",  \* ... also before the constructor has returned
        "timeout",     \* the timeout of a call expires
        "slow",        \* a new thread does not start within wait_until_ready
        "fdreuse",     \* the number of a closed descriptor is given to another file
        "close"}       \* the program closes the client or drops its last reference
  /\ NoMsg \notin [id : Nat, call : Call]
  /\ Call \cap {"none", "crash"} = {}

Gen == 1..MaxGen

VARIABLES
  commandQueue,  \* _commandQueue
  pings,         \* bytes in the event pipe
  evtFd,         \* what _eventFdReciever and _eventFdSender name: "open", "closed", "reused"
  isRunning,     \* _isRunning: "yes" or "no"
  lock,          \* _lock: 0 when free, else the generation whose thread holds it
  commthread,    \* the generation of self._commthread, 0 before it is set
  started,       \* the event _started: "set" or "clear"
  reqId,         \* _reqId
  spawned,       \* children started so far
  init,          \* the constructor: "run", "assign", "wait", "ready"
  closer,        \* close(): "idle", "ping", "fds", "join", "closed" or "collected"
  caller,        \* caller[c]: "idle", "put", "wait", "done", "Timeout", "Closed"
  result,        \* result[c]: "none", "crash" or the call whose result was delivered
  late,          \* calls begun after close() had returned
  th,            \* th[g]: where the communication thread of generation g is
  batch,         \* batch[g]: what is left of the list poll() returned
  dataSender,    \* dataSender[g]: the request being sent, and the writes it still takes
  pending,       \* pending[g]: pendingRequests, a function from request ids to calls
  child,         \* child[g]: "none", "up" or "dead"
  received,      \* received[g]: requests the child has read and not answered
  responses      \* responses[g]: responses in the pipe from the child

selfVars   == <<commandQueue, pings, evtFd, isRunning, lock, commthread, started, reqId>>
callerVars == <<caller, late>>
commVars   == <<batch, dataSender, pending>>
childVars  == <<child, received, responses>>
vars == <<commandQueue, pings, evtFd, isRunning, lock, commthread, started, reqId, spawned,
          init, closer, caller, result, late, th, batch, dataSender, pending, child,
          received, responses>>

NoResult == "none"
Crashed  == "crash"

\* Nothing is left of a message once the last write has been made, which DataSender finds
\* out at its next turn.
Sending(m, n) == [msg |-> m, left |-> n]
NotSending == Sending(NoMsg, 0)

Init ==
  /\ commandQueue = <<>> /\ pings = 0 /\ evtFd = "open"
  /\ isRunning = "yes" /\ lock = 0 /\ commthread = 0 /\ started = "clear" /\ reqId = 0
  /\ spawned = 0 /\ init = "run" /\ closer = "idle"
  /\ caller = [c \in Call |-> "idle"]
  /\ result = [c \in Call |-> NoResult]
  /\ late = {}
  /\ th = [g \in Gen |-> "none"]
  /\ batch = [g \in Gen |-> <<>>]
  /\ dataSender = [g \in Gen |-> NotSending]
  /\ pending = [g \in Gen |-> <<>>]
  /\ child = [g \in Gen |-> "none"]
  /\ received = [g \in Gen |-> {}]
  /\ responses = [g \in Gen |-> <<>>]

-----------------------------------------------------------------------------
(* _run() and _startCommunication() *)

\* _run() as far as the start of the new thread; the caller then stores it in _commthread
\* and waits for the thread to report that it runs. thr is th after the caller's own step.
Run(thr) ==
  /\ spawned < MaxGen
  /\ spawned' = spawned + 1
  /\ child' = [child EXCEPT ![spawned'] = "up"]
  /\ started' = "clear"
  /\ th' = [thr EXCEPT ![spawned'] = "start"]

\* _started.wait(self._wait_until_ready) is over.
StartedOrTimeout == started = "set" \/ "slow" \in Faults

\* __init__(): _run() without the lock.
InitRun ==
  /\ init = "run"
  /\ Run(th)
  /\ init' = "assign"
  /\ UNCHANGED <<commandQueue, pings, evtFd, isRunning, lock, commthread, reqId, closer,
                 callerVars, result, commVars, received, responses>>

InitAssign ==
  /\ init = "assign"
  /\ commthread' = 1
  /\ init' = "wait"
  /\ UNCHANGED <<commandQueue, pings, evtFd, isRunning, lock, started, reqId, spawned,
                 closer, callerVars, result, th, commVars, childVars>>

InitWait ==
  /\ init = "wait" /\ StartedOrTimeout
  /\ init' = "ready"
  /\ UNCHANGED <<selfVars, spawned, closer, callerVars, result, th, commVars, childVars>>

-----------------------------------------------------------------------------
(* _sendCommand() *)

CallerPut(c) ==
  /\ init = "ready" /\ closer # "collected" /\ caller[c] = "idle"
  /\ commandQueue' = Append(commandQueue, c)
  /\ caller' = [caller EXCEPT ![c] = "put"]
  /\ late' = IF closer = "closed" THEN late \cup {c} ELSE late
  /\ UNCHANGED <<pings, evtFd, isRunning, lock, commthread, started, reqId, spawned, init,
                 closer, result, th, commVars, childVars>>

\* _pingPoller(): a byte for the event pipe. The write to a closed descriptor raises Closed;
\* a descriptor that names another file takes the byte.
CallerPing(c) ==
  /\ caller[c] = "put"
  /\ pings' = IF evtFd = "open" THEN pings + 1 ELSE pings
  /\ caller' = [caller EXCEPT ![c] = IF evtFd = "closed" THEN "Closed" ELSE "wait"]
  /\ UNCHANGED <<commandQueue, evtFd, isRunning, lock, commthread, started, reqId, spawned,
                 init, closer, result, late, th, commVars, childVars>>

CallerReturn(c) ==
  /\ caller[c] = "wait"
  /\ \/ result[c] # NoResult /\ caller' = [caller EXCEPT ![c] = "done"]
     \/ result[c] = NoResult /\ "timeout" \in Faults
        /\ caller' = [caller EXCEPT ![c] = "Timeout"]
  /\ UNCHANGED <<selfVars, spawned, init, closer, result, late, th, commVars, childVars>>

-----------------------------------------------------------------------------
(* close() and __del__() *)

\* The block that holds the lock.
CloseBegin ==
  /\ "close" \in Faults /\ init = "ready" /\ closer = "idle" /\ lock = 0
  /\ isRunning' = "no"
  /\ closer' = "ping"
  /\ UNCHANGED <<commandQueue, pings, evtFd, lock, commthread, started, reqId, spawned,
                 init, callerVars, result, th, commVars, childVars>>

ClosePing ==
  /\ closer = "ping"
  /\ pings' = pings + 1
  /\ closer' = "fds"
  /\ UNCHANGED <<commandQueue, evtFd, isRunning, lock, commthread, started, reqId, spawned,
                 init, callerVars, result, th, commVars, childVars>>

CloseEventFds == evtFd' = "closed"

\* The descriptors are closed; close(True) then joins the thread it finds in _commthread,
\* close(False) is the one of __del__: nobody uses the object any more and it is freed.
CloseFds ==
  /\ closer = "fds"
  /\ CloseEventFds
  /\ \/ closer' = "join"
     \/ /\ \A c \in Call : caller[c] \notin {"put", "wait"}
        /\ \A g \in Gen : th[g] \notin {"batch", "lock", "assign", "wait"}
        /\ closer' = "collected"
  /\ UNCHANGED <<commandQueue, pings, isRunning, lock, commthread, started, reqId, spawned,
                 init, callerVars, result, th, commVars, childVars>>

CloseJoin ==
  /\ closer = "join" /\ th[commthread] = "done"
  /\ closer' = "closed"
  /\ UNCHANGED <<selfVars, spawned, init, callerVars, result, th, commVars, childVars>>

\* Another thread of the program opens a file.
FdReuse ==
  /\ "fdreuse" \in Faults /\ evtFd = "closed"
  /\ evtFd' = "reused"
  /\ UNCHANGED <<commandQueue, pings, isRunning, lock, commthread, started, reqId, spawned,
                 init, closer, callerVars, result, th, commVars, childVars>>

-----------------------------------------------------------------------------
(* _communicate() *)

\* The weak reference still yields the object.
Alive == closer # "collected"

\* The thread reports that it runs and copies the descriptor it polls. When the object is
\* already gone it returns at once, without the cleanup; when the descriptor is closed, or
\* names another file, it ends by way of the cleanup.
CommStart(g) ==
  /\ th[g] = "start"
  /\ \/ ~Alive /\ th' = [th EXCEPT ![g] = "leaked"] /\ UNCHANGED started
     \/ /\ Alive
        /\ started' = "set"
        /\ th' = [th EXCEPT ![g] = IF evtFd = "open" THEN "poll" ELSE "fin"]
  /\ UNCHANGED <<commandQueue, pings, evtFd, isRunning, lock, commthread, reqId, spawned,
                 init, closer, callerVars, result, commVars, childVars>>

\* What poll() can return, in the order the descriptors were registered: the log pipe, the
\* event pipe, the pipe from the child, the pipe to the child. A dead child shows first on
\* the log pipe, unless its other pipes are closed before that one.
Ready(g) ==
  LET evt == IF pings > 0 THEN <<"evt">> ELSE <<>>
      rd  == IF responses[g] # <<>> THEN <<"read">> ELSE <<>>
      wr  == IF dataSender[g] # NotSending THEN <<"write">> ELSE <<>>
  IN  IF child[g] = "dead" THEN {<<"err">>, evt \o <<"hup">>} ELSE {evt \o rd \o wr}

\* A bug: the loop does not test _isRunning.
Mutant_ShutdownRequested == FALSE

ShutdownRequested == isRunning = "no"

\* poll() and the test of _isRunning behind it. The timeout of poll() makes the thread see
\* the end of the client even without an event; calls that wait are not told.
CommPoll(g) ==
  /\ th[g] = "poll"
  /\ \/ /\ ShutdownRequested
        /\ th' = [th EXCEPT ![g] = "fin"]
        /\ UNCHANGED batch
     \/ /\ ~ShutdownRequested
        /\ \E b \in Ready(g) : b # <<>> /\ batch' = [batch EXCEPT ![g] = b]
        /\ th' = [th EXCEPT ![g] = "batch"]
  /\ UNCHANGED <<selfVars, spawned, init, closer, callerVars, result, dataSender, pending,
                 childVars>>

\* The thread turns to the next entry of the list.
Event(g, e) == th[g] = "batch" /\ Head(batch[g]) = e

NextEvent(g) ==
  /\ batch' = [batch EXCEPT ![g] = Tail(@)]
  /\ th' = [th EXCEPT ![g] = IF Len(batch[g]) = 1 THEN "poll" ELSE "batch"]

\* A bug: the pending requests are dropped without an answer.
Mutant_Fail(g) ==
  /\ th' = [th EXCEPT ![g] = "fin"]
  /\ batch' = [batch EXCEPT ![g] = <<>>]
  /\ pending' = [pending EXCEPT ![g] = <<>>]
  /\ UNCHANGED result

\* An exception leaves the loop: _cleanup() answers everything that is pending.
Fail(g) ==
  /\ result' = [c \in Call |-> IF \E i \in DOMAIN pending[g] : pending[g][i] = c
                               THEN Crashed ELSE result[c]]
  /\ th' = [th EXCEPT ![g] = "fin"]
  /\ batch' = [batch EXCEPT ![g] = <<>>]
  /\ pending' = [pending EXCEPT ![g] = <<>>]

CommError(g) ==
  /\ Event(g, "err") \/ Event(g, "hup")
  /\ Fail(g)
  /\ UNCHANGED <<selfVars, spawned, init, closer, callerVars, dataSender, childVars>>

\* A bug: every request has the same id.
Mutant_getRequestId == 1

getRequestId == reqId + 1

\* One byte of the event pipe. It is dropped while a request is being sent; otherwise the
\* first command is registered under a new id and becomes the request to send.
CommEvt(g) ==
  /\ Event(g, "evt") /\ pings > 0
  /\ pings' = pings - 1
  /\ IF dataSender[g] # NotSending \/ commandQueue = <<>>
     THEN UNCHANGED <<commandQueue, reqId, pending, dataSender>>
     ELSE LET c == Head(commandQueue) IN
            /\ commandQueue' = Tail(commandQueue)
            /\ reqId' = getRequestId
            /\ pending' = [pending EXCEPT ![g] = [i \in DOMAIN @ \cup {reqId'} |->
                                                    IF i = reqId' THEN c ELSE @[i]]]
            /\ dataSender' = [dataSender EXCEPT
                                ![g] = Sending([id |-> reqId', call |-> c], Chunks)]
  /\ NextEvent(g)
  /\ UNCHANGED <<evtFd, isRunning, lock, commthread, started, spawned, init, closer,
                 callerVars, result, childVars>>

Deliver(c, m) == result' = [result EXCEPT ![c] = m.call]

\* A response: the call registered under its id gets it. One that cannot be decoded raises
\* an error.
CommRead(g) ==
  /\ Event(g, "read")
  /\ LET m == Head(responses[g]) IN
       /\ responses' = [responses EXCEPT ![g] = Tail(@)]
       /\ \/ /\ m.id \in DOMAIN pending[g]
             /\ Deliver(pending[g][m.id], m)
             /\ pending' = [pending EXCEPT ![g] = [i \in DOMAIN @ \ {m.id} |-> @[i]]]
             /\ NextEvent(g)
          \/ /\ m.id \notin DOMAIN pending[g]
             /\ NextEvent(g)
             /\ UNCHANGED <<result, pending>>
          \/ "garbled" \in Faults /\ g < MaxGen /\ Fail(g)
  /\ UNCHANGED <<selfVars, spawned, init, closer, callerVars, dataSender, child, received>>

\* DataSender.process() finds that nothing is left.
Sent(g) == dataSender[g].left = 0

\* A bug: no ping follows a request that was sent.
Mutant_PingAfterSend == UNCHANGED pings

PingAfterSend == pings' = IF evtFd = "open" THEN pings + 1 ELSE pings

\* One os.write(), or, when nothing is left, the end of the request and the ping that makes
\* the loop look at the command queue again. Writing to a child that died in the meantime
\* raises an error, and so does the ping of a client whose descriptors are closed.
CommWrite(g) ==
  /\ Event(g, "write")
  /\ \/ /\ ~Sent(g) /\ child[g] = "up"
        /\ dataSender' = [dataSender EXCEPT ![g].left = @ - 1]
        /\ received' = IF dataSender[g].left = 1
                       THEN [received EXCEPT ![g] = @ \cup {dataSender[g].msg}]
                       ELSE received
        /\ NextEvent(g)
        /\ UNCHANGED <<pings, result, pending>>
     \/ /\ ~Sent(g) /\ child[g] = "dead"
        /\ Fail(g)
        /\ UNCHANGED <<dataSender, pings, received>>
     \/ /\ Sent(g)
        /\ dataSender' = [dataSender EXCEPT ![g] = NotSending]
        /\ PingAfterSend
        /\ IF evtFd = "closed" THEN Fail(g) ELSE NextEvent(g) /\ UNCHANGED <<result, pending>>
        /\ UNCHANGED received
  /\ UNCHANGED <<commandQueue, evtFd, isRunning, lock, commthread, started, reqId, spawned,
                 init, closer, callerVars, child, responses>>

\* A bug: the child is not killed.
Mutant_KillChild(g) == UNCHANGED child

KillChild(g) == child' = [child EXCEPT ![g] = "dead"]

\* The finally block: the pipes are closed, the child is killed and waited for, and the
\* requests that were not answered are forgotten with the thread's variables.
CommFinally(g) ==
  /\ th[g] = "fin"
  /\ KillChild(g)
  /\ received' = [received EXCEPT ![g] = {}]
  /\ responses' = [responses EXCEPT ![g] = <<>>]
  /\ pending' = [pending EXCEPT ![g] = <<>>]
  /\ dataSender' = [dataSender EXCEPT ![g] = NotSending]
  /\ batch' = [batch EXCEPT ![g] = <<>>]
  /\ th' = [th EXCEPT ![g] = IF Alive THEN "lock" ELSE "done"]
  /\ UNCHANGED <<selfVars, spawned, init, closer, callerVars, result>>

\* A bug: the child is not replaced.
Mutant_RestartNeeded == FALSE

RestartNeeded == isRunning = "yes"

\* Under the lock: a client that still runs gets a new child and a new thread.
CommRestart(g) ==
  /\ th[g] = "lock" /\ lock = 0
  /\ \/ /\ ~RestartNeeded
        /\ th' = [th EXCEPT ![g] = "done"]
        /\ UNCHANGED <<lock, spawned, child, started>>
     \/ /\ RestartNeeded
        /\ lock' = g
        /\ Run([th EXCEPT ![g] = "assign"])
  /\ UNCHANGED <<commandQueue, pings, evtFd, isRunning, commthread, reqId, init, closer,
                 callerVars, result, commVars, received, responses>>

CommAssign(g) ==
  /\ th[g] = "assign"
  /\ commthread' = spawned
  /\ th' = [th EXCEPT ![g] = "wait"]
  /\ UNCHANGED <<commandQueue, pings, evtFd, isRunning, lock, started, reqId, spawned, init,
                 closer, callerVars, result, commVars, childVars>>

CommWait(g) ==
  /\ th[g] = "wait" /\ StartedOrTimeout
  /\ lock' = 0
  /\ th' = [th EXCEPT ![g] = "done"]
  /\ UNCHANGED <<commandQueue, pings, evtFd, isRunning, commthread, started, reqId, spawned,
                 init, closer, callerVars, result, commVars, childVars>>

-----------------------------------------------------------------------------
(* The child process *)

ChildAnswer(g) ==
  /\ child[g] = "up"
  /\ \E m \in received[g] :
       /\ received' = [received EXCEPT ![g] = @ \ {m}]
       /\ responses' = [responses EXCEPT ![g] = Append(@, m)]
  /\ UNCHANGED <<selfVars, spawned, init, closer, callerVars, result, th, commVars, child>>

ChildDie(g) ==
  /\ "crash" \in Faults /\ child[g] = "up" /\ g < MaxGen
  /\ init = "ready" \/ "startcrash" \in Faults
  /\ child' = [child EXCEPT ![g] = "dead"]
  /\ UNCHANGED <<selfVars, spawned, init, closer, callerVars, result, th, commVars, received,
                 responses>>

-----------------------------------------------------------------------------
Comm(g) == \/ CommStart(g) \/ CommPoll(g) \/ CommError(g) \/ CommEvt(g) \/ CommRead(g)
           \/ CommWrite(g) \/ CommFinally(g) \/ CommRestart(g) \/ CommAssign(g)
           \/ CommWait(g)
Caller(c) == CallerPut(c) \/ CallerPing(c) \/ CallerReturn(c)
Constructor == InitRun \/ InitAssign \/ InitWait
Closer == ClosePing \/ CloseFds \/ CloseJoin

\* Nothing is left to do: every call has ended, or waits for a client that was closed.
Idle ==
  /\ closer \in {"idle", "closed", "collected"}
  /\ \A c \in Call : caller[c] \in {"done", "Timeout", "Closed"} \/ closer # "idle"
  /\ UNCHANGED vars

Next ==
  \/ Constructor
  \/ \E c \in Call : Caller(c)
  \/ CloseBegin \/ Closer \/ FdReuse
  \/ \E g \in Gen : Comm(g) \/ ChildAnswer(g) \/ ChildDie(g)
  \/ Idle

Spec == Init /\ [][Next]_vars

\* The threads of the program and of the client run, and a child answers what it is sent.
Fairness ==
  /\ WF_vars(Constructor) /\ WF_vars(Closer)
  /\ \A c \in Call : WF_vars(CallerPing(c) \/ CallerReturn(c))
  /\ \A g \in Gen : WF_vars(Comm(g)) /\ WF_vars(ChildAnswer(g))

FairSpec == Spec /\ Fairness

-----------------------------------------------------------------------------
(* Types *)

Threads == {"none", "start", "poll", "batch", "fin", "lock", "assign", "wait", "done", "leaked"}
Message == [id : Nat, call : Call]

\* What may be left of a list of events.
Batches ==
  {<<>>, <<"err">>, <<"hup">>, <<"evt", "hup">>, <<"evt">>, <<"read">>, <<"write">>,
   <<"evt", "read">>, <<"evt", "write">>, <<"read", "write">>, <<"evt", "read", "write">>}

\* What a thread has in hand to send.
Senders == [msg : Message \cup {NoMsg}, left : 0..Chunks]

\* The variables the threads of the program and of the client share.
SharedOK ==
  /\ commandQueue \in Seq(Call) /\ pings \in Nat /\ reqId \in Nat
  /\ evtFd \in {"open", "closed", "reused"} /\ isRunning \in {"yes", "no"}
  /\ lock \in Gen \cup {0} /\ commthread \in Gen \cup {0} /\ spawned \in Gen \cup {0}
  /\ started \in {"set", "clear"} /\ init \in {"run", "assign", "wait", "ready"}
  /\ closer \in {"idle", "ping", "fds", "join", "closed", "collected"}
  /\ caller \in [Call -> {"idle", "put", "wait", "done", "Timeout", "Closed"}]
  /\ result \in [Call -> Call \cup {NoResult, Crashed}] /\ late \subseteq Call

\* Those of one generation; only ids that were given out are registered.
GenerationOK ==
  /\ th \in [Gen -> Threads] /\ child \in [Gen -> {"none", "up", "dead"}]
  /\ batch \in [Gen -> Batches] /\ dataSender \in [Gen -> Senders]
  /\ received \in [Gen -> SUBSET Message] /\ responses \in [Gen -> Seq(Message)]
  /\ DOMAIN pending = Gen
  /\ \A g \in Gen : DOMAIN pending[g] \subseteq 1..reqId
                     /\ \A i \in DOMAIN pending[g] : pending[g][i] \in Call

\* Every variable of the client holds what the code keeps in it.
TypeOK == SharedOK /\ GenerationOK

-----------------------------------------------------------------------------
(***************************************************************************)
(* The inductive invariant the proofs of ClientProofs rest on.             *)
(***************************************************************************)
\* Only the latest generation has a child that lives or a thread in its loop; a thread that
\* restarts holds the lock until the new one is stored, and none does once the client closes.
GenerationsInv ==
  /\ \A g \in Gen :
       /\ th[g] = "none" <=> g > spawned
       /\ child[g] = "none" <=> g > spawned
       /\ child[g] = "up" => g = spawned
       /\ th[g] \in {"start", "poll", "batch", "fin", "lock", "leaked"} => g = spawned
       /\ th[g] \in {"lock", "assign", "wait", "done"} => child[g] = "dead"
       /\ th[g] \in {"assign", "wait"} <=> lock = g
       /\ lock = g => spawned = g + 1
  /\ init = "run" <=> spawned = 0
  /\ isRunning = "no" <=> closer # "idle"
  /\ isRunning = "no" => lock = 0 /\ init = "ready"
  /\ evtFd = "open" <=> closer \in {"idle", "ping", "fds"}
  /\ "fdreuse" \notin Faults => evtFd # "reused"
  /\ late # {} => closer = "closed"

\* Unless a child dies before the constructor has returned, _commthread is the latest thread,
\* or the one that is about to store it.
JoinInv ==
  "startcrash" \notin Faults =>
    /\ init # "ready" =>
         /\ pings = 0 /\ commandQueue = <<>> /\ spawned <= 1
         /\ \A g \in Gen : /\ th[g] \in {"none", "start", "poll"} /\ child[g] # "dead"
                            /\ dataSender[g] = NotSending /\ received[g] = {}
                            /\ responses[g] = <<>>
    /\ init = "wait" => commthread = 1
    /\ init = "ready" =>
         /\ commthread \in Gen
         /\ \/ commthread = spawned
            \/ commthread = spawned - 1 /\ th[commthread] = "assign"
    /\ closer = "closed" => \A g \in Gen : child[g] # "up"

\* The request with the id of message m, if it is still registered, is the one m is about.
Fits(m, g) == m.id \in 1..reqId /\ (m.id \in DOMAIN pending[g] => pending[g][m.id] = m.call)

\* A thread handles only events that took place.
EventsOf(g) ==
  /\ th[g] = "batch" <=> batch[g] # <<>>
  /\ \A i \in DOMAIN batch[g] : /\ batch[g][i] \in {"err", "hup"} => child[g] = "dead"
                                /\ batch[g][i] = "read" => responses[g] # <<>>

\* What travels between a thread and its child are requests the thread has registered.
RequestsOf(g) ==
  /\ dataSender[g] # NotSending => dataSender[g].msg \in Message /\ Fits(dataSender[g].msg, g)
  /\ \A m \in received[g] : Fits(m, g) /\ (dataSender[g].left > 0 => m.id # dataSender[g].msg.id)
  /\ \A i \in DOMAIN responses[g] : Fits(responses[g][i], g)

\* A thread that has not started, or that has left its loop, owes no answer.
NothingOwed(g) ==
  /\ th[g] \in {"none", "start", "lock", "assign", "wait", "done"} => DOMAIN pending[g] = {}
  /\ th[g] = "fin" /\ isRunning = "yes" => DOMAIN pending[g] = {}
  /\ th[g] \in {"none", "start"} => responses[g] = <<>> /\ received[g] = {}

MessagesInv == \A g \in Gen : EventsOf(g) /\ RequestsOf(g) /\ NothingOwed(g)

Queued(c)     == \E i \in DOMAIN commandQueue : commandQueue[i] = c
Registered(c) == \E g \in Gen : \E i \in DOMAIN pending[g] : pending[g][i] = c

\* A call is in one place, in none before it was made and in one while the client runs, and
\* every id was given to a call of its own.
PlacesInv ==
  /\ \A i, j \in DOMAIN commandQueue : commandQueue[i] = commandQueue[j] => i = j
  /\ \A g, h \in Gen : \A i \in DOMAIN pending[g], j \in DOMAIN pending[h] :
       pending[g][i] = pending[h][j] => g = h /\ i = j
  /\ \A c \in Call :
       /\ Queued(c) => ~Registered(c)
       /\ Queued(c) \/ Registered(c) => result[c] = NoResult /\ caller[c] # "idle"
       /\ result[c] \in {NoResult, Crashed, c}
       /\ caller[c] = "idle" => result[c] = NoResult
       /\ caller[c] = "done" => result[c] # NoResult
       /\ init # "ready" => caller[c] = "idle"
       /\ isRunning = "yes" /\ caller[c] # "idle" =>
            Queued(c) \/ Registered(c) \/ result[c] # NoResult
  /\ reqId = Cardinality({c \in Call : caller[c] # "idle" /\ ~Queued(c)})

\* The inductive invariant.
ClientInv == TypeOK /\ GenerationsInv /\ JoinInv /\ MessagesInv /\ PlacesInv

-----------------------------------------------------------------------------
(* What the client promises. *)

\* Where call c is: in the command queue, registered with a child, or answered.
Places(c) ==
  Cardinality({i \in DOMAIN commandQueue : commandQueue[i] = c})
  + Cardinality({gi \in Gen \X (1..reqId) : /\ gi[2] \in DOMAIN pending[gi[1]]
                                            /\ pending[gi[1]][gi[2]] = c})
  + (IF result[c] # NoResult THEN 1 ELSE 0)

\* A call is neither forgotten nor repeated, whatever child dies while it is queued, being
\* sent or executed: it is in one place at a time, and while the client runs it is in one.
\* A call that was handed to one child is never handed to the next.
OnePlace ==
  /\ ClientInv
  /\ \A c \in Call : /\ Places(c) <= 1
                     /\ isRunning = "yes" /\ caller[c] # "idle" => Places(c) = 1

\* What a caller gets is the result of its own call, or the report of a crash: answers that
\* come back in another order, or from a later child, never reach somebody else's call. One
\* made after close() does not wait for a result, it raises Closed.
ResultIsOwn ==
  /\ \A c \in Call : result[c] \in {NoResult, Crashed, c}
  /\ \A c \in late : caller[c] \in {"put", "Closed"}

\* The child of a generation has been killed and waited for before the next one is started,
\* and the last one before close() returns, however close() and a restart meet.
OneChild ==
  /\ \A g, h \in Gen : child[g] = "up" /\ child[h] = "up" => g = h
  /\ closer = "closed" => \A g \in Gen : child[g] # "up"

\* As long as the first child lives, a command in the queue is announced: by a byte in the
\* event pipe, by the ping that follows the request being sent, or by the ping its caller is
\* about to write. Bytes read while a request is being sent may be dropped for that reason.
NoLostWakeup ==
  commandQueue # <<>> /\ isRunning = "yes" /\ child[1] = "up" =>
    \/ pings > 0
    \/ \E c \in Call : caller[c] = "put"
    \/ dataSender[1] # NotSending /\ th[1] \in {"poll", "batch"}

\* A call gets an answer without having to wait for its timeout.
CallAnswered == \A c \in Call : caller[c] = "wait" ~> caller[c] # "wait"

\* Unless the client is closed, a call gets its result as long as the first child lives, and
\* once it was handed to any child it gets that child's answer or the report of its crash.
RegisteredAnswered ==
  \A c \in Call :
    /\ caller[c] = "wait" ~> result[c] # NoResult \/ child[1] = "dead" \/ isRunning = "no"
    /\ (\E g \in Gen : \E i \in DOMAIN pending[g] : pending[g][i] = c)
         ~> result[c] # NoResult \/ isRunning = "no"

\* A client that runs replaces a child that died.
ChildReplaced ==
  \A g \in Gen : child[g] = "dead" /\ isRunning = "yes"
                   ~> isRunning = "no" \/ \E h \in Gen : h > g /\ child[h] = "up"

\* close() comes to an end: the lock is released and the thread it joins ends, even when the
\* child dies, or is being replaced, at the same time.
CloseReturns == closer # "idle" ~> closer \in {"closed", "collected"}

-----------------------------------------------------------------------------
(* What the client uses of a child, and what it promises to its callers. *)

ChildOf(g) == INSTANCE ChildProcess WITH
                Message   <- [id : 1..Cardinality(Call), call : Call],
                state     <- child[g],
                pending   <- received[g],
                responses <- responses[g]

\* Towards each of its children the client follows the protocol of ChildProcess: it takes
\* only answers that were written, and drops the pipes together with the process.
UsesChild ==
  /\ \A g \in Gen : ChildOf(g)!Init
  /\ [][\A g \in Gen : [ChildOf(g)!Next]_<<child[g], received[g], responses[g]>>]_vars

Outcome(c) ==
  CASE caller[c] = "put" -> "pending"
    [] caller[c] = "wait" /\ result[c] = NoResult -> "pending"
    [] caller[c] \in {"wait", "done"} /\ result[c] = Crashed -> "crash"
    [] caller[c] \in {"wait", "done"} /\ result[c] = c -> "result"
    [] caller[c] \in {"wait", "done"} /\ result[c] \in Call \ {c} -> "another's result"
    [] OTHER -> caller[c]

Service == INSTANCE CallService WITH
             outcome <- [c \in Call |-> Outcome(c)],
             open    <- isRunning = "yes"

\* The client implements the service its callers rely on: a late answer, a crash or close()
\* never changes how a call has ended.
ImplementsService == Service!Spec
=============================================================================
