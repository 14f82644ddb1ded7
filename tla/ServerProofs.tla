---------------------------- MODULE ServerProofs ----------------------------
(***************************************************************************)
(* Theorems about the server, for every set of requests, every accepted    *)
(* combination of max-threads and max-queued-requests and every set of     *)
(* failures.                                                               *)
(***************************************************************************)
EXTENDS Server, FiniteSetTheorems, SequenceTheorems, TLAPS

\* A queue of elements of S stays one when it grows or shrinks.
LEMMA QueueOps ==
  ASSUME NEW S, NEW q \in Seq(S)
  PROVE  /\ \A x \in S : Append(q, x) \in Seq(S)
         /\ q # <<>> => Head(q) \in S /\ Tail(q) \in Seq(S)
OBVIOUS

\* What each action of the server leaves alone and what it writes has its type. The hands of
\* responseWriter and requestHandler matter only where their contents are put in a queue.
LEMMA TypeStep == TypeOK /\ HandsInv /\ [Next]_vars => TypeOK'
<1> SUFFICES ASSUME TypeOK, HandsInv, [Next]_vars PROVE TypeOK'
  OBVIOUS
<1> USE ConstantsAssumption DEF TypeOK
<1>1. CASE UNCHANGED vars
  BY <1>1 DEF vars
<1>2. ASSUME NEW r \in Request, ClientSend(r) PROVE TypeOK'
  BY <1>2 DEF ClientSend, envVars, queueVars, fdVars, pcVars, handVars, Stages
<1>3. CASE ClientRecv \/ ClientClose \/ ClientKill
  BY <1>3, SMTT(30) DEF ClientRecv, ClientClose, ClientKill, envVars, queueVars, fdVars, pcVars,
              handVars
<1>4. CASE ReaderEnter \/ ReaderSize \/ ReaderEof \/ ReaderPipeClosed \/ ReaderStolen
  BY <1>4, SMTT(30)
  DEF ReaderEnter, ReaderSize, ReaderEof, ReaderPipeClosed, ReaderStolen, envVars, queueVars,
      fdVars, handVars
<1>5. CASE ReaderPayload
  <2>0. Head(reqPipe) \in Request /\ Tail(reqPipe) \in Seq(Request)
    <3>1. reqPipe # <<>>
      BY <1>5 DEF ReaderPayload, HandsInv
    <3> QED BY <3>1, QueueOps
  <2>1. CASE readFd # "pipe"
    BY <1>5, <2>1 DEF ReaderPayload, envVars, fdVars, handVars
  <2>2. CASE readFd = "pipe" /\ Kind[Head(reqPipe)] = "garbage"
    <3>1. stage' \in [Request -> Stages]
      BY <1>5, <2>2 DEF ReaderPayload, Stages
    <3>2. /\ reqPipe' = Tail(reqPipe) /\ reader' = "stop"
          /\ UNCHANGED <<heap, requestQueue>>
      BY <1>5, <2>2 DEF ReaderPayload
    <3> QED BY <1>5, <2>0, <3>1, <3>2 DEF ReaderPayload, envVars, fdVars, handVars
  <2>3. CASE readFd = "pipe" /\ Kind[Head(reqPipe)] # "garbage"
    <3>1. stage' \in [Request -> Stages]
      BY <1>5, <2>3 DEF ReaderPayload, Stages
    <3>2. /\ reqPipe' = Tail(reqPipe) /\ reader' = "enter"
          /\ heap' = heap \cup {Head(reqPipe)}
          /\ requestQueue' = Append(requestQueue, Head(reqPipe))
      BY <1>5, <2>3 DEF ReaderPayload
    <3>3. requestQueue' \in Seq(Request \cup {STOP})
      BY <2>0, <3>2, QueueOps
    <3> QED BY <1>5, <2>0, <3>1, <3>2, <3>3 DEF ReaderPayload, envVars, fdVars, handVars
  <2> QED BY <2>1, <2>2, <2>3
<1>6. CASE ReaderStop
  <2>1. requestQueue' \in Seq(Request \cup {STOP})
    BY <1>6, QueueOps DEF ReaderStop, EndOfRequests, AfterLoop
  <2> QED BY <1>6, <2>1 DEF ReaderStop, EndOfRequests, AfterLoop, envVars, fdVars, handVars
<1>7. CASE HandlerPop
  <2>1. requestQueue' \in Seq(Request \cup {STOP}) /\ hreq' \in Request \cup {NoReq}
    BY <1>7, QueueOps DEF HandlerPop, IsStop
  <2>2. stage' \in [Request -> Stages]
    BY <1>7 DEF HandlerPop, IsStop, Stages
  <2> QED BY <1>7, <2>1, <2>2 DEF HandlerPop, IsStop, envVars, fdVars, handVars
<1>8. CASE HandlerAdmit \/ HandlerUndo
  BY <1>8, SMTT(30) DEF HandlerAdmit, DecAndTest, HandlerUndo, UndoSlot, envVars, queueVars, fdVars,
       handVars, Stages
<1>9. CASE servQueueFull
  <2>1. buildResponse(hreq, "eagain") \in Response
    BY <1>9 DEF servQueueFull, RespondFull, HandsInv, Handling, buildResponse, Response, Statuses
  <2>2. responseQueue' \in Seq(Response \cup {STOP})
    BY <1>9, <2>1, QueueOps DEF servQueueFull, RespondFull
  <2>3. stage' \in [Request -> Stages]
    BY <1>9 DEF servQueueFull, RespondFull, Stages
  <2> QED BY <1>9, <2>2, <2>3 DEF servQueueFull, RespondFull, envVars, fdVars, handVars
<1>10. CASE HandlerPush
  BY <1>10 DEF HandlerPush, HandsInv, Handling, envVars, fdVars, handVars, Stages
<1>11. CASE HandlerStopCheck \/ HandlerStopClose
  BY <1>11 DEF HandlerStopCheck, HandlerStopClose, StopReaderClose, envVars, queueVars,
              fdVars, handVars
<1>12. CASE HandlerFlush
  <2>1. responseQueue' \in Seq(Response \cup {STOP})
    BY <1>12, QueueOps DEF HandlerFlush, PoolDrained
  <2> QED BY <1>12, <2>1 DEF HandlerFlush, PoolDrained, envVars, fdVars, handVars
<1>13. CASE WorkerStart
  BY <1>13 DEF WorkerStart, envVars, fdVars, pcVars, handVars, Stages
<1>14. CASE PoolRetire
  <2>1. IsFiniteSet(Busy)
    BY FS_Subset DEF Busy
  <2>2. Cardinality(Busy) \in Nat
    BY <2>1, FS_CardinalityType
  <2> QED BY <1>14, <2>2 DEF PoolRetire, envVars, fdVars, pcVars, handVars
<1>15. ASSUME NEW r \in Request, Worker(r) PROVE TypeOK'
  <2>1. \A s \in Statuses : buildResponse(r, s) \in Response
    BY DEF buildResponse, Response
  <2>2. CASE WorkerOpen(r) \/ WorkerCallback(r) \/ WorkerRelease(r)
    <3>1. stage' \in [Request -> Stages]
      BY <2>2 DEF WorkerOpen, WorkerCallback, WorkerRelease, ReleaseSlot, FreeRequest, Stages
    <3> QED BY <2>2, <3>1 DEF WorkerOpen, WorkerCallback, WorkerRelease, ReleaseSlot,
                              FreeRequest, envVars, queueVars, fdVars, pcVars, handVars
  <2>3. CASE WorkerAnswer(r)
    <3>1. responseQueue' \in Seq(Response \cup {STOP})
      BY <2>1, <2>3, QueueOps DEF WorkerAnswer, Answered, Statuses
    <3> QED BY <2>3, <3>1 DEF WorkerAnswer, Answered, envVars, fdVars, pcVars, handVars, Stages
  <2> QED BY <1>15, <2>2, <2>3 DEF Worker
<1>16. CASE WriterPop
  <2>1. /\ responseQueue' \in Seq(Response \cup {STOP})
        /\ wresp' \in Response \cup {NoResp}
    BY <1>16, QueueOps DEF WriterPop
  <2> QED BY <1>16, <2>1 DEF WriterPop, envVars, fdVars
<1>17. CASE WriterWrite
  <2>1. written' \in Seq(Response) /\ nread' \in 0..Len(written')
    BY <1>17 DEF WriterWrite, HandsInv, envVars
  <2> QED BY <1>17, <2>1 DEF WriterWrite, envVars, queueVars, fdVars
<1>18. CASE WriterBroken \/ WriterStopCheck \/ WriterStopClose
  BY <1>18 DEF WriterBroken, WriterStopCheck, WriterStopClose, StopReaderClose, envVars,
               queueVars, fdVars, handVars
<1>19. CASE MainJoin \/ Ended
  BY <1>19 DEF MainJoin, ReaderJoined, Ended, vars, envVars, queueVars, fdVars, handVars
<1> QED BY <1>1, <1>2, <1>3, <1>4, <1>5, <1>6, <1>7, <1>8, <1>9, <1>10, <1>11, <1>12, <1>13,
           <1>14, <1>15, <1>16, <1>17, <1>18, <1>19
        DEF Next, Reader, Handler, Writer

\* What the two threads hold in their hands has its type as long as they hold it.
LEMMA HandsStep == TypeOK /\ HandsInv /\ [Next]_vars => HandsInv'
<1> SUFFICES ASSUME TypeOK, HandsInv, [Next]_vars PROVE HandsInv'
  OBVIOUS
<1> USE ConstantsAssumption DEF TypeOK, HandsInv, Handling
<1>1. CASE UNCHANGED vars
  BY <1>1 DEF vars
<1>2. ASSUME NEW r \in Request, ClientSend(r) PROVE HandsInv'
  BY <1>2, SMTT(30) DEF ClientSend, pcVars, handVars
<1>3. CASE ClientRecv \/ ClientClose \/ ClientKill
  BY <1>3 DEF ClientRecv, ClientClose, ClientKill, pcVars, handVars
<1>4. CASE Reader
  BY <1>4 DEF Reader, ReaderEnter, ReaderSize, ReaderPayload, ReaderEof, ReaderPipeClosed,
              ReaderStolen, ReaderStop, EndOfRequests, AfterLoop, handVars
<1>5. CASE HandlerPop
  <2>1. Head(requestQueue) \in Request \cup {STOP}
    BY <1>5, QueueOps DEF HandlerPop, IsStop
  <2> QED BY <1>5, <2>1 DEF HandlerPop, IsStop
<1>6. CASE Handler /\ ~HandlerPop
  BY <1>6 DEF Handler, HandlerAdmit, DecAndTest, servQueueFull, RespondFull, HandlerUndo,
       UndoSlot, HandlerPush,
              HandlerStopCheck, HandlerStopClose, HandlerFlush, PoolDrained, handVars
<1>7. CASE WorkerStart \/ PoolRetire
  BY <1>7 DEF WorkerStart, PoolRetire, pcVars, handVars
<1>8. ASSUME NEW r \in Request, Worker(r) PROVE HandsInv'
  BY <1>8 DEF Worker, WorkerOpen, WorkerCallback, WorkerAnswer, Answered, WorkerRelease,
       ReleaseSlot, pcVars,
              handVars
<1>9. CASE WriterPop
  <2>1. Head(responseQueue) \in Response \cup {STOP}
    BY <1>9, QueueOps DEF WriterPop
  <2> QED BY <1>9, <2>1 DEF WriterPop
<1>10. CASE Writer /\ ~WriterPop
  BY <1>10 DEF Writer, WriterWrite, WriterBroken, WriterStopCheck, WriterStopClose, handVars
<1>11. CASE MainJoin \/ Ended
  BY <1>11 DEF MainJoin, ReaderJoined, Ended, vars, handVars
<1> QED BY <1>1, <1>2, <1>3, <1>4, <1>5, <1>6, <1>7, <1>8, <1>9, <1>10, <1>11 DEF Next

\* Type correctness: every queue of the server holds requests, responses or the stop marker
\* and nothing else, and every thread is at a place of its code.
THEOREM TypeCorrect == Spec => []TypeOK
<1>1. Init => TypeOK /\ HandsInv
  BY OptionsAssumption, ConstantsAssumption
  DEF Init, TypeOK, HandsInv, Handling, Stages, Capacity, OptionsAccepted
<1>2. TypeOK /\ HandsInv /\ [Next]_vars => (TypeOK /\ HandsInv)'
  BY TypeStep, HandsStep
<1> QED BY <1>1, <1>2, PTL DEF Spec

-----------------------------------------------------------------------------
(* Queues and stages *)

\* A request that is elsewhere may change its stage.
LEMMA HoldsUpdate ==
  ASSUME NEW f \in [Request -> Stages], NEW q \in Seq(Request \cup {STOP}), NEW st,
         Holds(q, f, st), NEW x \in Request, f[x] # st, NEW v
  PROVE  Holds(q, [f EXCEPT ![x] = v], st)
BY DEF Holds

\* Taking the first request of a queue and moving it to another stage.
LEMMA HoldsTake ==
  ASSUME NEW f \in [Request -> Stages], NEW q \in Seq(Request \cup {STOP}), NEW st,
         Holds(q, f, st), q # <<>>, Head(q) \in Request, NEW v
  PROVE  Holds(Tail(q), [f EXCEPT ![Head(q)] = v], st)
<1>1. \A i \in DOMAIN Tail(q) : i + 1 \in DOMAIN q /\ Tail(q)[i] = q[i + 1] /\ i + 1 # 1
  OBVIOUS
<1>2. 1 \in DOMAIN q /\ q[1] = Head(q) /\ Head(q) # STOP
  BY ConstantsAssumption
<1>3. \A i \in DOMAIN Tail(q) : Tail(q)[i] \in Request \cup {STOP} /\ Tail(q)[i] # Head(q)
  BY <1>1, <1>2 DEF Holds
<1> QED BY <1>1, <1>3 DEF Holds

\* Putting a request at the end of a queue together with its stage.
LEMMA HoldsAdd ==
  ASSUME NEW f \in [Request -> Stages], NEW q \in Seq(Request \cup {STOP}), NEW st,
         Holds(q, f, st), NEW x \in Request, f[x] # st
  PROVE  Holds(Append(q, x), [f EXCEPT ![x] = st], st)
<1>1. \A i \in DOMAIN q : q[i] \in Request \cup {STOP} /\ q[i] # x
  BY ConstantsAssumption DEF Holds
<1>2. \A i \in DOMAIN Append(q, x) : \/ i = Len(q) + 1 /\ Append(q, x)[i] = x
                                     \/ i \in DOMAIN q /\ Append(q, x)[i] = q[i]
  OBVIOUS
<1> QED BY <1>1, <1>2 DEF Holds

\* The stop marker may be put at the end of any queue ...
LEMMA HoldsStop ==
  ASSUME NEW f, NEW q \in Seq(Request \cup {STOP}), NEW st, Holds(q, f, st)
  PROVE  Holds(Append(q, STOP), f, st)
<1>1. \A i \in DOMAIN Append(q, STOP) : \/ Append(q, STOP)[i] = STOP
                                        \/ i \in DOMAIN q /\ Append(q, STOP)[i] = q[i]
  OBVIOUS
<1> QED BY <1>1 DEF Holds

\* ... and the head of a queue may be dropped without a change of stage.
LEMMA HoldsSkip ==
  ASSUME NEW f, NEW q \in Seq(Request \cup {STOP}), NEW st, Holds(q, f, st), q # <<>>
  PROVE  Holds(Tail(q), f, st)
<1>1. \A i \in DOMAIN Tail(q) : i + 1 \in DOMAIN q /\ Tail(q)[i] = q[i + 1] /\ i \in Int
  OBVIOUS
<1> QED BY <1>1 DEF Holds

\* Moving a request away from stage st, or between others, keeps every one of st in place.
LEMMA WithinUpdate ==
  ASSUME NEW f \in [Request -> Stages], NEW q, NEW st, Within(q, f, st),
         NEW x \in Request, NEW v, v # st
  PROVE  Within(q, [f EXCEPT ![x] = v], st)
BY DEF Within

\* A request that gets stage st as it is queued is in the queue.
LEMMA WithinAdd ==
  ASSUME NEW f \in [Request -> Stages], NEW q \in Seq(Request), NEW st, Within(q, f, st),
         NEW x \in Request
  PROVE  Within(Append(q, x), [f EXCEPT ![x] = st], st)
<1>1. /\ \A i \in DOMAIN q : i \in DOMAIN Append(q, x) /\ Append(q, x)[i] = q[i]
      /\ Len(q) + 1 \in DOMAIN Append(q, x) /\ Append(q, x)[Len(q) + 1] = x
  OBVIOUS
<1> QED BY <1>1 DEF Within

\* A request that leaves the queue leaves stage st.
LEMMA WithinTake ==
  ASSUME NEW f \in [Request -> Stages], NEW q \in Seq(Request), NEW st, Within(q, f, st),
         q # <<>>, NEW v, v # st
  PROVE  Within(Tail(q), [f EXCEPT ![Head(q)] = v], st)
<1>1. \A i \in DOMAIN q : i = 1 \/ (i - 1 \in DOMAIN Tail(q) /\ Tail(q)[i - 1] = q[i])
  OBVIOUS
<1>2. q[1] = Head(q)
  OBVIOUS
<1> QED BY <1>1, <1>2 DEF Within

\* Every action moves a request from one place to the next together with its stage.
LEMMA PlacesStep == TypeOK /\ HandsInv /\ PlacesInv /\ [Next]_vars => PlacesInv'
<1> SUFFICES ASSUME TypeOK, HandsInv, PlacesInv, [Next]_vars PROVE PlacesInv'
  OBVIOUS
<1> USE ConstantsAssumption
<1>1. /\ reqPipe \in Seq(Request \cup {STOP}) /\ poolQueue \in Seq(Request \cup {STOP})
      /\ requestQueue \in Seq(Request \cup {STOP})
      /\ poolQueue \in Seq(Request) /\ reqPipe \in Seq(Request)
      /\ stage \in [Request -> Stages]
  BY DEF TypeOK
<1>2. CASE UNCHANGED <<stage, reqPipe, requestQueue, poolQueue, handler, hreq>>
  BY <1>2 DEF PlacesInv, Holds, Within
<1>3. ASSUME NEW r \in Request, ClientSend(r) PROVE PlacesInv'
  <2>1. Holds(reqPipe', stage', "piped")
    BY <1>1, <1>3, HoldsAdd DEF ClientSend, PlacesInv
  <2>2. /\ Holds(requestQueue', stage', "queued") /\ Holds(poolQueue', stage', "pooled")
        /\ Within(poolQueue', stage', "pooled")
    BY <1>1, <1>3, HoldsUpdate, WithinUpdate DEF ClientSend, PlacesInv, queueVars
  <2> QED BY <1>1, <1>3, <2>1, <2>2 DEF ClientSend, PlacesInv, HandsInv, Handling, pcVars, handVars
<1>4. CASE ReaderPayload
  <2>1. CASE readFd # "pipe"
    BY <1>2, <1>4, <2>1 DEF ReaderPayload, handVars
  <2>2. CASE readFd = "pipe"
    <3> DEFINE r == Head(reqPipe)
    <3>1. reqPipe # <<>> /\ r \in Request /\ stage[r] = "piped"
      <4>1. reqPipe # <<>>
        BY <1>4 DEF ReaderPayload, HandsInv
      <4>2. r \in Request /\ r = reqPipe[1] /\ 1 \in DOMAIN reqPipe
        BY <1>1, <4>1
      <4> QED BY <4>1, <4>2 DEF PlacesInv, Holds
    <3>2. PICK v \in {"malformed", "queued"} :
            /\ stage' = [stage EXCEPT ![r] = v]
            /\ reqPipe' = Tail(reqPipe)
            /\ requestQueue' = IF v = "queued" THEN Append(requestQueue, r) ELSE requestQueue
            /\ UNCHANGED <<poolQueue, handler, hreq>>
      BY <1>4, <2>2 DEF ReaderPayload, handVars
    <3>3. Holds(reqPipe', stage', "piped")
      BY <1>1, <3>1, <3>2, HoldsTake DEF PlacesInv
    <3>4. Holds(requestQueue', stage', "queued")
      <4>1. CASE v = "queued"
        BY <1>1, <3>1, <3>2, <4>1, HoldsAdd DEF PlacesInv
      <4>2. CASE v = "malformed"
        BY <1>1, <3>1, <3>2, <4>2, HoldsUpdate DEF PlacesInv
      <4> QED BY <4>1, <4>2
    <3>5. Holds(poolQueue', stage', "pooled") /\ Within(poolQueue', stage', "pooled")
      BY <1>1, <3>1, <3>2, HoldsUpdate, WithinUpdate DEF PlacesInv
    <3> QED BY <1>1, <3>1, <3>2, <3>3, <3>4, <3>5 DEF PlacesInv, HandsInv, Handling
  <2> QED BY <2>1, <2>2
<1>5. CASE ReaderStop
  BY <1>1, <1>5, HoldsStop DEF ReaderStop, EndOfRequests, AfterLoop, PlacesInv, handVars
<1>6. CASE HandlerPop
  <2>1. CASE Head(requestQueue) = STOP
    <3>1. /\ requestQueue # <<>> /\ requestQueue' = Tail(requestQueue)
          /\ handler' = "stopcheck"
          /\ UNCHANGED <<stage, reqPipe, poolQueue>>
      BY <1>6, <2>1 DEF HandlerPop, IsStop
    <3> QED BY <1>1, <3>1, HoldsSkip DEF PlacesInv, Within
  <2>2. CASE Head(requestQueue) # STOP
    <3> DEFINE r == Head(requestQueue)
    <3>1. requestQueue # <<>> /\ r \in Request /\ stage[r] = "queued"
      <4>1. requestQueue # <<>>
        BY <1>6 DEF HandlerPop, IsStop
      <4>2. r \in Request \cup {STOP} /\ r = requestQueue[1] /\ 1 \in DOMAIN requestQueue
        BY <1>1, <4>1
      <4> QED BY <2>2, <4>1, <4>2 DEF PlacesInv, Holds
    <3>2. PICK v \in {"handling", "lost"} :
            /\ stage' = [stage EXCEPT ![r] = v]
            /\ requestQueue' = Tail(requestQueue)
            /\ v = "handling" => handler' = "admit" /\ hreq' = r
            /\ v = "lost" => handler' = "stopcheck"
            /\ UNCHANGED <<reqPipe, poolQueue>>
      BY <1>6, <2>2 DEF HandlerPop, IsStop
    <3>3. Holds(requestQueue', stage', "queued")
      BY <1>1, <3>1, <3>2, HoldsTake DEF PlacesInv
    <3>4. /\ Holds(reqPipe', stage', "piped") /\ Holds(poolQueue', stage', "pooled")
          /\ Within(poolQueue', stage', "pooled")
      BY <1>1, <3>1, <3>2, HoldsUpdate, WithinUpdate DEF PlacesInv
    <3> QED BY <1>1, <3>1, <3>2, <3>3, <3>4 DEF PlacesInv
  <2> QED BY <2>1, <2>2
<1>7. CASE HandlerAdmit \/ servQueueFull
  <2>1. hreq \in Request /\ stage[hreq] \in {"handling", "rejecting"}
    BY <1>7 DEF HandlerAdmit, DecAndTest, servQueueFull, RespondFull, HandsInv, Handling, PlacesInv
  <2>2. PICK v \in {"handling", "rejecting", "rejected"} :
          /\ stage' = [stage EXCEPT ![hreq] = v]
          /\ v = "handling" => handler' = "push"
          /\ v = "rejecting" => handler' = "reject"
          /\ v = "rejected" => handler' = "undo"
          /\ UNCHANGED <<reqPipe, requestQueue, poolQueue, hreq>>
    <3>1. CASE HandlerAdmit
      BY <1>1, <2>1, <3>1 DEF HandlerAdmit, DecAndTest, PlacesInv, queueVars, handVars
    <3>2. CASE servQueueFull
      BY <3>2 DEF servQueueFull, RespondFull, handVars
    <3> QED BY <1>7, <3>1, <3>2
  <2>3. /\ Holds(reqPipe', stage', "piped") /\ Holds(requestQueue', stage', "queued")
        /\ Holds(poolQueue', stage', "pooled") /\ Within(poolQueue', stage', "pooled")
    BY <1>1, <2>1, <2>2, HoldsUpdate, WithinUpdate DEF PlacesInv
  <2> QED BY <1>1, <2>1, <2>2, <2>3 DEF PlacesInv
<1>8. CASE HandlerUndo \/ HandlerStopCheck \/ HandlerStopClose \/ HandlerFlush
  BY <1>8 DEF HandlerUndo, UndoSlot, HandlerStopCheck, HandlerStopClose, HandlerFlush,
       PoolDrained, PlacesInv,
              queueVars, Holds, Within
<1>9. CASE HandlerPush
  <2>1. hreq \in Request /\ stage[hreq] = "handling"
    BY <1>9 DEF HandlerPush, HandsInv, Handling, PlacesInv
  <2>2. /\ stage' = [stage EXCEPT ![hreq] = "pooled"] /\ poolQueue' = Append(poolQueue, hreq)
        /\ handler' \in {"pop", "stopcheck"} /\ UNCHANGED <<reqPipe, requestQueue>>
    BY <1>9 DEF HandlerPush
  <2>3. Holds(poolQueue', stage', "pooled") /\ Within(poolQueue', stage', "pooled")
    BY <1>1, <2>1, <2>2, HoldsAdd, WithinAdd DEF PlacesInv
  <2>4. Holds(reqPipe', stage', "piped") /\ Holds(requestQueue', stage', "queued")
    BY <1>1, <2>1, <2>2, HoldsUpdate DEF PlacesInv
  <2> QED BY <2>2, <2>3, <2>4 DEF PlacesInv
<1>10. CASE WorkerStart
  <2>1. poolQueue # <<>> /\ Head(poolQueue) \in Request /\ stage[Head(poolQueue)] = "pooled"
    <3>1. poolQueue # <<>>
      BY <1>10 DEF WorkerStart
    <3>2. Head(poolQueue) \in Request /\ Head(poolQueue) = poolQueue[1] /\ 1 \in DOMAIN poolQueue
      BY <1>1, <3>1
    <3> QED BY <3>1, <3>2 DEF PlacesInv, Holds
  <2>2. /\ stage' = [stage EXCEPT ![Head(poolQueue)] = "running"]
        /\ poolQueue' = Tail(poolQueue)
        /\ UNCHANGED <<reqPipe, requestQueue, handler, hreq>>
    BY <1>10 DEF WorkerStart, pcVars, handVars
  <2>3. Holds(poolQueue', stage', "pooled") /\ Within(poolQueue', stage', "pooled")
    BY <1>1, <2>1, <2>2, HoldsTake, WithinTake DEF PlacesInv
  <2>4. Holds(reqPipe', stage', "piped") /\ Holds(requestQueue', stage', "queued")
    BY <1>1, <2>1, <2>2, HoldsUpdate DEF PlacesInv
  <2> QED BY <1>1, <2>1, <2>2, <2>3, <2>4 DEF PlacesInv, HandsInv, Handling
<1>11. ASSUME NEW r \in Request, WorkerCallback(r) \/ WorkerAnswer(r) \/ WorkerRelease(r)
       PROVE PlacesInv'
  <2>1. CASE Kind[r] = "crash" /\ WorkerCallback(r)
    BY <1>2, <2>1 DEF WorkerCallback, queueVars, pcVars, handVars
  <2>2. CASE ~(Kind[r] = "crash" /\ WorkerCallback(r))
    <3>1. stage[r] \in {"running", "answering", "releasing"}
      BY <1>11 DEF WorkerCallback, WorkerAnswer, Answered, WorkerRelease, ReleaseSlot
    <3>2. PICK v \in {"answering", "releasing", "finished"} :
            /\ stage' = [stage EXCEPT ![r] = v]
            /\ UNCHANGED <<reqPipe, requestQueue, poolQueue, handler, hreq>>
      BY <1>11, <2>2 DEF WorkerCallback, WorkerAnswer, Answered, WorkerRelease, ReleaseSlot,
           queueVars, pcVars, handVars
    <3>3. /\ Holds(reqPipe', stage', "piped") /\ Holds(requestQueue', stage', "queued")
          /\ Holds(poolQueue', stage', "pooled") /\ Within(poolQueue', stage', "pooled")
      BY <1>1, <3>1, <3>2, HoldsUpdate, WithinUpdate DEF PlacesInv
    <3> QED BY <1>1, <3>1, <3>2, <3>3 DEF PlacesInv, HandsInv, Handling
  <2> QED BY <2>1, <2>2
<1>12. CASE \/ UNCHANGED vars \/ ClientRecv \/ ClientClose \/ ClientKill
            \/ ReaderEnter \/ ReaderSize \/ ReaderEof \/ ReaderPipeClosed \/ ReaderStolen
            \/ PoolRetire \/ Writer \/ MainJoin \/ Ended
            \/ \E r \in Request : WorkerOpen(r)
  BY <1>2, <1>12 DEF vars, ClientRecv, ClientClose, ClientKill, ReaderEnter, ReaderSize,
     ReaderEof, ReaderPipeClosed, ReaderStolen, PoolRetire, Writer, WriterPop, WriterWrite,
     WriterBroken,
     WriterStopCheck, WriterStopClose, MainJoin, ReaderJoined, Ended, WorkerOpen, queueVars,
     pcVars, handVars
<1> QED BY <1>3, <1>4, <1>5, <1>6, <1>7, <1>8, <1>9, <1>10, <1>11, <1>12
        DEF Next, Reader, Handler, Worker

-----------------------------------------------------------------------------
(* The counter of free slots *)

\* Only finitely many requests are admitted or served, so that they can be counted.
LEMMA Counts ==
  /\ IsFiniteSet(Admitted) /\ Cardinality(Admitted) \in Nat
  /\ IsFiniteSet(Busy) /\ Cardinality(Busy) \in Nat
  /\ Busy \subseteq Admitted
<1>1. IsFiniteSet(Admitted) /\ IsFiniteSet(Busy)
  BY ConstantsAssumption, FS_Subset DEF Admitted, Busy
<1> QED BY <1>1, FS_CardinalityType DEF Admitted, Busy

\* requestHandler holds a slot for at most one request it has not pushed yet ...
LEMMA InHandCount ==
  Cardinality(InHand) = IF handler \in {"reject", "undo", "push"} THEN 1 ELSE 0
BY FS_Singleton, FS_EmptySet DEF InHand

\* ... and so it does after a step.
LEMMA InHandCountNext ==
  Cardinality(InHand') = IF handler' \in {"reject", "undo", "push"} THEN 1 ELSE 0
BY FS_Singleton, FS_EmptySet DEF InHand

\* A request that moves between stages outside the pool changes neither set.
LEMMA OutsidePool ==
  ASSUME stage \in [Request -> Stages], NEW x \in Request, NEW v,
         stage[x] \notin {"pooled", "running", "answering", "releasing"},
         v \notin {"pooled", "running", "answering", "releasing"},
         stage' = [stage EXCEPT ![x] = v]
  PROVE  Admitted' = Admitted /\ Busy' = Busy
BY DEF Admitted, Busy

\* The counter is exact and positive outside a rejection; the pool stays within its limit.
LEMMA SlotsStep ==
  TypeOK /\ HandsInv /\ PlacesInv /\ SlotsInv /\ [Next]_vars => SlotsInv'
<1> SUFFICES ASSUME TypeOK, HandsInv, PlacesInv, SlotsInv, [Next]_vars PROVE SlotsInv'
  OBVIOUS
<1> USE ConstantsAssumption, OptionsAssumption
<1>1. /\ MaxThreads \in Nat /\ MaxQueued \in Int /\ Capacity \in Int
      /\ queueSlotsLeft \in Int /\ poolThreads \in Nat
      /\ stage \in [Request -> Stages]
      /\ Bounded \in BOOLEAN
  BY DEF TypeOK, OptionsAccepted, Capacity, Bounded
<1>2. CASE /\ Admitted' = Admitted /\ Busy' = Busy
           /\ UNCHANGED <<handler, hreq, queueSlotsLeft, poolThreads>>
  BY <1>2 DEF SlotsInv, SlotAccounting, InHand, Bounded, Capacity
<1>3. CASE /\ UNCHANGED <<stage, handler, hreq, queueSlotsLeft, poolThreads>>
  BY <1>2, <1>3 DEF Admitted, Busy
<1>4. ASSUME NEW r \in Request, ClientSend(r) PROVE SlotsInv'
  BY <1>1, <1>2, <1>4, OutsidePool DEF ClientSend, queueVars, pcVars, handVars
<1>5. CASE ReaderPayload
  <2>1. CASE readFd # "pipe"
    BY <1>3, <1>5, <2>1 DEF ReaderPayload, handVars
  <2>2. CASE readFd = "pipe"
    <3>1. reqPipe # <<>>
      BY <1>5 DEF ReaderPayload, HandsInv
    <3>2. Head(reqPipe) \in Request /\ Head(reqPipe) = reqPipe[1] /\ 1 \in DOMAIN reqPipe
      BY <3>1 DEF TypeOK
    <3>3. stage[Head(reqPipe)] = "piped"
      BY <3>2 DEF PlacesInv, Holds
    <3>4. PICK v \in {"malformed", "queued"} :
            /\ stage' = [stage EXCEPT ![Head(reqPipe)] = v]
            /\ UNCHANGED <<handler, hreq, queueSlotsLeft, poolThreads>>
      BY <1>5, <2>2 DEF ReaderPayload, handVars
    <3> QED BY <1>1, <1>2, <3>2, <3>3, <3>4, OutsidePool
  <2> QED BY <2>1, <2>2
<1>6. CASE HandlerPop
  <2>1. Admitted' = Admitted /\ Busy' = Busy
    <3>1. CASE Head(requestQueue) = STOP
      BY <1>6, <3>1 DEF HandlerPop, IsStop, Admitted, Busy
    <3>2. CASE Head(requestQueue) # STOP
      <4>1. /\ Head(requestQueue) \in Request
            /\ Head(requestQueue) = requestQueue[1] /\ 1 \in DOMAIN requestQueue
        BY <1>6, <3>2 DEF TypeOK, HandlerPop, IsStop
      <4>2. stage[Head(requestQueue)] = "queued"
        BY <4>1 DEF PlacesInv, Holds
      <4>3. PICK v \in {"handling", "lost"} : stage' = [stage EXCEPT ![Head(requestQueue)] = v]
        BY <1>6, <3>2 DEF HandlerPop, IsStop
      <4> QED BY <1>1, <4>1, <4>2, <4>3, OutsidePool
    <3> QED BY <3>1, <3>2
  <2>2. /\ handler = "pop" /\ handler' \in {"admit", "stopcheck"}
        /\ UNCHANGED <<queueSlotsLeft, poolThreads>>
    BY <1>6 DEF HandlerPop, IsStop
  <2> QED BY <1>1, <2>1, <2>2, InHandCount, InHandCountNext
          DEF SlotsInv, SlotAccounting, Bounded, Capacity
<1>7. CASE HandlerAdmit
  <2>1. hreq \in Request /\ stage[hreq] = "handling" /\ handler = "admit"
    BY <1>7 DEF HandlerAdmit, DecAndTest, HandsInv, Handling, PlacesInv
  <2>2. PICK v \in {"handling", "rejecting"} : stage' = [stage EXCEPT ![hreq] = v]
    BY <1>1, <1>7, <2>1 DEF HandlerAdmit, DecAndTest
  <2>3. Admitted' = Admitted /\ Busy' = Busy
    BY <1>1, <2>1, <2>2, OutsidePool
  <2>4. CASE Bounded
    <3>1. /\ queueSlotsLeft' = queueSlotsLeft - 1 /\ UNCHANGED poolThreads
          /\ handler' = IF queueSlotsLeft - 1 = 0 THEN "reject" ELSE "push"
      BY <1>7, <2>4 DEF HandlerAdmit, DecAndTest, queueVars
    <3>2. queueSlotsLeft >= 1 /\ queueSlotsLeft = Capacity + 1 - Cardinality(Admitted)
      BY <1>1, <2>1, <2>4, Counts, InHandCount DEF SlotsInv, SlotAccounting
    <3> QED BY <1>1, <2>3, <2>4, <3>1, <3>2, Counts, InHandCountNext
            DEF SlotsInv, SlotAccounting, Bounded, Capacity
  <2>5. CASE ~Bounded
    <3>1. handler' = "push" /\ UNCHANGED <<queueSlotsLeft, poolThreads>>
      BY <1>7, <2>5 DEF HandlerAdmit, DecAndTest, queueVars
    <3> QED BY <1>1, <2>3, <2>5, <3>1 DEF SlotsInv, SlotAccounting, Bounded
  <2> QED BY <1>1, <2>4, <2>5
<1>8. CASE servQueueFull
  <2>1. hreq \in Request /\ stage[hreq] = "rejecting"
    BY <1>8 DEF servQueueFull, RespondFull, HandsInv, Handling, PlacesInv
  <2>2. Admitted' = Admitted /\ Busy' = Busy
    BY <1>1, <1>8, <2>1, OutsidePool DEF servQueueFull, RespondFull
  <2>3. /\ handler = "reject" /\ handler' = "undo" /\ UNCHANGED <<queueSlotsLeft, poolThreads>>
    BY <1>8 DEF servQueueFull, RespondFull
  <2> QED BY <1>1, <2>2, <2>3, InHandCount, InHandCountNext
          DEF SlotsInv, SlotAccounting, Bounded, Capacity
<1>9. CASE HandlerUndo
  <2>1. Admitted' = Admitted /\ Busy' = Busy
    BY <1>9 DEF HandlerUndo, UndoSlot, Admitted, Busy
  <2>2. /\ handler = "undo" /\ handler' = "pop" /\ queueSlotsLeft' = queueSlotsLeft + 1
        /\ UNCHANGED poolThreads
    BY <1>9 DEF HandlerUndo, UndoSlot, queueVars
  <2> QED BY <1>1, <2>1, <2>2, Counts, InHandCount, InHandCountNext
          DEF SlotsInv, SlotAccounting, Bounded, Capacity
<1>10. CASE HandlerPush
  <2>1. hreq \in Request /\ stage[hreq] = "handling" /\ handler = "push"
    BY <1>10 DEF HandlerPush, HandsInv, Handling, PlacesInv
  <2>2. Admitted' = Admitted \cup {hreq} /\ Busy' = Busy /\ hreq \notin Admitted
    BY <1>1, <1>10, <2>1 DEF HandlerPush, Admitted, Busy
  <2>3. Cardinality(Admitted') = Cardinality(Admitted) + 1
    BY <2>2, Counts, FS_AddElement
  <2>4. handler' \in {"pop", "stopcheck"} /\ UNCHANGED queueSlotsLeft
    BY <1>10 DEF HandlerPush
  <2>5. poolThreads' = poolThreads \/ (PoolGrows /\ poolThreads' = poolThreads + 1)
    BY <1>10 DEF HandlerPush
  <2>6. SlotAccounting'
    BY <1>1, <2>1, <2>3, <2>4, Counts, InHandCount, InHandCountNext
    DEF SlotsInv, SlotAccounting, Bounded, Capacity
  <2>7. Cardinality(Busy') <= poolThreads' /\ (MaxThreads > 0 => poolThreads' <= MaxThreads)
    BY <1>1, <2>2, <2>5, Counts DEF SlotsInv, PoolGrows
  <2> QED BY <1>1, <2>1, <2>4, <2>6, <2>7 DEF SlotsInv, Bounded
<1>11. CASE HandlerStopCheck \/ HandlerStopClose \/ HandlerFlush
  <2>1. Admitted' = Admitted /\ Busy' = Busy
    BY <1>11 DEF HandlerStopCheck, HandlerStopClose, HandlerFlush, PoolDrained, Admitted, Busy
  <2>2. /\ handler \in {"stopcheck", "stopclose", "flush"}
        /\ handler' \in {"stopclose", "flush", "done"}
        /\ UNCHANGED <<queueSlotsLeft, poolThreads>>
    BY <1>11 DEF HandlerStopCheck, HandlerStopClose, HandlerFlush, PoolDrained, queueVars
  <2> QED BY <1>1, <2>1, <2>2, InHandCount, InHandCountNext
          DEF SlotsInv, SlotAccounting, Bounded, Capacity
<1>12. CASE WorkerStart
  <2> DEFINE r == Head(poolQueue)
  <2>1. r \in Request /\ r = poolQueue[1] /\ 1 \in DOMAIN poolQueue
    BY <1>12 DEF WorkerStart, TypeOK
  <2>2. stage[r] = "pooled"
    BY <2>1 DEF PlacesInv, Holds
  <2>3. Admitted' = Admitted /\ Busy' = Busy \cup {r} /\ r \notin Busy
    BY <1>1, <1>12, <2>1, <2>2 DEF WorkerStart, Admitted, Busy
  <2>4. Cardinality(Busy') = Cardinality(Busy) + 1
    BY <2>3, Counts, FS_AddElement
  <2>5. Cardinality(Busy) < poolThreads /\ UNCHANGED <<handler, hreq, queueSlotsLeft, poolThreads>>
    BY <1>12 DEF WorkerStart, pcVars, handVars
  <2> QED BY <1>1, <2>3, <2>4, <2>5, Counts, InHandCount, InHandCountNext
          DEF SlotsInv, SlotAccounting, Bounded, Capacity
<1>13. CASE PoolRetire
  <2>1. Admitted' = Admitted /\ Busy' = Busy
    BY <1>13 DEF PoolRetire, Admitted, Busy
  <2>2. /\ Cardinality(Busy) < poolThreads /\ poolThreads' = poolThreads - 1
        /\ UNCHANGED <<handler, hreq, queueSlotsLeft>>
    BY <1>13 DEF PoolRetire, pcVars, handVars
  <2> QED BY <1>1, <2>1, <2>2, Counts, InHandCount, InHandCountNext
          DEF SlotsInv, SlotAccounting, Bounded, Capacity
<1>14. ASSUME NEW r \in Request, WorkerCallback(r) \/ WorkerAnswer(r) PROVE SlotsInv'
  <2>1. Admitted' = Admitted /\ Busy' = Busy
    BY <1>1, <1>14 DEF WorkerCallback, WorkerAnswer, Answered, Admitted, Busy
  <2> QED BY <1>2, <1>14, <2>1 DEF WorkerCallback, WorkerAnswer, Answered, queueVars, pcVars,
       handVars
<1>15. ASSUME NEW r \in Request, WorkerRelease(r) PROVE SlotsInv'
  <2>1. /\ Admitted' = Admitted \ {r} /\ Busy' = Busy \ {r}
        /\ r \in Admitted /\ r \in Busy
    BY <1>1, <1>15 DEF WorkerRelease, ReleaseSlot, Admitted, Busy
  <2>2. /\ Cardinality(Admitted') = Cardinality(Admitted) - 1
        /\ Cardinality(Busy') = Cardinality(Busy) - 1
    BY <2>1, Counts, FS_RemoveElement
  <2>3. /\ queueSlotsLeft' = IF Bounded THEN queueSlotsLeft + 1 ELSE queueSlotsLeft
        /\ UNCHANGED <<handler, hreq, poolThreads>>
    BY <1>15 DEF WorkerRelease, ReleaseSlot, queueVars, pcVars, handVars
  <2> QED BY <1>1, <2>2, <2>3, Counts, InHandCount, InHandCountNext
          DEF SlotsInv, SlotAccounting, Bounded, Capacity
<1>16. CASE \/ UNCHANGED vars \/ ClientRecv \/ ClientClose \/ ClientKill
            \/ ReaderEnter \/ ReaderSize \/ ReaderEof \/ ReaderPipeClosed \/ ReaderStolen
            \/ ReaderStop
            \/ Writer \/ MainJoin \/ Ended
            \/ \E r \in Request : WorkerOpen(r)
  BY <1>3, <1>16 DEF vars, ClientRecv, ClientClose, ClientKill, ReaderEnter, ReaderSize,
     ReaderEof, ReaderPipeClosed, ReaderStolen, ReaderStop, EndOfRequests, AfterLoop, Writer,
     WriterPop, WriterWrite, WriterBroken,
     WriterStopCheck, WriterStopClose, MainJoin, ReaderJoined, Ended, WorkerOpen, queueVars,
     pcVars, handVars
<1> QED BY <1>4, <1>5, <1>6, <1>7, <1>8, <1>9, <1>10, <1>11, <1>12, <1>13, <1>14, <1>15,
           <1>16 DEF Next, Reader, Handler, Worker

-----------------------------------------------------------------------------
(* Shutdown *)

\* What is behind the head of a queue, or in front of its new end, was in the queue.
LEMMA QueueElements ==
  ASSUME NEW S, NEW q \in Seq(S)
  PROVE  /\ q # <<>> => /\ 1 \in DOMAIN q /\ Head(q) = q[1]
                        /\ \A i \in DOMAIN Tail(q) : i + 1 \in DOMAIN q /\ Tail(q)[i] = q[i + 1]
         /\ \A x \in S : \A i \in DOMAIN Append(q, x) :
              Append(q, x)[i] = x \/ (i \in DOMAIN q /\ Append(q, x)[i] = q[i])
OBVIOUS

\* The threads end in the order reader, handler, writer, and what each leaves behind is not
\* used by the next.
LEMMA ShutdownStep ==
  TypeOK /\ HandsInv /\ PlacesInv /\ ShutdownInv /\ [Next]_vars => ShutdownInv'
<1> SUFFICES ASSUME TypeOK, HandsInv, PlacesInv, ShutdownInv, [Next]_vars
             PROVE  ShutdownInv'
  OBVIOUS
<1> USE ConstantsAssumption
<1>1. requestQueue \in Seq(Request \cup {STOP}) /\ stage \in [Request -> Stages]
  BY DEF TypeOK
<1>2. CASE UNCHANGED <<handler, poolQueue, stage, main, reader, writer, requestQueue, readFd>>
  BY <1>2 DEF ShutdownInv, Busy
<1>3. ASSUME NEW r \in Request, ClientSend(r) PROVE ShutdownInv'
  <2>1. Busy' = Busy
    BY <1>1, <1>3, OutsidePool DEF ClientSend
  <2> QED BY <1>3, <2>1 DEF ClientSend, ShutdownInv, queueVars, pcVars, fdVars
<1>4. CASE ReaderEnter \/ ReaderSize \/ ReaderEof \/ ReaderPipeClosed \/ ReaderStolen
  <2>1. Busy' = Busy
    BY <1>4 DEF ReaderEnter, ReaderSize, ReaderEof, ReaderPipeClosed, ReaderStolen, Busy
  <2> QED BY <1>4, <2>1 DEF ReaderEnter, ReaderSize, ReaderEof, ReaderPipeClosed, ReaderStolen,
                            ShutdownInv, queueVars, fdVars
<1>5. CASE ReaderPayload
  <2>1. reqPipe # <<>> /\ Head(reqPipe) \in Request /\ Head(reqPipe) = reqPipe[1]
        /\ 1 \in DOMAIN reqPipe
    BY <1>5 DEF ReaderPayload, HandsInv, TypeOK
  <2>2. stage[Head(reqPipe)] = "piped"
    BY <2>1 DEF PlacesInv, Holds
  <2>3. Busy' = Busy
    <3>1. CASE UNCHANGED stage
      BY <3>1 DEF Busy
    <3>2. CASE \E v \in {"malformed", "queued"} : stage' = [stage EXCEPT ![Head(reqPipe)] = v]
      BY <1>1, <2>1, <2>2, <3>2, OutsidePool
    <3> QED BY <1>5, <3>1, <3>2 DEF ReaderPayload
  <2>4. reader = "payload" /\ reader' \in {"stop", "stolen", "enter"}
        /\ (reader' = "stolen" => readFd \notin {"pipe", "free"})
        /\ UNCHANGED <<handler, poolQueue, main, writer, readFd>>
    BY <1>5 DEF ReaderPayload, fdVars
  <2>5. \A i \in DOMAIN requestQueue' : requestQueue'[i] # STOP
    <3>1. \A i \in DOMAIN requestQueue : requestQueue[i] # STOP
      BY <2>4 DEF ShutdownInv
    <3>2. CASE UNCHANGED requestQueue
      BY <3>1, <3>2
    <3>3. CASE requestQueue' = Append(requestQueue, Head(reqPipe))
      BY <1>1, <2>1, <3>1, <3>3, QueueElements
    <3> QED BY <1>5, <3>2, <3>3 DEF ReaderPayload
  <2>6. reader # "done" /\ reader = "payload"
    BY <2>4
  <2>7. Faults \cap {"malloc", "pthread"} = {} =>
          handler \notin {"stopcheck", "stopclose", "flush", "done"}
    BY <2>6 DEF ShutdownInv
  <2> QED BY <2>3, <2>4, <2>5, <2>6, <2>7 DEF ShutdownInv
<1>6. CASE ReaderStop
  <2>1. Busy' = Busy
    BY <1>6 DEF ReaderStop, EndOfRequests, AfterLoop, Busy
  <2>2. /\ reader = "stop" /\ reader' = "done" /\ requestQueue' = Append(requestQueue, STOP)
        /\ UNCHANGED <<poolQueue, handler, writer, main, readFd>>
    BY <1>6 DEF ReaderStop, EndOfRequests, AfterLoop, fdVars
  <2>3. \A i \in DOMAIN requestQueue : requestQueue[i] # STOP
    BY <2>2 DEF ShutdownInv
  <2>4. \A i \in DOMAIN requestQueue' : requestQueue'[i] = STOP => i = Len(requestQueue')
    BY <1>1, <2>2, <2>3
  <2> QED BY <2>1, <2>2, <2>4 DEF ShutdownInv
<1>7. CASE HandlerPop
  <2>1. /\ handler = "pop" /\ handler' \in {"admit", "stopcheck"}
        /\ requestQueue # <<>> /\ requestQueue' = Tail(requestQueue)
        /\ "malloc" \notin Faults /\ handler' = "stopcheck" => Head(requestQueue) = STOP
        /\ UNCHANGED <<poolQueue, main, reader, writer, readFd>>
    BY <1>7 DEF HandlerPop, IsStop, fdVars
  <2>2. Head(requestQueue) = STOP => reader = "done" /\ requestQueue' = <<>>
    <3>1. 1 \in DOMAIN requestQueue /\ Head(requestQueue) = requestQueue[1]
      BY <1>1, <2>1
    <3>2. Head(requestQueue) = STOP => reader = "done" /\ Len(requestQueue) = 1
      BY <3>1 DEF ShutdownInv
    <3> QED BY <1>1, <2>1, <3>2
  <2>3. \A i \in DOMAIN requestQueue' :
          requestQueue'[i] = STOP => reader = "done" /\ i = Len(requestQueue')
    <3>1. /\ Len(requestQueue') = Len(requestQueue) - 1 /\ Len(requestQueue) \in Nat
          /\ \A i \in DOMAIN requestQueue' : /\ i \in Int /\ i + 1 \in DOMAIN requestQueue
                                            /\ requestQueue'[i] = requestQueue[i + 1]
      BY <1>1, <2>1
    <3> QED BY <3>1 DEF ShutdownInv
  <2> QED BY <2>1, <2>2, <2>3 DEF ShutdownInv
<1>8. CASE HandlerAdmit \/ servQueueFull \/ HandlerUndo \/ HandlerPush
  <2>1. /\ handler \in {"admit", "reject", "undo", "push"}
        /\ handler' \in {"reject", "undo", "push", "pop"}
           \/ (handler' = "stopcheck" /\ "pthread" \in Faults)
        /\ UNCHANGED <<main, reader, writer, readFd, requestQueue>>
    BY <1>8 DEF HandlerAdmit, DecAndTest, servQueueFull, RespondFull, HandlerUndo, UndoSlot,
         HandlerPush, queueVars, fdVars
  <2> QED BY <2>1 DEF ShutdownInv
<1>9. CASE HandlerStopCheck \/ HandlerStopClose
  <2>1. /\ handler \in {"stopcheck", "stopclose"} /\ handler' \in {"stopclose", "flush"}
        /\ UNCHANGED <<main, reader, writer, requestQueue>>
    BY <1>9 DEF HandlerStopCheck, HandlerStopClose, queueVars
  <2> QED BY <2>1 DEF ShutdownInv
<1>10. CASE HandlerFlush
  <2>1. Busy' = Busy
    BY <1>10 DEF HandlerFlush, PoolDrained, Busy
  <2> QED BY <1>10, <2>1 DEF HandlerFlush, PoolDrained, ShutdownInv, fdVars
<1>11. CASE WorkerStart
  <2>1. handler # "done" /\ UNCHANGED <<handler, main, reader, writer, readFd, requestQueue>>
    BY <1>11 DEF WorkerStart, ShutdownInv, pcVars, fdVars
  <2> QED BY <2>1 DEF ShutdownInv
<1>12. ASSUME NEW r \in Request, Worker(r) PROVE ShutdownInv'
  <2>1. stage[r] \in {"running", "answering", "releasing"}
        /\ UNCHANGED <<handler, main, reader, writer, requestQueue>>
    BY <1>12 DEF Worker, WorkerOpen, WorkerCallback, WorkerAnswer, Answered, WorkerRelease,
         ReleaseSlot, queueVars,
                 pcVars
  <2>2. handler # "done"
    BY <2>1 DEF ShutdownInv, Busy
  <2>3. readFd = "pipe" => readFd' = "pipe"
    BY <1>12 DEF Worker, WorkerOpen, WorkerCallback, WorkerAnswer, Answered, WorkerRelease,
         ReleaseSlot, fdVars
  <2> QED BY <2>1, <2>2, <2>3 DEF ShutdownInv
<1>13. CASE Writer
  <2>1. /\ UNCHANGED <<handler, poolQueue, stage, main, reader, requestQueue>>
        /\ writer \notin {"done", "failed"}
        /\ Faults = {} /\ writer \notin {"stopcheck", "stopclose"} =>
             writer' \notin {"stopcheck", "stopclose", "failed"} /\ UNCHANGED readFd
    BY <1>13 DEF Writer, WriterPop, WriterWrite, WriterBroken, WriterStopCheck,
                 WriterStopClose, queueVars, fdVars
  <2> QED BY <2>1 DEF ShutdownInv, Busy
<1>14. CASE MainJoin
  <2>1. Busy' = Busy
    BY <1>14 DEF MainJoin, ReaderJoined, Busy
  <2> QED BY <1>14, <2>1 DEF MainJoin, ReaderJoined, ShutdownInv, queueVars, fdVars
<1>15. CASE UNCHANGED vars \/ ClientRecv \/ ClientClose \/ ClientKill \/ PoolRetire \/ Ended
  BY <1>2, <1>15 DEF vars, ClientRecv, ClientClose, ClientKill, PoolRetire, Ended,
                     queueVars, pcVars, fdVars
<1> QED BY <1>3, <1>4, <1>5, <1>6, <1>7, <1>8, <1>9, <1>10, <1>11, <1>12, <1>13, <1>14,
           <1>15 DEF Next, Reader, Handler

-----------------------------------------------------------------------------
(* The theorems *)

\* The invariant of the threads holds when communicate() has started them.
LEMMA InitThreads == Init => ThreadsInv
<1> SUFFICES ASSUME Init PROVE ThreadsInv
  OBVIOUS
<1> USE ConstantsAssumption, OptionsAssumption
<1>1. TypeOK /\ HandsInv
  BY DEF Init, TypeOK, HandsInv, Handling, Stages, Capacity, OptionsAccepted
<1>2. PlacesInv
  BY DEF Init, PlacesInv, Holds, Within
<1>3. Admitted = {} /\ Busy = {} /\ InHand = {}
  BY DEF Init, Admitted, Busy, InHand
<1>4. SlotsInv
  BY <1>3, FS_EmptySet
  DEF Init, SlotsInv, SlotAccounting, Bounded, Capacity, OptionsAccepted
<1>5. ShutdownInv
  BY <1>3 DEF Init, ShutdownInv
<1> QED BY <1>1, <1>2, <1>4, <1>5 DEF ThreadsInv

\* Every step of every thread keeps the invariant of the threads.
LEMMA ThreadsStep == ThreadsInv /\ [Next]_vars => ThreadsInv'
BY TypeStep, HandsStep, PlacesStep, SlotsStep, ShutdownStep DEF ThreadsInv

\* Where requests lie agrees with how far they have come, the counter is exact and the
\* threads end in order: what holds of the threads, whatever becomes of the responses.
THEOREM ThreadsInvariance == Spec => []ThreadsInv
BY InitThreads, ThreadsStep, PTL DEF Spec

\* The counter queueSlotsLeft of requestHandler is exact at every step of every thread.
THEOREM CounterExact == Spec => []SlotAccounting
<1>1. ThreadsInv => SlotAccounting
  BY DEF ThreadsInv, SlotsInv
<1> QED BY <1>1, ThreadsInvariance, PTL

\* The limits the options set are kept: admitted requests by the counter, served ones by
\* the pool.
THEOREM LimitsKept == Spec => []AdmissionBound
<1>1. ThreadsInv => AdmissionBound
  BY OptionsAssumption, Counts, InHandCount, SMTT(30)
  DEF ThreadsInv, SlotsInv, SlotAccounting, AdmissionBound, TypeOK, OptionsAccepted,
      Bounded, Capacity
<1> QED BY <1>1, ThreadsInvariance, PTL

\* A request is answered with EAGAIN only when all slots are taken by admitted requests.
THEOREM RejectionsHonest == Spec => RejectionHonest
<1>1. ThreadsInv /\ [Next]_vars =>
        [handler = "admit" /\ handler' = "reject" => Cardinality(Admitted) = Capacity]_vars
  <2> SUFFICES ASSUME ThreadsInv, [Next]_vars, handler = "admit", handler' = "reject"
               PROVE  Cardinality(Admitted) = Capacity
    OBVIOUS
  <2>1. HandlerAdmit
    BY DEF Next, vars, ClientSend, ClientRecv, ClientClose, ClientKill, Reader, ReaderEnter,
       ReaderSize, ReaderPayload, ReaderEof, ReaderPipeClosed, ReaderStolen, ReaderStop,
       EndOfRequests, AfterLoop, Handler, HandlerPop, IsStop,
       servQueueFull, RespondFull, HandlerUndo, UndoSlot, HandlerPush, HandlerStopCheck,
       HandlerStopClose,
       HandlerFlush, PoolDrained, WorkerStart, PoolRetire, Worker, WorkerOpen, WorkerCallback,
       WorkerAnswer, Answered, WorkerRelease, ReleaseSlot, Writer, WriterPop, WriterWrite,
       WriterBroken,
       WriterStopCheck, WriterStopClose, MainJoin, ReaderJoined, Ended, pcVars
  <2>2. Bounded /\ queueSlotsLeft - 1 = 0
    BY <2>1 DEF HandlerAdmit, DecAndTest
  <2> QED BY <2>2, OptionsAssumption, Counts, InHandCount, SMTT(30)
          DEF ThreadsInv, SlotsInv, SlotAccounting, TypeOK, OptionsAccepted, Capacity
<1> QED BY <1>1, ThreadsInvariance, PTL DEF Spec, RejectionHonest

\* The counter on the stack of requestHandler, and the queues of communicate(), outlive
\* every thread that uses them, with and without failures.
THEOREM NothingUsedAfterFree == Spec => []NoUseAfterFree
<1>1. ThreadsInv => NoUseAfterFree
  <2> SUFFICES ASSUME ThreadsInv PROVE NoUseAfterFree
    OBVIOUS
  <2>1. ASSUME handler = "done" PROVE Admitted = {}
    <3>1. poolQueue = <<>> /\ Busy = {}
      BY <2>1 DEF ThreadsInv, ShutdownInv
    <3>2. \A r \in Request : stage[r] # "pooled"
      BY <3>1 DEF ThreadsInv, PlacesInv, Within
    <3> QED BY <3>1, <3>2 DEF Admitted, Busy
  <2> QED BY <2>1 DEF ThreadsInv, ShutdownInv, NoUseAfterFree
<1> QED BY <1>1, ThreadsInvariance, PTL

\* As long as nothing fails, requestReader reads the request pipe and nothing else.
THEOREM ReaderOnPipe == Faults = {} => (Spec => []ReaderStaysOnPipe)
<1> SUFFICES ASSUME Faults = {} PROVE Spec => []ReaderStaysOnPipe
  OBVIOUS
<1>1. ThreadsInv => ReaderStaysOnPipe
  BY DEF ThreadsInv, ShutdownInv, ReaderStaysOnPipe
<1> QED BY <1>1, ThreadsInvariance, PTL

-----------------------------------------------------------------------------
(* What becomes of a request: its memory, its response, and what the client sees of it *)

\* The stages a request goes through, each with those that may follow it.
Follows(s, v) ==
  \/ s = "new" /\ v = "piped"
  \/ s = "piped" /\ v \in {"malformed", "queued"}
  \/ s = "queued" /\ v \in {"handling", "lost"}
  \/ s = "handling" /\ v \in {"handling", "rejecting", "pooled"}
  \/ s = "rejecting" /\ v = "rejected"
  \/ s = "pooled" /\ v = "running"
  \/ s = "running" /\ v \in {"answering", "releasing"}
  \/ s = "answering" /\ v = "releasing"
  \/ s = "releasing" /\ v = "finished"

\* What a thread takes from a queue, or has in hand, is at the stage that belongs there.
LEMMA TakenAt ==
  ASSUME TypeOK, HandsInv, PlacesInv
  PROVE  /\ reader = "payload" => /\ reqPipe # <<>> /\ Head(reqPipe) \in Request
                                  /\ stage[Head(reqPipe)] = "piped"
         /\ requestQueue # <<>> /\ Head(requestQueue) # STOP =>
              Head(requestQueue) \in Request /\ stage[Head(requestQueue)] = "queued"
         /\ poolQueue # <<>> => Head(poolQueue) \in Request /\ stage[Head(poolQueue)] = "pooled"
         /\ handler \in Handling => hreq \in Request
         /\ handler \in {"admit", "push"} => stage[hreq] = "handling"
         /\ handler = "reject" => stage[hreq] = "rejecting"
<1>1. ASSUME reader = "payload"
      PROVE  reqPipe # <<>> /\ Head(reqPipe) \in Request /\ stage[Head(reqPipe)] = "piped"
  <2>1. reqPipe \in Seq(Request) /\ reqPipe # <<>>
    BY <1>1 DEF TypeOK, HandsInv
  <2>2. Head(reqPipe) \in Request /\ 1 \in DOMAIN reqPipe /\ reqPipe[1] = Head(reqPipe)
    BY <2>1
  <2> QED BY <2>1, <2>2, ConstantsAssumption DEF PlacesInv, Holds
<1>2. ASSUME requestQueue # <<>>, Head(requestQueue) # STOP
      PROVE  Head(requestQueue) \in Request /\ stage[Head(requestQueue)] = "queued"
  <2>1. requestQueue \in Seq(Request \cup {STOP})
    BY DEF TypeOK
  <2>2. /\ Head(requestQueue) \in Request \cup {STOP}
        /\ 1 \in DOMAIN requestQueue /\ requestQueue[1] = Head(requestQueue)
    BY <1>2, <2>1
  <2> QED BY <1>2, <2>2 DEF PlacesInv, Holds
<1>3. ASSUME poolQueue # <<>>
      PROVE  Head(poolQueue) \in Request /\ stage[Head(poolQueue)] = "pooled"
  <2>1. poolQueue \in Seq(Request)
    BY DEF TypeOK
  <2>2. Head(poolQueue) \in Request /\ 1 \in DOMAIN poolQueue /\ poolQueue[1] = Head(poolQueue)
    BY <1>3, <2>1
  <2> QED BY <2>2, ConstantsAssumption DEF PlacesInv, Holds
<1> QED BY <1>1, <1>2, <1>3 DEF HandsInv, PlacesInv

\* A step moves at most one request, and to a stage that follows the one it has reached; only
\* the client moves one that is new.
LEMMA OneMoves ==
  ASSUME TypeOK, HandsInv, PlacesInv, [Next]_vars
  PROVE  \/ UNCHANGED stage
         \/ \E x \in Request, v \in Stages :
              /\ stage' = [stage EXCEPT ![x] = v] /\ Follows(stage[x], v)
              /\ stage[x] = "new" => ClientSend(x)
<1> DEFINE Goal == \/ UNCHANGED stage
                   \/ \E x \in Request, v \in Stages :
                        /\ stage' = [stage EXCEPT ![x] = v] /\ Follows(stage[x], v)
                        /\ stage[x] = "new" => ClientSend(x)
<1> SUFFICES Goal
  OBVIOUS
<1>1. ASSUME NEW x \in Request, NEW v, stage' = [stage EXCEPT ![x] = v], Follows(stage[x], v),
             stage[x] = "new" => ClientSend(x)
      PROVE  Goal
  BY <1>1 DEF Follows, Stages
<1> HIDE DEF Goal
<1>2. CASE UNCHANGED stage
  BY <1>2 DEF Goal
<1>3. ASSUME NEW r \in Request, ClientSend(r) PROVE Goal
  BY <1>1, <1>3 DEF ClientSend, Follows
<1>4. CASE ReaderPayload
  BY <1>1, <1>2, <1>4, TakenAt DEF ReaderPayload, Follows
<1>5. CASE HandlerPop
  BY <1>1, <1>2, <1>5, TakenAt DEF HandlerPop, IsStop, Follows
<1>6. CASE HandlerAdmit \/ servQueueFull \/ HandlerPush
  <2>1. hreq \in Request /\ (handler \in {"admit", "push"} => stage[hreq] = "handling")
        /\ (handler = "reject" => stage[hreq] = "rejecting")
    BY <1>6, TakenAt DEF HandlerAdmit, servQueueFull, HandlerPush, Handling
  <2>2. CASE HandlerAdmit
    <3>1. PICK v \in {"handling", "rejecting"} : stage' = [stage EXCEPT ![hreq] = v]
      BY <2>1, <2>2 DEF HandlerAdmit, DecAndTest, TypeOK
    <3> QED BY <1>1, <2>1, <2>2, <3>1 DEF HandlerAdmit, Follows
  <2>3. CASE servQueueFull
    BY <1>1, <2>1, <2>3 DEF servQueueFull, Follows
  <2>4. CASE HandlerPush
    BY <1>1, <2>1, <2>4 DEF HandlerPush, Follows
  <2> QED BY <1>6, <2>2, <2>3, <2>4
<1>7. CASE WorkerStart
  BY <1>1, <1>7, TakenAt DEF WorkerStart, Follows
<1>8. ASSUME NEW r \in Request, Worker(r) PROVE Goal
  BY <1>1, <1>2, <1>8
  DEF Worker, WorkerOpen, WorkerCallback, WorkerAnswer, Answered, WorkerRelease, Follows
<1>9. CASE \/ UNCHANGED vars \/ ClientRecv \/ ClientClose \/ ClientKill
           \/ ReaderEnter \/ ReaderSize \/ ReaderEof \/ ReaderPipeClosed \/ ReaderStolen
           \/ ReaderStop
           \/ HandlerUndo \/ HandlerStopCheck \/ HandlerStopClose \/ HandlerFlush
           \/ PoolRetire \/ Writer \/ MainJoin \/ Ended
  BY <1>2, <1>9
  DEF vars, ClientRecv, ClientClose, ClientKill, ReaderEnter, ReaderSize, ReaderEof,
      ReaderPipeClosed,
      ReaderStolen, ReaderStop, HandlerUndo, HandlerStopCheck, HandlerStopClose, HandlerFlush,
      PoolRetire, Writer, WriterPop, WriterWrite, WriterBroken, WriterStopCheck,
      WriterStopClose, MainJoin, Ended
<1> QED BY <1>3, <1>4, <1>5, <1>6, <1>7, <1>8, <1>9 DEF Next, Reader, Handler

-----------------------------------------------------------------------------
(* The memory of a request *)

\* Only requestReader allocates a request and only the worker that has served it frees it.
LEMMA LifetimeStep ==
  TypeOK /\ HandsInv /\ PlacesInv /\ NodeLifetime /\ [Next]_vars => NodeLifetime'
<1> SUFFICES ASSUME TypeOK, HandsInv, PlacesInv, NodeLifetime, [Next]_vars PROVE NodeLifetime'
  OBVIOUS
<1>1. stage \in [Request -> Stages] /\ heap \subseteq Request
  BY DEF TypeOK
<1>2. CASE ReaderPayload /\ readFd = "pipe"
  <2>1. Head(reqPipe) \in Request /\ stage[Head(reqPipe)] = "piped"
    BY <1>2, TakenAt DEF ReaderPayload
  <2>2. \/ stage' = [stage EXCEPT ![Head(reqPipe)] = "malformed"] /\ heap' = heap
        \/ stage' = [stage EXCEPT ![Head(reqPipe)] = "queued"] /\ heap' = heap \cup {Head(reqPipe)}
    BY <1>2 DEF ReaderPayload
  <2> QED BY <1>1, <2>1, <2>2 DEF NodeLifetime
<1>3. ASSUME NEW r \in Request, WorkerRelease(r) PROVE NodeLifetime'
  BY <1>1, <1>3 DEF WorkerRelease, FreeRequest, NodeLifetime
<1>4. CASE UNCHANGED <<stage, heap>>
  BY <1>4 DEF NodeLifetime
<1>5. ASSUME NEW r \in Request, ClientSend(r) PROVE NodeLifetime'
  BY <1>1, <1>5 DEF ClientSend, NodeLifetime
<1>6. ASSUME NEW x \in Request, NEW v, stage' = [stage EXCEPT ![x] = v], heap' = heap,
             stage[x] \notin {"new", "piped", "malformed", "finished"}, v # "finished"
      PROVE  NodeLifetime'
  BY <1>1, <1>6 DEF NodeLifetime
<1>7. CASE HandlerPop
  BY <1>4, <1>6, <1>7, TakenAt DEF HandlerPop, IsStop
<1>8. CASE HandlerAdmit \/ servQueueFull \/ HandlerPush
  <2>1. hreq \in Request /\ stage[hreq] \in {"handling", "rejecting"}
    BY <1>8, TakenAt DEF HandlerAdmit, servQueueFull, HandlerPush, Handling
  <2>2. \E v \in {"handling", "rejecting", "rejected", "pooled"} :
          stage' = [stage EXCEPT ![hreq] = v] /\ heap' = heap
    BY <1>8, <2>1, TakenAt DEF HandlerAdmit, DecAndTest, servQueueFull, HandlerPush, TypeOK
  <2> QED BY <1>6, <2>1, <2>2
<1>9. CASE WorkerStart
  BY <1>6, <1>9, TakenAt DEF WorkerStart
<1>10. ASSUME NEW r \in Request, WorkerOpen(r) \/ WorkerCallback(r) \/ WorkerAnswer(r)
       PROVE  NodeLifetime'
  BY <1>4, <1>6, <1>10 DEF WorkerOpen, WorkerCallback, WorkerAnswer, Answered
<1>11. CASE \/ UNCHANGED vars \/ ClientRecv \/ ClientClose \/ ClientKill
            \/ ReaderEnter \/ ReaderSize \/ ReaderEof \/ ReaderPipeClosed \/ ReaderStolen
            \/ ReaderStop
            \/ (ReaderPayload /\ readFd # "pipe")
            \/ HandlerUndo \/ HandlerStopCheck \/ HandlerStopClose \/ HandlerFlush
            \/ PoolRetire \/ Writer \/ MainJoin \/ Ended
  BY <1>4, <1>11
  DEF vars, ClientRecv, ClientClose, ClientKill, ReaderEnter, ReaderSize, ReaderEof,
      ReaderPipeClosed, ReaderStolen, ReaderStop, ReaderPayload, HandlerUndo, HandlerStopCheck,
      HandlerStopClose, HandlerFlush, PoolRetire, Writer, WriterPop, WriterWrite,
      WriterBroken, WriterStopCheck, WriterStopClose, MainJoin, Ended
<1> QED BY <1>2, <1>3, <1>5, <1>7, <1>8, <1>9, <1>10, <1>11
        DEF Next, Reader, Handler, Worker

-----------------------------------------------------------------------------
(* Responses on their way to the pipe *)

\* A response put at the end of a queue ...
LEMMA AmongAppend ==
  ASSUME NEW S, NEW q \in Seq(S), NEW x \in S, NEW r
  PROVE  /\ Among(Append(q, x), r) <=> Among(q, r) \/ AnswerTo(x, r)
         /\ Once(q, r) /\ ~(Among(q, r) /\ AnswerTo(x, r)) => Once(Append(q, x), r)
<1>1. /\ \A i \in DOMAIN q : i \in DOMAIN Append(q, x) /\ Append(q, x)[i] = q[i]
      /\ Len(q) + 1 \in DOMAIN Append(q, x) /\ Append(q, x)[Len(q) + 1] = x
      /\ \A i \in DOMAIN Append(q, x) : i = Len(q) + 1 \/ i \in DOMAIN q
  OBVIOUS
<1>2. Among(Append(q, x), r) <=> Among(q, r) \/ AnswerTo(x, r)
  BY <1>1 DEF Among
<1>3. Once(q, r) /\ ~(Among(q, r) /\ AnswerTo(x, r)) => Once(Append(q, x), r)
  BY <1>1 DEF Among, Once
<1> QED BY <1>2, <1>3

\* ... and one taken from its front.
LEMMA AmongTail ==
  ASSUME NEW S, NEW q \in Seq(S), q # <<>>, NEW r
  PROVE  /\ Among(q, r) <=> AnswerTo(Head(q), r) \/ Among(Tail(q), r)
         /\ Once(q, r) => Once(Tail(q), r) /\ ~(AnswerTo(Head(q), r) /\ Among(Tail(q), r))
<1>1. /\ 1 \in DOMAIN q /\ q[1] = Head(q)
      /\ \A i \in DOMAIN Tail(q) : i \in Int /\ i # 0 /\ i + 1 \in DOMAIN q
                                     /\ q[i + 1] = Tail(q)[i]
      /\ \A i \in DOMAIN q : i = 1 \/ (i - 1 \in DOMAIN Tail(q) /\ Tail(q)[i - 1] = q[i])
  OBVIOUS
<1>2. Among(q, r) <=> AnswerTo(Head(q), r) \/ Among(Tail(q), r)
  BY <1>1 DEF Among
<1>3. ASSUME Once(q, r)
      PROVE  Once(Tail(q), r) /\ ~(AnswerTo(Head(q), r) /\ Among(Tail(q), r))
  BY <1>1, <1>3 DEF Among, Once
<1> QED BY <1>2, <1>3

\* A request that may have an answer may have it for ever, and one that is new was not moved.
LEMMA AnsweredStays ==
  ASSUME TypeOK, HandsInv, PlacesInv, [Next]_vars
  PROVE  /\ \A r \in Request : stage[r] \in {"rejected", "releasing", "finished"} =>
              stage'[r] \in {"rejected", "releasing", "finished"}
         /\ \A r \in Request : Owed(r) => Owed(r)'
         /\ \A r \in Request : stage[r] # "new" => stage'[r] # "new"
<1>1. stage \in [Request -> Stages]
  BY DEF TypeOK
<1>2. CASE UNCHANGED stage
  BY <1>2 DEF Owed
<1>3. ASSUME NEW x \in Request, NEW v \in Stages,
             stage' = [stage EXCEPT ![x] = v], Follows(stage[x], v)
      PROVE  \A r \in Request :
               /\ stage[r] \in {"rejected", "releasing", "finished"} =>
                    stage'[r] \in {"rejected", "releasing", "finished"}
               /\ Owed(r) => Owed(r)'
               /\ stage[r] # "new" => stage'[r] # "new"
  BY <1>1, <1>3 DEF Follows, Owed
<1> QED BY <1>2, <1>3, OneMoves

\* The steps that queue a response, with the request it answers.
LEMMA AnswerSteps ==
  ASSUME TypeOK, HandsInv, PlacesInv,
         servQueueFull \/ \E r \in Request : WorkerAnswer(r)
  PROVE  \E x \in Request, s \in Statuses :
           /\ stage[x] \in {"rejecting", "answering"} /\ proc = "up"
           /\ stage' = [stage EXCEPT ![x] = IF stage[x] = "rejecting" THEN "rejected"
                                                                     ELSE "releasing"]
           /\ responseQueue' = Append(responseQueue, buildResponse(x, s))
           /\ hreq' = hreq
           /\ UNCHANGED <<wresp, written, writer, requestQueue, main, proc>>
           /\ \/ stage[x] = "answering" /\ UNCHANGED handler
              \/ stage[x] = "rejecting" /\ x = hreq /\ handler = "reject" /\ handler' = "undo"
<1>1. CASE servQueueFull
  <2>1. hreq \in Request /\ stage[hreq] = "rejecting" /\ "eagain" \in Statuses
    BY <1>1, TakenAt DEF servQueueFull, Handling, Statuses
  <2> USE <2>1
  <2> WITNESS hreq \in Request, "eagain" \in Statuses
  <2> QED BY <1>1, <2>1 DEF servQueueFull, RespondFull, handVars
<1>2. ASSUME NEW r \in Request, WorkerAnswer(r)
      PROVE  \E x \in Request, s \in Statuses :
               /\ stage[x] \in {"rejecting", "answering"} /\ proc = "up"
               /\ stage' = [stage EXCEPT ![x] = IF stage[x] = "rejecting" THEN "rejected"
                                                                         ELSE "releasing"]
               /\ responseQueue' = Append(responseQueue, buildResponse(x, s))
               /\ hreq' = hreq
               /\ UNCHANGED <<wresp, written, writer, requestQueue, main, proc>>
               /\ \/ stage[x] = "answering" /\ UNCHANGED handler
                  \/ stage[x] = "rejecting" /\ x = hreq /\ handler = "reject" /\ handler' = "undo"
  <2> DEFINE s == IF Kind[r] = "nomethod" THEN "einval" ELSE "done"
  <2>1. s \in Statuses
    BY DEF Statuses
  <2> USE <2>1
  <2> WITNESS r \in Request, s \in Statuses
  <2> QED BY <1>2 DEF WorkerAnswer, Answered, pcVars, handVars
<1> QED BY <1>1, <1>2

\* Every other step leaves the responses where they are, or is a step of responseWriter, or
\* queues the stop marker.
LEMMA OtherSteps ==
  ASSUME [Next]_vars, ~servQueueFull, ~(\E r \in Request : WorkerAnswer(r)),
         ~HandlerFlush, ~Writer
  PROVE  UNCHANGED <<responseQueue, wresp, written, writer>>
BY DEF Next, vars, ClientSend, ClientRecv, ClientClose, ClientKill, Reader, ReaderEnter,
       ReaderSize, ReaderPayload, ReaderEof, ReaderPipeClosed, ReaderStolen, ReaderStop, Handler,
       HandlerPop,
       HandlerAdmit, HandlerUndo, HandlerPush, HandlerStopCheck, HandlerStopClose, WorkerStart,
       PoolRetire, Worker, WorkerOpen, WorkerCallback, WorkerRelease, MainJoin, Ended,
       queueVars, pcVars, handVars

\* A response stays in one place: each step moves it to the next one or leaves it.
LEMMA AnswersStep ==
  TypeOK /\ HandsInv /\ PlacesInv /\ AnswersInv /\ [Next]_vars => AnswersInv'
<1> SUFFICES ASSUME TypeOK, HandsInv, PlacesInv, AnswersInv, [Next]_vars PROVE AnswersInv'
  OBVIOUS
<1>1. /\ stage \in [Request -> Stages] /\ responseQueue \in Seq(Response \cup {STOP})
      /\ written \in Seq(Response)
  BY DEF TypeOK
<1>2. \A r \in Request : ~AnswerTo(NoResp, r)
  BY ConstantsAssumption DEF AnswerTo, NoResp
<1>3. CASE UNCHANGED <<responseQueue, wresp, written, writer>>
  BY <1>3, AnsweredStays DEF AnswersInv
<1>4. CASE servQueueFull \/ \E r \in Request : WorkerAnswer(r)
  <2>1. PICK x \in Request, s \in Statuses :
          /\ stage[x] \in {"rejecting", "answering"}
          /\ stage' = [stage EXCEPT ![x] = IF stage[x] = "rejecting" THEN "rejected"
                                                                    ELSE "releasing"]
          /\ responseQueue' = Append(responseQueue, buildResponse(x, s))
          /\ UNCHANGED <<wresp, written, writer>>
    BY <1>4, AnswerSteps
  <2>2. /\ buildResponse(x, s) \in Response
        /\ \A r \in Request : AnswerTo(buildResponse(x, s), r) <=> r = x
    BY StopAssumption DEF buildResponse, Response, AnswerTo
  <2>3. ~Among(responseQueue, x) /\ ~AnswerTo(wresp, x) /\ ~Among(written, x)
    BY <2>1 DEF AnswersInv
  <2>4. \A r \in Request : /\ Among(responseQueue', r) <=> Among(responseQueue, r) \/ r = x
                           /\ Once(responseQueue', r)
    <3> DEFINE a == buildResponse(x, s)
    <3> TAKE r \in Request
    <3>1. /\ a \in Response \cup {STOP} /\ (AnswerTo(a, r) <=> r = x)
          /\ responseQueue' = Append(responseQueue, a)
      BY <2>1, <2>2
    <3> HIDE DEF a
    <3>2. /\ Among(Append(responseQueue, a), r) <=> Among(responseQueue, r) \/ AnswerTo(a, r)
          /\ Once(responseQueue, r) /\ ~(Among(responseQueue, r) /\ AnswerTo(a, r)) =>
               Once(Append(responseQueue, a), r)
      BY <1>1, <3>1, AmongAppend
    <3> QED BY <2>3, <3>1, <3>2 DEF AnswersInv
  <2>5. stage'[x] \in {"rejected", "releasing", "finished"}
    BY <1>1, <2>1
  <2> QED BY <2>1, <2>3, <2>4, <2>5, AnsweredStays DEF AnswersInv
<1>5. CASE HandlerFlush
  <2>1. /\ responseQueue' = Append(responseQueue, STOP)
        /\ UNCHANGED <<stage, wresp, written, writer>>
    BY <1>5 DEF HandlerFlush, handVars
  <2>2. \A r \in Request : /\ Among(responseQueue', r) <=> Among(responseQueue, r)
                           /\ Once(responseQueue', r)
    BY <1>1, <2>1, AmongAppend, SMTT(30) DEF AnswersInv, AnswerTo
  <2> QED BY <2>1, <2>2 DEF AnswersInv
<1>6. CASE WriterPop
  <2>1. /\ writer = "pop" /\ wresp = NoResp /\ responseQueue # <<>>
        /\ responseQueue' = Tail(responseQueue)
        /\ UNCHANGED <<stage, written>>
    BY <1>6 DEF WriterPop, AnswersInv
  <2>2. \A r \in Request :
          /\ Among(responseQueue, r) <=> AnswerTo(Head(responseQueue), r) \/ Among(responseQueue', r)
          /\ Once(responseQueue', r)
          /\ ~(AnswerTo(Head(responseQueue), r) /\ Among(responseQueue', r))
    BY <1>1, <2>1, AmongTail DEF AnswersInv
  <2>3. \/ writer' \in {"pop", "done"} /\ wresp' = NoResp
        \/ writer' = "write" /\ wresp' = Head(responseQueue)
    BY <1>6, <2>1 DEF WriterPop
  <2> QED BY <1>2, <2>1, <2>2, <2>3 DEF AnswersInv
<1>7. CASE WriterWrite
  <2>1. /\ wresp \in Response /\ wresp' = NoResp /\ writer' = "pop"
        /\ written' = Append(written, wresp) /\ UNCHANGED <<stage, responseQueue>>
    BY <1>7 DEF WriterWrite, HandsInv, queueVars
  <2>2. \A r \in Request : /\ Among(written', r) <=> Among(written, r) \/ AnswerTo(wresp, r)
                           /\ Once(written', r)
    BY <1>1, <2>1, AmongAppend DEF AnswersInv
  <2> QED BY <1>2, <2>1, <2>2 DEF AnswersInv
<1>8. CASE WriterBroken \/ WriterStopCheck \/ WriterStopClose
  <2>1. /\ UNCHANGED <<responseQueue, wresp, written, stage>>
        /\ writer' \in {"write", "stopcheck", "stopclose", "failed"}
    BY <1>8 DEF WriterBroken, WriterStopCheck, WriterStopClose, queueVars, handVars
  <2> QED BY <2>1 DEF AnswersInv
<1> QED BY <1>3, <1>4, <1>5, <1>6, <1>7, <1>8, OtherSteps DEF Writer

-----------------------------------------------------------------------------
(* The stop markers and what is in front of them *)

\* A process that has ended does nothing more, and requestHandler does not start again.
LEMMA EndsStay ==
  ASSUME [Next]_vars
  PROVE  /\ proc # "up" => UNCHANGED <<main, proc>>
         /\ handler = "done" => UNCHANGED <<handler, hreq>>
         /\ proc' = "exited" /\ proc # "exited" => main' = "returned"
BY DEF Next, vars, ClientSend, ClientRecv, ClientClose, ClientKill, Reader, ReaderEnter,
       ReaderSize, ReaderPayload, ReaderEof, ReaderPipeClosed, ReaderStolen, ReaderStop, Handler,
       HandlerPop, HandlerAdmit, servQueueFull, HandlerUndo, HandlerPush, HandlerStopCheck,
       HandlerStopClose, HandlerFlush, WorkerStart, PoolRetire, Worker, WorkerOpen,
       WorkerCallback, WorkerAnswer, WorkerRelease, Writer, WriterPop, WriterWrite,
       WriterBroken, WriterStopCheck, WriterStopClose, MainJoin, Ended, queueVars, pcVars,
       handVars

\* Nothing is queued behind the stop marker of responseWriter.
LEMMA StopLastStep == ThreadsInv /\ StopLast /\ [Next]_vars => StopLast'
<1> SUFFICES ASSUME ThreadsInv, StopLast, [Next]_vars PROVE StopLast'
  OBVIOUS
<1>1. TypeOK /\ HandsInv /\ PlacesInv /\ ShutdownInv
  BY DEF ThreadsInv
<1>2. responseQueue \in Seq(Response \cup {STOP})
  BY <1>1 DEF TypeOK
<1>3. CASE UNCHANGED <<responseQueue, writer>>
  BY <1>3, EndsStay DEF StopLast
<1>4. CASE servQueueFull \/ \E r \in Request : WorkerAnswer(r)
  <2>1. handler # "done"
    BY <1>1, <1>4 DEF servQueueFull, WorkerAnswer, ShutdownInv, Busy
  <2>2. PICK a \in Response : responseQueue' = Append(responseQueue, a) /\ UNCHANGED writer
    <3>1. PICK x \in Request, s \in Statuses :
            responseQueue' = Append(responseQueue, buildResponse(x, s)) /\ UNCHANGED writer
      BY <1>1, <1>4, AnswerSteps
    <3> QED BY <3>1 DEF buildResponse, Response
  <2>3. \A i \in DOMAIN responseQueue : responseQueue[i] # STOP
    BY <2>1 DEF StopLast
  <2>4. \A i \in DOMAIN responseQueue' : responseQueue'[i] # STOP
    BY <1>2, <2>2, <2>3, StopAssumption, QueueElements
  <2> QED BY <2>1, <2>2, <2>4 DEF StopLast
<1>5. CASE HandlerFlush
  <2>1. /\ handler = "flush" /\ handler' = "done" /\ UNCHANGED writer
        /\ responseQueue' = Append(responseQueue, STOP)
    BY <1>5 DEF HandlerFlush
  <2>2. \A i \in DOMAIN responseQueue : responseQueue[i] # STOP
    BY <2>1 DEF StopLast
  <2>3. \A i \in DOMAIN responseQueue' : responseQueue'[i] = STOP => i = Len(responseQueue')
    BY <1>2, <2>1, <2>2
  <2> QED BY <2>1, <2>3 DEF StopLast
<1>6. CASE WriterPop
  <2>1. /\ responseQueue # <<>> /\ responseQueue' = Tail(responseQueue)
        /\ UNCHANGED handler
        /\ writer' \in {"pop", "write"} \/ (writer' = "done" /\ Head(responseQueue) = STOP)
    BY <1>6 DEF WriterPop
  <2>2. /\ Len(responseQueue') = Len(responseQueue) - 1 /\ Len(responseQueue) \in Nat
        /\ \A i \in DOMAIN responseQueue' : /\ i \in Int /\ i + 1 \in DOMAIN responseQueue
                                           /\ responseQueue'[i] = responseQueue[i + 1]
        /\ 1 \in DOMAIN responseQueue /\ Head(responseQueue) = responseQueue[1]
        /\ responseQueue' \in Seq(Response \cup {STOP})
    BY <1>2, <2>1
  <2>3. Head(responseQueue) = STOP => handler = "done" /\ responseQueue' = <<>>
    BY <2>2 DEF StopLast
  <2> QED BY <2>1, <2>2, <2>3 DEF StopLast
<1>7. CASE Writer /\ ~WriterPop
  <2>1. writer' # "done" /\ UNCHANGED <<responseQueue, handler>>
    BY <1>7 DEF Writer, WriterWrite, WriterBroken, WriterStopCheck, WriterStopClose, queueVars
  <2> QED BY <2>1 DEF StopLast
<1> QED BY <1>3, <1>4, <1>5, <1>6, <1>7, OtherSteps

\* A queue of requests and stop markers keeps its requests when it grows ...
LEMMA WithinGrow ==
  ASSUME NEW f, NEW q \in Seq(Request \cup {STOP}), NEW st, Within(q, f, st),
         NEW x \in Request \cup {STOP}
  PROVE  /\ Within(Append(q, x), f, st)
         /\ x \in Request /\ f \in [Request -> Stages] =>
              Within(Append(q, x), [f EXCEPT ![x] = st], st)
<1>1. /\ \A i \in DOMAIN q : i \in DOMAIN Append(q, x) /\ Append(q, x)[i] = q[i]
      /\ Len(q) + 1 \in DOMAIN Append(q, x) /\ Append(q, x)[Len(q) + 1] = x
  OBVIOUS
<1> QED BY <1>1 DEF Within

\* ... and all but the first when it shrinks.
LEMMA WithinShrink ==
  ASSUME NEW f \in [Request -> Stages], NEW q \in Seq(Request \cup {STOP}), NEW st,
         Within(q, f, st), q # <<>>, NEW v, v # st
  PROVE  /\ Head(q) \notin Request => Within(Tail(q), f, st)
         /\ Head(q) \in Request => Within(Tail(q), [f EXCEPT ![Head(q)] = v], st)
<1>1. \A i \in DOMAIN q : i = 1 \/ (i - 1 \in DOMAIN Tail(q) /\ Tail(q)[i - 1] = q[i])
  OBVIOUS
<1>2. q[1] = Head(q)
  OBVIOUS
<1>3. ASSUME Head(q) \notin Request PROVE Within(Tail(q), f, st)
  <2>1. \A r \in Request : r # Head(q)
    BY <1>3
  <2> QED BY <1>1, <1>2, <2>1 DEF Within
<1>4. ASSUME Head(q) \in Request PROVE Within(Tail(q), [f EXCEPT ![Head(q)] = v], st)
  <2> DEFINE g == [f EXCEPT ![Head(q)] = v]
  <2>1. \A r \in Request : g[r] = st => f[r] = st /\ r # Head(q)
    BY <1>4
  <2> QED BY <1>1, <1>2, <2>1, ZenonT(90) DEF Within
<1> QED BY <1>3, <1>4

\* Every step passes a request on together with the place where it is looked for.
LEMMA NoneMislaidStep == ThreadsInv /\ NoneMislaid /\ [Next]_vars => NoneMislaid'
<1> SUFFICES ASSUME ThreadsInv, NoneMislaid, [Next]_vars PROVE NoneMislaid'
  OBVIOUS
<1>1. TypeOK /\ HandsInv /\ PlacesInv
  BY DEF ThreadsInv
<1>2. stage \in [Request -> Stages] /\ requestQueue \in Seq(Request \cup {STOP})
  BY <1>1 DEF TypeOK
<1>3. CASE UNCHANGED <<stage, requestQueue, handler, hreq>>
  BY <1>3 DEF NoneMislaid, Within
<1>4. ASSUME NEW x \in Request, NEW v, stage' = [stage EXCEPT ![x] = v],
             v \notin {"queued", "handling", "rejecting", "lost"},
             UNCHANGED <<requestQueue, handler, hreq>>
      PROVE  NoneMislaid'
  BY <1>2, <1>4 DEF NoneMislaid, Within
<1>5. CASE ReaderPayload
  <2>1. Head(reqPipe) \in Request /\ UNCHANGED <<handler, hreq>>
    BY <1>1, <1>5, TakenAt DEF ReaderPayload, handVars
  <2>2. \/ UNCHANGED <<stage, requestQueue>>
        \/ stage' = [stage EXCEPT ![Head(reqPipe)] = "malformed"] /\ UNCHANGED requestQueue
        \/ /\ stage' = [stage EXCEPT ![Head(reqPipe)] = "queued"]
           /\ requestQueue' = Append(requestQueue, Head(reqPipe))
    BY <1>5 DEF ReaderPayload
  <2>3. CASE /\ stage' = [stage EXCEPT ![Head(reqPipe)] = "queued"]
             /\ requestQueue' = Append(requestQueue, Head(reqPipe))
    <3>1. Within(requestQueue', stage', "queued")
      BY <1>2, <2>1, <2>3, WithinGrow DEF NoneMislaid
    <3> QED BY <1>2, <2>1, <2>3, <3>1 DEF NoneMislaid
  <2> QED BY <1>3, <1>4, <2>1, <2>2, <2>3
<1>6. CASE ReaderStop
  <2>1. requestQueue' = Append(requestQueue, STOP) /\ UNCHANGED <<stage, handler, hreq>>
    BY <1>6 DEF ReaderStop, EndOfRequests, handVars
  <2>2. Within(requestQueue', stage', "queued")
    BY <1>2, <2>1, WithinGrow DEF NoneMislaid
  <2> QED BY <2>1, <2>2 DEF NoneMislaid
<1>7. CASE HandlerPop
  <2>1. handler = "pop" /\ requestQueue # <<>> /\ requestQueue' = Tail(requestQueue)
    BY <1>7 DEF HandlerPop
  <2>2. \A r \in Request : stage[r] \notin {"handling", "rejecting"}
    BY <2>1 DEF NoneMislaid
  <2>3. CASE Head(requestQueue) = STOP
    <3>1. stage' = stage
      BY <1>7, <2>3 DEF HandlerPop, IsStop
    <3>2. Within(requestQueue', stage', "queued")
      BY <1>2, <2>1, <2>3, <3>1, WithinShrink, ConstantsAssumption DEF NoneMislaid
    <3> QED BY <2>2, <3>1, <3>2 DEF NoneMislaid
  <2>4. CASE Head(requestQueue) # STOP
    <3>1. Head(requestQueue) \in Request
      BY <1>1, <2>1, <2>4, TakenAt
    <3>2. PICK v \in {"handling", "lost"} :
            /\ stage' = [stage EXCEPT ![Head(requestQueue)] = v]
            /\ v = "handling" => handler' = "admit" /\ hreq' = Head(requestQueue)
            /\ v = "lost" => "malloc" \in Faults
      BY <1>7, <2>4 DEF HandlerPop, IsStop
    <3>3. Within(requestQueue', stage', "queued")
      BY <1>2, <2>1, <3>1, <3>2, WithinShrink DEF NoneMislaid
    <3> QED BY <1>2, <2>2, <3>1, <3>2, <3>3 DEF NoneMislaid
  <2> QED BY <2>3, <2>4
<1>8. CASE HandlerAdmit \/ servQueueFull \/ HandlerPush
  <2>1. /\ hreq \in Request /\ handler \in {"admit", "push"} => stage[hreq] = "handling"
        /\ handler \in {"admit", "reject", "push"} /\ hreq \in Request
    BY <1>1, <1>8, TakenAt DEF HandlerAdmit, servQueueFull, HandlerPush, Handling
  <2>2. PICK v \in {"handling", "rejecting", "rejected", "pooled"} :
          /\ stage' = [stage EXCEPT ![hreq] = v] /\ UNCHANGED requestQueue
          /\ v = "handling" => handler' = "push" /\ hreq' = hreq
          /\ v = "rejecting" => handler' = "reject" /\ hreq' = hreq
    <3>1. CASE HandlerAdmit
      BY <1>2, <2>1, <3>1 DEF HandlerAdmit, queueVars, handVars
    <3>2. CASE servQueueFull \/ HandlerPush
      BY <3>2 DEF servQueueFull, HandlerPush
    <3> QED BY <1>8, <3>1, <3>2
  <2>3. \A r \in Request : r # hreq => stage[r] \notin {"handling", "rejecting"}
    BY <2>1 DEF NoneMislaid
  <2>4. Within(requestQueue', stage', "queued")
    BY <1>2, <2>1, <2>2, WithinUpdate DEF NoneMislaid
  <2> QED BY <1>2, <2>1, <2>2, <2>3, <2>4 DEF NoneMislaid
<1>9. CASE HandlerUndo \/ HandlerStopCheck \/ HandlerStopClose \/ HandlerFlush
  <2>1. handler \notin {"admit", "push", "reject"} /\ UNCHANGED <<stage, requestQueue>>
    BY <1>9 DEF HandlerUndo, HandlerStopCheck, HandlerStopClose, HandlerFlush, queueVars
  <2> QED BY <2>1 DEF NoneMislaid, Within
<1>10. CASE WorkerStart
  BY <1>1, <1>4, <1>10, TakenAt DEF WorkerStart, pcVars, handVars
<1>11. ASSUME NEW r \in Request, ClientSend(r) \/ Worker(r) PROVE NoneMislaid'
  BY <1>3, <1>4, <1>11
  DEF ClientSend, Worker, WorkerOpen, WorkerCallback, WorkerAnswer, Answered, WorkerRelease,
      queueVars, pcVars, handVars
<1>12. CASE \/ UNCHANGED vars \/ ClientRecv \/ ClientClose \/ ClientKill
            \/ ReaderEnter \/ ReaderSize \/ ReaderEof \/ ReaderPipeClosed \/ ReaderStolen
            \/ PoolRetire \/ Writer \/ MainJoin \/ Ended
  BY <1>3, <1>12
  DEF vars, ClientRecv, ClientClose, ClientKill, ReaderEnter, ReaderSize, ReaderEof,
      ReaderPipeClosed, ReaderStolen, PoolRetire, Writer, WriterPop, WriterWrite, WriterBroken,
      WriterStopCheck, WriterStopClose, MainJoin, Ended, queueVars, pcVars, handVars
<1> QED BY <1>5, <1>6, <1>7, <1>8, <1>9, <1>10, <1>11, <1>12 DEF Next, Reader, Handler

\* A response that is owed is queued in the same step, and afterwards only moved on.
LEMMA NoneDroppedStep ==
  ThreadsInv /\ AnswersInv /\ NoneDropped /\ [Next]_vars => NoneDropped'
<1> SUFFICES ASSUME ThreadsInv, AnswersInv, NoneDropped, [Next]_vars PROVE NoneDropped'
  OBVIOUS
<1>1. TypeOK /\ HandsInv /\ PlacesInv
  BY DEF ThreadsInv
<1>2. /\ stage \in [Request -> Stages] /\ responseQueue \in Seq(Response \cup {STOP})
      /\ written \in Seq(Response)
  BY <1>1 DEF TypeOK
<1>3. proc' = "exited" => main' = "returned"
  BY EndsStay DEF NoneDropped
<1> DEFINE Sent(r) == Among(responseQueue, r) \/ AnswerTo(wresp, r) \/ Among(written, r)
<1> SUFFICES ASSUME NEW r \in Request, Owed(r)' PROVE Sent(r)' \/ proc' = "killed"
  BY <1>3 DEF NoneDropped
<1>4. proc = "killed" => proc' = "killed"
  BY EndsStay
<1>5. CASE servQueueFull \/ \E x \in Request : WorkerAnswer(x)
  <2>1. PICK x \in Request, s \in Statuses :
          /\ stage' = [stage EXCEPT ![x] = IF stage[x] = "rejecting" THEN "rejected"
                                                                    ELSE "releasing"]
          /\ responseQueue' = Append(responseQueue, buildResponse(x, s))
          /\ UNCHANGED <<wresp, written, proc>>
    BY <1>1, <1>5, AnswerSteps
  <2> DEFINE a == buildResponse(x, s)
  <2>2. a \in Response \cup {STOP} /\ AnswerTo(a, x)
    BY StopAssumption DEF buildResponse, Response, AnswerTo
  <2>3. responseQueue' = Append(responseQueue, a)
    BY <2>1
  <2> HIDE DEF a
  <2>4. Among(responseQueue', r) <=> Among(responseQueue, r) \/ AnswerTo(a, r)
    BY <1>2, <2>2, <2>3, AmongAppend
  <2>5. r # x => Owed(r)
    BY <1>2, <2>1 DEF Owed
  <2> QED BY <1>4, <2>1, <2>2, <2>4, <2>5 DEF NoneDropped
<1>6. CASE ~(servQueueFull \/ \E x \in Request : WorkerAnswer(x))
  <2>1. Owed(r)
    <3>1. CASE UNCHANGED stage
      BY <3>1 DEF Owed
    <3>2. ASSUME NEW x \in Request, NEW v, stage' = [stage EXCEPT ![x] = v],
                 v \in {"releasing", "finished", "rejected"} =>
                   \/ Kind[x] = "noid" /\ v = "releasing"
                   \/ stage[x] = "releasing" /\ v = "finished"
          PROVE  Owed(r)
      BY <1>2, <3>2 DEF Owed
    <3>3. CASE ReaderPayload \/ HandlerPop \/ HandlerPush \/ WorkerStart
      BY <1>1, <3>1, <3>2, <3>3, TakenAt
      DEF ReaderPayload, HandlerPop, IsStop, HandlerPush, WorkerStart, Handling
    <3>4. CASE HandlerAdmit
      <4>1. hreq \in Request /\ stage[hreq] = "handling"
        BY <1>1, <3>4, TakenAt DEF HandlerAdmit, Handling
      <4>2. \E v \in {"handling", "rejecting"} : stage' = [stage EXCEPT ![hreq] = v]
        BY <1>2, <3>4, <4>1 DEF HandlerAdmit
      <4> QED BY <3>2, <4>1, <4>2
    <3>5. ASSUME NEW x \in Request, ClientSend(x) \/ WorkerOpen(x) \/ WorkerCallback(x)
                                    \/ WorkerRelease(x)
          PROVE  Owed(r)
      <4>1. CASE ClientSend(x) \/ WorkerOpen(x) \/ WorkerRelease(x)
        BY <3>1, <3>2, <4>1 DEF ClientSend, WorkerOpen, WorkerRelease
      <4>2. CASE WorkerCallback(x)
        <5>1. \/ UNCHANGED stage
              \/ Kind[x] = "noid" /\ stage' = [stage EXCEPT ![x] = "releasing"]
              \/ stage' = [stage EXCEPT ![x] = "answering"]
          BY <4>2 DEF WorkerCallback
        <5>2. CASE Kind[x] = "noid" /\ stage' = [stage EXCEPT ![x] = "releasing"]
          BY <1>2, <5>2 DEF Owed
        <5>3. CASE stage' = [stage EXCEPT ![x] = "answering"]
          BY <1>2, <5>3 DEF Owed
        <5> QED BY <3>1, <5>1, <5>2, <5>3
      <4> QED BY <3>5, <4>1, <4>2
    <3>6. CASE \/ UNCHANGED vars \/ ClientRecv \/ ClientClose \/ ClientKill
               \/ ReaderEnter \/ ReaderSize \/ ReaderEof \/ ReaderPipeClosed \/ ReaderStolen
               \/ ReaderStop
               \/ HandlerUndo \/ HandlerStopCheck \/ HandlerStopClose \/ HandlerFlush
               \/ PoolRetire \/ Writer \/ MainJoin \/ Ended
      BY <3>1, <3>6
      DEF vars, ClientRecv, ClientClose, ClientKill, ReaderEnter, ReaderSize, ReaderEof,
          ReaderPipeClosed,
          ReaderStolen, ReaderStop, HandlerUndo, HandlerStopCheck, HandlerStopClose,
          HandlerFlush, PoolRetire, Writer, WriterPop, WriterWrite, WriterBroken,
          WriterStopCheck, WriterStopClose, MainJoin, Ended
    <3> QED BY <1>6, <3>3, <3>4, <3>5, <3>6 DEF Next, Reader, Handler, Worker
  <2>2. Sent(r) \/ proc = "killed"
    BY <2>1 DEF NoneDropped
  <2>3. CASE UNCHANGED <<responseQueue, wresp, written>>
    BY <1>4, <2>2, <2>3
  <2>4. CASE HandlerFlush
    <3>1. /\ responseQueue' = Append(responseQueue, STOP)
          /\ UNCHANGED <<wresp, written, proc>>
      BY <2>4 DEF HandlerFlush, handVars
    <3>2. Among(responseQueue, r) => Among(responseQueue', r)
      BY <1>2, <3>1, AmongAppend
    <3> QED BY <2>2, <3>1, <3>2
  <2>5. CASE WriterPop
    <3>1. /\ wresp = NoResp /\ responseQueue # <<>> /\ responseQueue' = Tail(responseQueue)
          /\ UNCHANGED written /\ proc = "up"
          /\ \/ Head(responseQueue) = STOP
             \/ wresp' = Head(responseQueue)
             \/ proc' = "killed"
      BY <2>5 DEF WriterPop, AnswersInv
    <3>2. Among(responseQueue, r) => AnswerTo(Head(responseQueue), r) \/ Among(responseQueue', r)
      BY <1>2, <3>1, AmongTail
    <3>3. ~AnswerTo(wresp, r) /\ ~AnswerTo(STOP, r)
      BY <3>1, ConstantsAssumption DEF AnswerTo, NoResp
    <3> QED BY <2>2, <3>1, <3>2, <3>3
  <2>6. CASE WriterWrite
    <3>1. /\ wresp \in Response /\ written' = Append(written, wresp)
          /\ UNCHANGED <<responseQueue, proc>>
      BY <1>1, <2>6 DEF WriterWrite, HandsInv, queueVars
    <3>2. Among(written', r) <=> Among(written, r) \/ AnswerTo(wresp, r)
      BY <1>2, <3>1, AmongAppend
    <3> QED BY <2>2, <3>1, <3>2
  <2>7. CASE WriterBroken \/ WriterStopCheck \/ WriterStopClose
    BY <2>3, <2>7 DEF WriterBroken, WriterStopCheck, WriterStopClose, queueVars, handVars
  <2> QED BY <1>6, <2>3, <2>4, <2>5, <2>6, <2>7, OtherSteps DEF Writer
<1> QED BY <1>5, <1>6

-----------------------------------------------------------------------------
(* The theorems *)

\* The inductive invariant of the server, the fate of its responses included.
THEOREM Invariance == Spec => []ServerInv
<1>1. Init => ServerInv
  <2> SUFFICES ASSUME Init PROVE ServerInv
    OBVIOUS
  <2>1. \A r \in Request : ~AnswerTo(NoResp, r) /\ stage[r] = "new"
    BY ConstantsAssumption DEF Init, AnswerTo, NoResp
  <2>2. NodeLifetime /\ AnswersInv /\ StopLast /\ NoneMislaid /\ NoneDropped
    BY <2>1 DEF Init, NodeLifetime, AnswersInv, StopLast, NoneMislaid, NoneDropped, Owed,
                Within, Among, Once
  <2> QED BY <2>2, InitThreads DEF ServerInv
<1>2. ServerInv /\ [Next]_vars => ServerInv'
  BY ThreadsStep, LifetimeStep, AnswersStep, StopLastStep, NoneMislaidStep, NoneDroppedStep
  DEF ServerInv, ThreadsInv
<1> QED BY <1>1, <1>2, PTL DEF Spec

\* The memory of a request lives exactly as long as the server works on it, except for the
\* requests that are turned away or lost.
THEOREM MemoryKept == Spec => []NodeLifetime
<1>1. ServerInv => NodeLifetime
  BY DEF ServerInv
<1> QED BY <1>1, Invariance, PTL

\* The indices of a sequence at which there is a response to r, if there is one at most.
LEMMA OnceCount ==
  ASSUME NEW q, NEW r, Once(q, r)
  PROVE  Cardinality({i \in DOMAIN q : AnswerTo(q[i], r)}) = IF Among(q, r) THEN 1 ELSE 0
<1> DEFINE I == {i \in DOMAIN q : AnswerTo(q[i], r)}
<1>1. CASE Among(q, r)
  <2>1. PICK i \in DOMAIN q : AnswerTo(q[i], r)
    BY <1>1 DEF Among
  <2>2. I = {i}
    BY <2>1 DEF Once
  <2> QED BY <1>1, <2>2, FS_Singleton
<1>2. CASE ~Among(q, r)
  <2>1. I = {}
    BY <1>2 DEF Among
  <2> QED BY <1>2, <2>1, FS_EmptySet
<1> QED BY <1>1, <1>2

\* No request is answered twice, by whichever threads, and none before it was served or
\* turned away.
THEOREM AnsweredOnce == Spec => []AtMostOneResponse
<1>1. ServerInv => AtMostOneResponse
  <2> SUFFICES ASSUME ServerInv, NEW r \in Request
               PROVE  Answers(r) <= (IF stage[r] \in {"rejected", "releasing", "finished"}
                                     THEN 1 ELSE 0)
    BY DEF AtMostOneResponse
  <2>1. AnswersInv /\ TypeOK
    BY DEF ServerInv, ThreadsInv
  <2>2. Cardinality({i \in DOMAIN responseQueue :
                       responseQueue[i] # STOP /\ responseQueue[i].req = r})
          = IF Among(responseQueue, r) THEN 1 ELSE 0
    BY <2>1, OnceCount DEF AnswersInv, AnswerTo
  <2>3. Cardinality({i \in DOMAIN written : written[i].req = r})
          = IF Among(written, r) THEN 1 ELSE 0
    <3>1. \A i \in DOMAIN written : written[i].req = r <=> AnswerTo(written[i], r)
      BY <2>1, StopAssumption DEF TypeOK, AnswerTo
    <3>2. {i \in DOMAIN written : written[i].req = r}
            = {i \in DOMAIN written : AnswerTo(written[i], r)}
      BY <3>1
    <3> QED BY <2>1, <3>2, OnceCount DEF AnswersInv
  <2>4. wresp.req = r => AnswerTo(wresp, r)
    BY <2>1, StopAssumption, ConstantsAssumption DEF TypeOK, AnswerTo, NoResp
  <2> QED BY <2>1, <2>2, <2>3, <2>4 DEF Answers, AnswersInv
<1> QED BY <1>1, Invariance, PTL

\* A process that ends by itself has written a response to every request it has read.
THEOREM DrainedOnExit == Spec => []DrainOnExit
<1>1. ServerInv => DrainOnExit
  <2> SUFFICES ASSUME ServerInv, proc = "exited", writer = "done", NEW r \in Request
               PROVE  \/ stage[r] \in {"new", "piped", "malformed"}
                      \/ stage[r] \in {"queued", "lost"} /\ Faults \cap {"malloc", "pthread"} # {}
                      \/ stage[r] = "finished" /\ Kind[r] = "noid"
                      \/ stage[r] \in {"finished", "rejected"}
                         /\ \E i \in DOMAIN written : written[i].req = r
    BY DEF DrainOnExit
  <2>1. /\ TypeOK /\ PlacesInv /\ ShutdownInv /\ AnswersInv /\ StopLast /\ NoneMislaid
        /\ NoneDropped
    BY DEF ServerInv, ThreadsInv
  <2>2. handler = "done" /\ poolQueue = <<>> /\ Busy = {} /\ responseQueue = <<>> /\ wresp = NoResp
    BY <2>1 DEF StopLast, ShutdownInv, AnswersInv
  <2>3. stage[r] \in Stages
    BY <2>1 DEF TypeOK
  <2>4. stage[r] \notin {"pooled", "running", "answering", "releasing", "handling", "rejecting"}
    BY <2>1, <2>2 DEF PlacesInv, Within, Busy, NoneMislaid
  <2>5. stage[r] \in {"queued", "lost"} => Faults \cap {"malloc", "pthread"} # {}
    <3>1. stage[r] = "queued" => requestQueue # <<>>
      BY <2>1 DEF NoneMislaid, Within
    <3> QED BY <2>1, <2>2, <3>1 DEF ShutdownInv, NoneMislaid
  <2>6. Owed(r) => \E i \in DOMAIN written : written[i].req = r
    <3>1. ~Among(responseQueue, r) /\ ~AnswerTo(wresp, r)
      BY <2>2, ConstantsAssumption DEF Among, AnswerTo, NoResp
    <3> QED BY <2>1, <3>1 DEF NoneDropped, Among, AnswerTo
  <2> QED BY <2>3, <2>4, <2>5, <2>6 DEF Stages, Owed
<1> QED BY <1>1, Invariance, PTL

-----------------------------------------------------------------------------
(* The server as a child process *)

\* The responses the client has not read, as a sequence of their requests.
UnreadOf(w, n) == [i \in 1..(Len(w) - n) |-> w[n + i].req]

\* Reading takes the first of them, writing adds one at the end.
LEMMA UnreadMoves ==
  ASSUME NEW w \in Seq(Response), NEW n \in 0..Len(w)
  PROVE  /\ UnreadOf(w, n) \in Seq(Request) /\ Len(UnreadOf(w, n)) = Len(w) - n
         /\ n < Len(w) => /\ UnreadOf(w, n) # <<>>
                          /\ UnreadOf(w, n + 1) = Tail(UnreadOf(w, n))
         /\ \A a \in Response : UnreadOf(Append(w, a), n) = Append(UnreadOf(w, n), a.req)
<1> DEFINE u == UnreadOf(w, n)
<1>1. \A v \in Seq(Response), k \in Nat :
        k <= Len(v) => /\ UnreadOf(v, k) \in Seq(Request) /\ Len(UnreadOf(v, k)) = Len(v) - k
                       /\ \A i \in 1..(Len(v) - k) : UnreadOf(v, k)[i] = v[k + i].req
  <2> TAKE v \in Seq(Response), k \in Nat
  <2> HAVE k <= Len(v)
  <2>1. Len(v) - k \in Nat /\ \A i \in 1..(Len(v) - k) : v[k + i].req \in Request
    <3>1. Len(v) - k \in Nat /\ \A i \in 1..(Len(v) - k) : k + i \in 1..Len(v)
      OBVIOUS
    <3>2. \A j \in 1..Len(v) : v[j] \in Response
      OBVIOUS
    <3> QED BY <3>1, <3>2 DEF Response
  <2> QED BY <2>1 DEF UnreadOf
<1>2. u \in Seq(Request) /\ Len(u) = Len(w) - n /\ \A i \in 1..Len(u) : u[i] = w[n + i].req
  <2>1. n \in Nat /\ n <= Len(w)
    OBVIOUS
  <2>2. /\ UnreadOf(w, n) \in Seq(Request) /\ Len(UnreadOf(w, n)) = Len(w) - n
        /\ \A i \in 1..(Len(w) - n) : UnreadOf(w, n)[i] = w[n + i].req
    BY <1>1, <2>1
  <2> QED BY <2>2
<1>3. ASSUME n < Len(w) PROVE u # <<>> /\ UnreadOf(w, n + 1) = Tail(u)
  <2> DEFINE t == UnreadOf(w, n + 1)
  <2>1. /\ t \in Seq(Request) /\ Len(t) = Len(w) - (n + 1)
        /\ \A i \in 1..Len(t) : t[i] = w[n + 1 + i].req
    <3>1. n + 1 \in Nat /\ n + 1 <= Len(w)
      BY <1>3
    <3> QED BY <1>1, <3>1
  <2>2. u # <<>>
    BY <1>2, <1>3
  <2> HIDE DEF t, u
  <2>3. Tail(u) \in Seq(Request) /\ Len(Tail(u)) = Len(u) - 1
        /\ \A i \in 1..Len(Tail(u)) : Tail(u)[i] = u[i + 1]
    BY <1>2, <2>2, HeadTailProperties
  <2>4. Len(t) = Len(Tail(u)) /\ Len(t) = Len(w) - n - 1 /\ Len(u) = Len(w) - n
    BY <1>2, <2>1, <2>3
  <2>5. \A i \in 1..Len(t) : t[i] = Tail(u)[i]
    <3> TAKE i \in 1..Len(t)
    <3>1. i + 1 \in 1..Len(u) /\ n + 1 + i = n + (i + 1)
      BY <1>2, <2>1, <2>4
    <3> QED BY <1>2, <2>1, <2>3, <2>4, <3>1
  <2>6. t = Tail(u)
    BY <2>1, <2>3, <2>4, <2>5, SeqEqual
  <2> QED BY <2>2, <2>6 DEF t
<1>4. ASSUME NEW a \in Response PROVE UnreadOf(Append(w, a), n) = Append(u, a.req)
  <2> DEFINE t == UnreadOf(Append(w, a), n)
  <2>1. Append(w, a) \in Seq(Response) /\ Len(Append(w, a)) = Len(w) + 1 /\ a.req \in Request
    BY DEF Response
  <2>2. t \in Seq(Request) /\ Len(t) = Len(w) + 1 - n
        /\ \A i \in 1..Len(t) : t[i] = Append(w, a)[n + i].req
    <3> DEFINE v == Append(w, a)
    <3>1. v \in Seq(Response) /\ Len(v) = Len(w) + 1 /\ n \in Nat /\ n <= Len(v)
      BY <2>1
    <3> HIDE DEF v
    <3>2. /\ UnreadOf(v, n) \in Seq(Request) /\ Len(UnreadOf(v, n)) = Len(v) - n
          /\ \A i \in 1..(Len(v) - n) : UnreadOf(v, n)[i] = v[n + i].req
      BY <1>1, <3>1
    <3>3. t = UnreadOf(v, n)
      BY DEF v
    <3> HIDE DEF t
    <3>4. t \in Seq(Request) /\ Len(t) = Len(w) + 1 - n /\ \A i \in 1..Len(t) : t[i] = v[n + i].req
      BY <3>1, <3>2, <3>3
    <3> QED BY <3>4 DEF v
  <2> HIDE DEF t, u
  <2>3. Append(u, a.req) \in Seq(Request) /\ Len(Append(u, a.req)) = Len(u) + 1
    BY <1>2, <2>1
  <2>4. \A i \in 1..Len(t) : t[i] = Append(u, a.req)[i]
    <3> TAKE i \in 1..Len(t)
    <3>1. CASE i <= Len(w) - n
      <4>1. Append(w, a)[n + i] = w[n + i] /\ Append(u, a.req)[i] = u[i] /\ i \in 1..Len(u)
        BY <1>2, <2>1, <2>2, <3>1
      <4> QED BY <1>2, <2>2, <4>1
    <3>2. CASE i = Len(w) - n + 1
      <4>1. n + i = Len(w) + 1 /\ i = Len(u) + 1
        BY <1>2, <3>2
      <4>2. Append(w, a)[Len(w) + 1] = a /\ Append(u, a.req)[Len(u) + 1] = a.req
        BY <1>2, <2>1
      <4> QED BY <2>2, <4>1, <4>2
    <3>3. n \in Int /\ Len(w) \in Int /\ i \in Int /\ i <= Len(w) + 1 - n
      BY <2>2
    <3>4. i <= Len(w) - n \/ i = Len(w) - n + 1
      BY <3>3
    <3> QED BY <3>1, <3>2, <3>4
  <2>5. t = Append(u, a.req)
    <3>1. Len(t) = Len(Append(u, a.req))
      BY <1>2, <2>2, <2>3
    <3> QED BY <2>2, <2>3, <2>4, <3>1, SeqEqual
  <2> QED BY <2>5 DEF t
<1> QED BY <1>2, <1>3, <1>4

\* What a request counts for while its stage is not "new" and its response is not written.
LEMMA PendingStays ==
  ASSUME TypeOK, stage' \in [Request -> Stages], UNCHANGED written,
         \A r \in Request : stage'[r] = "new" <=> stage[r] = "new"
  PROVE  SentUnanswered' = SentUnanswered
BY DEF SentUnanswered

\* Only ClientSend takes a request out of stage "new".
LEMMA NewStays ==
  ASSUME TypeOK, HandsInv, PlacesInv, [Next]_vars, ~(\E r \in Request : ClientSend(r))
  PROVE  \A r \in Request : stage'[r] = "new" <=> stage[r] = "new"
<1>1. stage \in [Request -> Stages]
  BY DEF TypeOK
<1>2. CASE UNCHANGED stage
  BY <1>2
<1>3. ASSUME NEW x \in Request, NEW v \in Stages,
             stage' = [stage EXCEPT ![x] = v], Follows(stage[x], v), stage[x] # "new"
      PROVE  \A r \in Request : stage'[r] = "new" <=> stage[r] = "new"
  BY <1>1, <1>3 DEF Follows
<1> QED BY <1>2, <1>3, OneMoves

\* A step of the server is a step of the child process or none that shows.
LEMMA ChildStep == ServerInv /\ ServerInv' /\ [Next]_vars => [Child!Next]_(Child!vars)
<1> SUFFICES ASSUME ServerInv, ServerInv', [Next]_vars PROVE [Child!Next]_(Child!vars)
  OBVIOUS
<1>1. TypeOK /\ HandsInv /\ PlacesInv /\ AnswersInv /\ TypeOK'
  BY DEF ServerInv, ThreadsInv
<1>2. written \in Seq(Response) /\ nread \in 0..Len(written) /\ stage \in [Request -> Stages]
      /\ stage' \in [Request -> Stages]
  BY <1>1 DEF TypeOK
<1>3. \A r \in Request : Among(written, r) <=> \E i \in DOMAIN written : written[i].req = r
  BY <1>2, StopAssumption DEF Among, AnswerTo
<1>4. Unread = UnreadOf(written, nread) /\ Unread' = UnreadOf(written', nread')
  BY DEF Unread, UnreadOf
<1>5. ASSUME NEW r \in Request, ClientSend(r) PROVE Child!Receive(r)
  <2>1. /\ proc = "up" /\ stage[r] = "new" /\ stage' = [stage EXCEPT ![r] = "piped"]
        /\ UNCHANGED <<proc, written, nread>>
    BY <1>5 DEF ClientSend, envVars
  <2>2. \A i \in DOMAIN written : written[i].req # r
    BY <1>1, <1>3, <2>1 DEF AnswersInv
  <2>3. SentUnanswered' = SentUnanswered \cup {r} /\ r \notin SentUnanswered
    BY <1>2, <2>1, <2>2 DEF SentUnanswered
  <2> QED BY <1>4, <2>1, <2>3 DEF Child!Receive
<1>6. CASE \E r \in Request : ClientSend(r)
  BY <1>5, <1>6 DEF Child!Next
<1>7. CASE ~(\E r \in Request : ClientSend(r))
  <2>1. UNCHANGED written => SentUnanswered' = SentUnanswered
    BY <1>1, <1>2, <1>7, NewStays, PendingStays
  <2>2. CASE ClientRecv
    <3>1. nread < Len(written) /\ nread' = nread + 1 /\ UNCHANGED <<written, proc>>
      BY <2>2 DEF ClientRecv
    <3>2. Unread # <<>> /\ Unread' = Tail(Unread)
      BY <1>2, <1>4, <3>1, UnreadMoves
    <3>3. Child!Take
      BY <2>1, <3>1, <3>2 DEF Child!Take
    <3> QED BY <3>3 DEF Child!Next
  <2>3. CASE WriterWrite
    <3> DEFINE m == wresp.req
    <3>1. /\ wresp \in Response /\ m \in Request /\ AnswerTo(wresp, m)
          /\ written' = Append(written, wresp) /\ proc = "up"
          /\ UNCHANGED <<nread, proc, stage>>
      BY <1>1, <2>3, StopAssumption DEF WriterWrite, HandsInv, Response, AnswerTo, envVars
    <3>2. stage[m] # "new" /\ \A i \in DOMAIN written : written[i].req # m
      BY <1>1, <1>3, <3>1 DEF AnswersInv
    <3>3. m \in SentUnanswered /\ SentUnanswered' = SentUnanswered \ {m}
      <4>1. \A r \in Request : (\E i \in DOMAIN written' : written'[i].req = r)
              <=> (\E i \in DOMAIN written : written[i].req = r) \/ r = m
        <5>1. /\ \A i \in DOMAIN written : i \in DOMAIN written' /\ written'[i] = written[i]
              /\ Len(written) + 1 \in DOMAIN written' /\ written'[Len(written) + 1] = wresp
              /\ \A i \in DOMAIN written' : i = Len(written) + 1 \/ i \in DOMAIN written
          BY <1>2, <3>1
        <5> QED BY <5>1
      <4> QED BY <3>1, <3>2, <4>1 DEF SentUnanswered
    <3>4. Unread' = Append(Unread, m)
      BY <1>2, <1>4, <3>1, UnreadMoves
    <3>5. Child!Answer(m)
      BY <3>1, <3>3, <3>4 DEF Child!Answer
    <3> QED BY <3>1, <3>5 DEF Child!Next
  <2>4. CASE UNCHANGED <<written, nread>>
    <3>1. SentUnanswered' = SentUnanswered /\ Unread' = Unread
      BY <2>1, <2>4 DEF Unread
    <3>2. CASE UNCHANGED proc
      BY <3>1, <3>2 DEF Child!vars
    <3>3. CASE proc = "up" /\ proc' # "up"
      <4>1. Child!Die
        BY <3>1, <3>3 DEF Child!Die
      <4> QED BY <4>1 DEF Child!Next
    <3> QED BY <3>2, <3>3, EndsStay
  <2>5. \/ ClientRecv \/ WriterWrite \/ UNCHANGED <<written, nread>>
    BY <1>7
    DEF Next, vars, ClientClose, ClientKill, Reader, ReaderEnter, ReaderSize,
        ReaderPayload, ReaderEof, ReaderPipeClosed, ReaderStolen, ReaderStop, Handler, HandlerPop,
        HandlerAdmit, servQueueFull, HandlerUndo, HandlerPush, HandlerStopCheck, HandlerStopClose,
        HandlerFlush, WorkerStart, PoolRetire, Worker, WorkerOpen, WorkerCallback,
        WorkerAnswer, WorkerRelease, Writer, WriterPop, WriterBroken, WriterStopCheck,
        WriterStopClose, MainJoin, Ended, envVars
  <2> QED BY <2>2, <2>3, <2>4, <2>5
<1> QED BY <1>6, <1>7

\* The server refines ChildProcess: what its threads do amounts to taking requests, answering
\* some of them once, and dying.
THEOREM ServerImplementsChild == Spec => ImplementsChild
<1>1. Init => Child!Init
  <2> SUFFICES ASSUME Init PROVE Child!Init
    OBVIOUS
  <2>1. SentUnanswered = {} /\ proc = "up"
    BY DEF Init, SentUnanswered
  <2>2. Len(written) - nread = 0
    BY DEF Init
  <2>3. Unread = <<>>
    BY <2>2 DEF Unread
  <2> QED BY <2>1, <2>3 DEF Child!Init
<1> QED BY <1>1, ChildStep, Invariance, PTL DEF Spec, ImplementsChild, Child!Spec
=============================================================================
