---------------------------- MODULE ClientProofs ----------------------------
(***************************************************************************)
(* Theorems about the Python client.                                       *)
(***************************************************************************)
EXTENDS Client, FiniteSetTheorems, SequenceTheorems, TLAPS

\* The lists of events, one by one: what is left of a list is a list again, and no kind of
\* event is in it twice.
LEMMA BatchTail ==
  ASSUME NEW b \in Batches, b # <<>>
  PROVE  /\ Tail(b) \in Batches /\ (Len(b) = 1 <=> Tail(b) = <<>>)
         /\ 1 \in DOMAIN b /\ b[1] = Head(b)
         /\ \A i \in DOMAIN Tail(b) : /\ Tail(b)[i] # Head(b)
                                      /\ \E j \in DOMAIN b : b[j] = Tail(b)[i]
<1> DEFINE G(x) ==
      /\ Tail(x) \in Batches /\ (Len(x) = 1 <=> Tail(x) = <<>>)
      /\ 1 \in DOMAIN x /\ x[1] = Head(x)
      /\ \A i \in DOMAIN Tail(x) : /\ Tail(x)[i] # Head(x)
                                   /\ \E j \in DOMAIN x : x[j] = Tail(x)[i]
<1>1. ASSUME NEW e \in {"err", "hup", "evt", "read", "write"} PROVE G(<<e>>)
  <2>1. Tail(<<e>>) = <<>> /\ DOMAIN Tail(<<e>>) = {} /\ Len(<<e>>) = 1
    OBVIOUS
  <2> QED BY <2>1 DEF Batches
<1>2. ASSUME NEW e, NEW f, e # f, <<f>> \in Batches PROVE G(<<e, f>>)
  <2>1. Tail(<<e, f>>) = <<f>> /\ DOMAIN Tail(<<e, f>>) = {1} /\ Len(<<e, f>>) = 2
    OBVIOUS
  <2>2. DOMAIN <<e, f>> = {1, 2} /\ <<e, f>>[2] = f /\ <<e, f>>[1] = e /\ <<f>>[1] = f
    OBVIOUS
  <2>3. <<f>> # <<>>
    OBVIOUS
  <2> QED BY <1>2, <2>1, <2>2, <2>3
<1>3. G(<<"evt", "read", "write">>)
  <2> DEFINE x == <<"evt", "read", "write">>
             y == <<"read", "write">>
  <2>1. Tail(x) = y /\ DOMAIN y = {1, 2} /\ Len(x) = 3 /\ y # <<>>
    OBVIOUS
  <2>2. DOMAIN x = {1, 2, 3} /\ x[2] = "read" /\ x[1] = "evt" /\ x[3] = "write"
        /\ y[1] = "read" /\ y[2] = "write" /\ Head(x) = "evt"
    OBVIOUS
  <2>3. y \in Batches
    BY DEF Batches
  <2> HIDE DEF x, y
  <2> QED BY <2>1, <2>2, <2>3
<1>4. \/ \E e \in {"err", "hup", "evt", "read", "write"} : b = <<e>>
      \/ \E e \in {"evt", "read"}, f \in {"hup", "read", "write"} : e # f /\ b = <<e, f>>
      \/ b = <<"evt", "read", "write">>
  BY DEF Batches
<1>5. \A f \in {"hup", "read", "write"} : <<f>> \in Batches
  BY DEF Batches
<1> HIDE DEF G
<1>6. G(b)
  BY <1>1, <1>2, <1>3, <1>4, <1>5
<1> QED BY <1>6 DEF G

\* Lists are put together.
LEMMA Concat ==
  ASSUME NEW e, NEW f, NEW h
  PROVE  /\ <<>> \o <<>> = <<>> /\ <<e>> \o <<>> = <<e>> /\ <<>> \o <<f>> = <<f>>
         /\ <<e>> \o <<f>> = <<e, f>> /\ <<e, f>> \o <<>> = <<e, f>>
         /\ <<e, f>> \o <<h>> = <<e, f, h>>
<1> DEFINE S == {e, f, h}
<1>1. /\ <<>> \in Seq(S) /\ <<e>> \in Seq(S) /\ <<f>> \in Seq(S) /\ <<h>> \in Seq(S)
      /\ <<e, f>> \in Seq(S) /\ <<e, f, h>> \in Seq(S)
  OBVIOUS
<1>2. <<e>> \o <<f>> = <<e, f>> /\ <<e, f>> \o <<h>> = <<e, f, h>>
  <2>1. /\ Len(<<e>> \o <<f>>) = 2 /\ (<<e>> \o <<f>>)[1] = e /\ (<<e>> \o <<f>>)[2] = f
        /\ <<e>> \o <<f>> \in Seq(S)
    BY <1>1
  <2>2. <<e>> \o <<f>> = <<e, f>>
    <3>1. Len(<<e>> \o <<f>>) = Len(<<e, f>>)
      BY <2>1
    <3>2. \A i \in 1..Len(<<e>> \o <<f>>) : (<<e>> \o <<f>>)[i] = <<e, f>>[i]
      BY <2>1
    <3> HIDE DEF S
    <3> QED BY ONLY <1>1, <2>1, <3>1, <3>2, SeqEqual
  <2>3. /\ Len(<<e, f>> \o <<h>>) = 3 /\ <<e, f>> \o <<h>> \in Seq(S)
        /\ (<<e, f>> \o <<h>>)[1] = e /\ (<<e, f>> \o <<h>>)[2] = f
        /\ (<<e, f>> \o <<h>>)[3] = h
    BY <1>1
  <2>4. <<e, f>> \o <<h>> = <<e, f, h>>
    <3>1. Len(<<e, f>> \o <<h>>) = Len(<<e, f, h>>)
      BY <2>3
    <3>2. \A i \in 1..Len(<<e, f>> \o <<h>>) : (<<e, f>> \o <<h>>)[i] = <<e, f, h>>[i]
      BY <2>3
    <3> HIDE DEF S
    <3> QED BY ONLY <1>1, <2>3, <3>1, <3>2, SeqEqual
  <2> QED BY <2>2, <2>4
<1>3. \A q \in Seq(S) : q \o <<>> = q /\ <<>> \o q = q
  BY ConcatEmptySeq
<1> QED BY <1>1, <1>2, <1>3

\* What poll() returns is one of the lists.
LEMMA ReadyBatch ==
  ASSUME NEW g \in Gen, NEW b \in Ready(g)
  PROVE  /\ b \in Batches
         /\ \A i \in DOMAIN b : /\ b[i] \in {"err", "hup"} => child[g] = "dead"
                                /\ b[i] = "read" => responses[g] # <<>>
         /\ pings = 0 /\ responses[g] = <<>> /\ dataSender[g] = NotSending
              /\ child[g] # "dead" => b = <<>>
<1> DEFINE evt == IF pings > 0 THEN <<"evt">> ELSE <<>>
           rd  == IF responses[g] # <<>> THEN <<"read">> ELSE <<>>
           wr  == IF dataSender[g] # NotSending THEN <<"write">> ELSE <<>>
<1>1. CASE child[g] = "dead"
  <2>1. b = <<"err">> \/ b = evt \o <<"hup">>
    BY <1>1 DEF Ready
  <2>2. b \in {<<"err">>, <<"hup">>, <<"evt", "hup">>}
    BY <2>1, Concat
  <2>3. \A i \in DOMAIN b : b[i] # "read"
    BY <2>2
  <2> QED BY <1>1, <2>2, <2>3 DEF Batches
<1>2. CASE child[g] # "dead"
  <2>1. b = (evt \o rd) \o wr
    BY <1>2 DEF Ready
  <2>2. /\ evt \o rd \in {<<>>, <<"evt">>, <<"read">>, <<"evt", "read">>}
        /\ rd = <<>> => evt \o rd \in {<<>>, <<"evt">>}
        /\ rd = <<>> /\ evt = <<>> => evt \o rd = <<>>
    BY Concat
  <2>3. /\ b \in {<<>>, <<"evt">>, <<"read">>, <<"evt", "read">>, <<"write">>,
                  <<"evt", "write">>, <<"read", "write">>, <<"evt", "read", "write">>}
        /\ rd = <<>> => b \in {<<>>, <<"evt">>, <<"write">>, <<"evt", "write">>}
        /\ rd = <<>> /\ evt = <<>> /\ wr = <<>> => b = <<>>
    <3>1. ASSUME NEW x \in {<<>>, <<"evt">>, <<"read">>, <<"evt", "read">>}
          PROVE  /\ x \o <<>> = x
                 /\ x \o <<"write">> \in {<<"write">>, <<"evt", "write">>,
                                          <<"read", "write">>, <<"evt", "read", "write">>}
                 /\ x \in {<<>>, <<"evt">>} =>
                      x \o <<"write">> \in {<<"write">>, <<"evt", "write">>}
      <4>1. CASE x = <<>>
        BY <4>1, Concat
      <4>2. CASE x = <<"evt">>
        BY <4>2, Concat
      <4>3. CASE x = <<"read">>
        BY <4>3, Concat
      <4>4. CASE x = <<"evt", "read">>
        BY <4>4, Concat, ZenonT(30)
      <4> QED BY <3>1, <4>1, <4>2, <4>3, <4>4
    <3>2. wr = <<>> \/ wr = <<"write">>
      OBVIOUS
    <3> HIDE DEF evt, rd, wr
    <3> QED BY <2>1, <2>2, <3>1, <3>2
  <2>4. b \in Batches
    BY <2>3 DEF Batches
  <2>5. \A i \in DOMAIN b : b[i] \notin {"err", "hup"}
    BY <2>3
  <2>6. ASSUME NEW i \in DOMAIN b, b[i] = "read" PROVE responses[g] # <<>>
    <3>1. CASE rd = <<>>
      BY <2>3, <2>6, <3>1
    <3> QED BY <3>1
  <2>7. pings = 0 => evt = <<>>
    OBVIOUS
  <2>8. (responses[g] = <<>> => rd = <<>>) /\ (dataSender[g] = NotSending => wr = <<>>)
    OBVIOUS
  <2> QED BY <2>3, <2>4, <2>5, <2>6, <2>7, <2>8
<1> QED BY <1>1, <1>2

\* The thread turns to the next event.
LEMMA NextEventStep ==
  ASSUME TypeOK, MessagesInv, NEW g \in Gen, NextEvent(g), th[g] = "batch"
  PROVE  /\ th' \in [Gen -> Threads] /\ batch' \in [Gen -> Batches]
         /\ th'[g] \in {"poll", "batch"} /\ (th'[g] = "batch" <=> batch'[g] # <<>>)
         /\ \A h \in Gen \ {g} : th'[h] = th[h] /\ batch'[h] = batch[h]
         /\ \A i \in DOMAIN batch'[g] : /\ batch'[g][i] # Head(batch[g])
                                        /\ \E j \in DOMAIN batch[g] : batch[g][j] = batch'[g][i]
<1>1. batch[g] \in Batches /\ batch[g] # <<>> /\ th \in [Gen -> Threads]
      /\ batch \in [Gen -> Batches]
  BY DEF TypeOK, GenerationOK, MessagesInv, EventsOf
<1>2. batch'[g] = Tail(batch[g]) /\ th'[g] = IF Len(batch[g]) = 1 THEN "poll" ELSE "batch"
  BY <1>1 DEF NextEvent
<1>3. Tail(batch[g]) \in Batches
  BY <1>1, BatchTail
<1>4. "poll" \in Threads /\ "batch" \in Threads
  BY DEF Threads
<1>5. /\ th' \in [Gen -> Threads] /\ batch' \in [Gen -> Batches]
      /\ \A h \in Gen \ {g} : th'[h] = th[h] /\ batch'[h] = batch[h]
  BY <1>1, <1>3, <1>4 DEF NextEvent
<1> QED BY <1>1, <1>2, <1>5, BatchTail

\* What the thread's last resort changes.
LEMMA FailStep ==
  ASSUME TypeOK, NEW g \in Gen, Fail(g)
  PROVE  /\ th' = [th EXCEPT ![g] = "fin"] /\ th' \in [Gen -> Threads]
         /\ batch' = [batch EXCEPT ![g] = <<>>] /\ batch' \in [Gen -> Batches]
         /\ DOMAIN pending' = Gen /\ DOMAIN pending'[g] = {}
         /\ \A h \in Gen \ {g} : pending'[h] = pending[h]
         /\ result' \in [Call -> Call \cup {NoResult, Crashed}]
BY DEF TypeOK, SharedOK, GenerationOK, Fail, Threads, Batches

\* Children are numbered from 1.
LEMMA Generations ==
  /\ Gen \subseteq Nat \ {0} /\ 1 \in Gen /\ 0 \notin Gen
  /\ \A g \in Gen \cup {0} : g < MaxGen => g + 1 \in Gen
BY ConstantsAssumption DEF Gen

\* Every step keeps the types of what the threads share.
LEMMA SharedStep == ClientInv /\ [Next]_vars => SharedOK'
<1> SUFFICES ASSUME ClientInv, [Next]_vars PROVE SharedOK'
  OBVIOUS
<1> USE Generations
<1>1. SharedOK /\ GenerationOK /\ GenerationsInv /\ MessagesInv
  BY DEF ClientInv, TypeOK
<1>2. CASE UNCHANGED vars
  BY <1>1, <1>2 DEF SharedOK, vars
<1>3. CASE Constructor
  <2>1. CASE InitRun
    BY <1>1, <2>1 DEF SharedOK, InitRun, Run, callerVars
  <2>2. CASE InitAssign \/ InitWait
    BY <1>1, <2>2 DEF SharedOK, InitAssign, InitWait, callerVars, selfVars
  <2> QED BY <1>3, <2>1, <2>2 DEF Constructor
<1>4. ASSUME NEW c \in Call, Caller(c) PROVE SharedOK'
  <2>1. CASE CallerPut(c)
    BY <1>1, <2>1 DEF SharedOK, CallerPut
  <2>2. CASE CallerPing(c)
    BY <1>1, <2>2 DEF SharedOK, CallerPing
  <2>3. CASE CallerReturn(c)
    BY <1>1, <2>3 DEF SharedOK, CallerReturn, selfVars
  <2> QED BY <1>4, <2>1, <2>2, <2>3 DEF Caller
<1>5. CASE CloseBegin \/ Closer \/ FdReuse \/ Idle
  BY <1>1, <1>5 DEF SharedOK, CloseBegin, Closer, ClosePing, CloseFds, CloseJoin, CloseEventFds,
                    FdReuse, Idle, vars, callerVars, selfVars
<1>6. ASSUME NEW g \in Gen, CommStart(g) \/ CommPoll(g) PROVE SharedOK'
  BY <1>1, <1>6 DEF SharedOK, CommStart, CommPoll, callerVars, selfVars
<1>7. ASSUME NEW g \in Gen, CommAssign(g) \/ CommWait(g) PROVE SharedOK'
  BY <1>1, <1>7 DEF SharedOK, CommAssign, CommWait, callerVars, selfVars
<1>8. ASSUME NEW g \in Gen, CommError(g) \/ CommFinally(g) PROVE SharedOK'
  BY <1>1, <1>8 DEF SharedOK, CommError, CommFinally, Fail, callerVars, selfVars
<1>9. ASSUME NEW g \in Gen, CommEvt(g) PROVE SharedOK'
  <2>1. commandQueue \in Seq(Call) /\ pings \in Nat /\ reqId \in Nat
    BY <1>1 DEF SharedOK
  <2>2. commandQueue' \in Seq(Call) /\ pings' \in Nat /\ reqId' \in Nat
    <3>1. pings' = pings - 1 /\ pings > 0
      BY <1>9 DEF CommEvt
    <3>2. \/ UNCHANGED <<commandQueue, reqId>>
          \/ /\ commandQueue # <<>> /\ commandQueue' = Tail(commandQueue)
             /\ reqId' = reqId + 1
      BY <1>9 DEF CommEvt, getRequestId
    <3> QED BY <2>1, <3>1, <3>2, SMTT(30)
  <2> QED BY <1>1, <1>9, <2>2, SMTT(30) DEF SharedOK, CommEvt, callerVars
<1>10. ASSUME NEW g \in Gen, CommRead(g) PROVE SharedOK'
  <2>1. responses[g] # <<>> /\ responses[g] \in Seq(Message) /\ Head(responses[g]) \in Message
    BY <1>1, <1>10, BatchTail DEF GenerationOK, CommRead, Event, MessagesInv, EventsOf
  <2>2. result' \in [Call -> Call \cup {NoResult, Crashed}]
    BY <1>1, <1>10, <2>1 DEF CommRead, SharedOK, Fail, Deliver, Message
  <2> QED BY <1>1, <1>10, <2>2 DEF SharedOK, CommRead, callerVars, selfVars
<1>11. ASSUME NEW g \in Gen, CommWrite(g) PROVE SharedOK'
  BY <1>1, <1>11 DEF SharedOK, CommWrite, PingAfterSend, Fail, callerVars
<1>12. ASSUME NEW g \in Gen, CommRestart(g) PROVE SharedOK'
  BY <1>1, <1>12 DEF SharedOK, CommRestart, Run, callerVars
<1>13. ASSUME NEW g \in Gen, ChildAnswer(g) \/ ChildDie(g) PROVE SharedOK'
  BY <1>1, <1>13 DEF SharedOK, ChildAnswer, ChildDie, callerVars, selfVars
<1> QED BY <1>2, <1>3, <1>4, <1>5, <1>6, <1>7, <1>8, <1>9, <1>10, <1>11, <1>12, <1>13
        DEF Next, Comm

\* ... and so do those of the generations.
LEMMA GenerationStep == ClientInv /\ [Next]_vars => GenerationOK'
<1> SUFFICES ASSUME ClientInv, [Next]_vars PROVE GenerationOK'
  OBVIOUS
<1> DEFINE PendingOK == /\ DOMAIN pending = Gen
                        /\ \A g \in Gen : DOMAIN pending[g] \subseteq 1..reqId
                              /\ \A i \in DOMAIN pending[g] : pending[g][i] \in Call
<1>1. SharedOK /\ GenerationOK /\ GenerationsInv /\ MessagesInv /\ TypeOK
  BY DEF ClientInv, TypeOK
<1>2. /\ "start" \in Threads /\ "poll" \in Threads /\ "batch" \in Threads /\ "fin" \in Threads
      /\ "lock" \in Threads /\ "assign" \in Threads /\ "wait" \in Threads
      /\ "done" \in Threads /\ "leaked" \in Threads
  BY DEF Threads
<1>3. CASE UNCHANGED <<th, batch, dataSender, pending, child, received, responses, reqId>>
  BY <1>1, <1>3 DEF GenerationOK
<1>4. CASE /\ th' \in [Gen -> Threads] /\ child' \in [Gen -> {"none", "up", "dead"}]
           /\ UNCHANGED <<batch, dataSender, pending, received, responses, reqId>>
  BY <1>1, <1>4 DEF GenerationOK
<1>5. CASE InitRun
  <2>1. th' \in [Gen -> Threads] /\ child' \in [Gen -> {"none", "up", "dead"}]
    BY <1>1, <1>2, <1>5, Generations DEF SharedOK, GenerationOK, InitRun, Run
  <2> QED BY <1>4, <1>5, <2>1 DEF InitRun, commVars
<1>6. ASSUME NEW g \in Gen, CommStart(g) \/ CommAssign(g) \/ CommWait(g) PROVE GenerationOK'
  <2>1. th' \in [Gen -> Threads] /\ child' \in [Gen -> {"none", "up", "dead"}]
    BY <1>1, <1>2, <1>6, ZenonT(30) DEF GenerationOK, CommStart, CommAssign, CommWait, childVars
  <2> QED BY <1>4, <1>6, <2>1 DEF CommStart, CommAssign, CommWait, commVars, childVars
<1>7. ASSUME NEW g \in Gen, CommPoll(g) PROVE GenerationOK'
  <2>1. batch' \in [Gen -> Batches] /\ th' \in [Gen -> Threads]
    BY <1>1, <1>2, <1>7, ReadyBatch, ZenonT(90) DEF GenerationOK, CommPoll
  <2> QED BY <1>1, <1>7, <2>1 DEF GenerationOK, CommPoll, childVars, selfVars
<1>8. ASSUME NEW g \in Gen, CommError(g) PROVE GenerationOK'
  BY <1>1, <1>8, FailStep DEF GenerationOK, CommError, childVars, selfVars
<1>9. ASSUME NEW g \in Gen, CommEvt(g) PROVE GenerationOK'
  <2>1. batch' \in [Gen -> Batches] /\ th' \in [Gen -> Threads]
    BY <1>1, <1>9, NextEventStep DEF CommEvt, Event
  <2>2. CASE dataSender[g] # NotSending \/ commandQueue = <<>>
    BY <1>1, <1>9, <2>1, <2>2 DEF GenerationOK, CommEvt, childVars
  <2>3. CASE ~(dataSender[g] # NotSending \/ commandQueue = <<>>)
    <3> DEFINE c == Head(commandQueue)
    <3>1. /\ c \in Call /\ reqId' = reqId + 1 /\ reqId \in Nat
          /\ pending' = [pending EXCEPT ![g] = [i \in DOMAIN pending[g] \cup {reqId + 1} |->
                                                  IF i = reqId + 1 THEN c ELSE pending[g][i]]]
          /\ dataSender' = [dataSender EXCEPT
                              ![g] = Sending([id |-> reqId + 1, call |-> c], Chunks)]
      BY <1>1, <1>9, <2>3 DEF SharedOK, CommEvt, getRequestId
    <3>2. dataSender' \in [Gen -> Senders]
      <4>1. [id |-> reqId + 1, call |-> c] \in Message
        BY <3>1 DEF Message
      <4>2. Sending([id |-> reqId + 1, call |-> c], Chunks) \in Senders
        BY <4>1, ConstantsAssumption DEF Sending, Senders
      <4> QED BY <1>1, <3>1, <4>2 DEF GenerationOK
    <3>3. PendingOK'
      BY <1>1, <3>1 DEF GenerationOK
    <3> QED BY <1>1, <1>9, <2>1, <3>2, <3>3 DEF GenerationOK, CommEvt, childVars
  <2> QED BY <2>2, <2>3
<1>10. ASSUME NEW g \in Gen, CommRead(g) PROVE GenerationOK'
  <2>1. responses' \in [Gen -> Seq(Message)]
    <3>1. responses[g] # <<>> /\ responses[g] \in Seq(Message)
      BY <1>1, <1>10, BatchTail DEF GenerationOK, CommRead, Event, MessagesInv, EventsOf
    <3> QED BY <1>1, <1>10, <3>1 DEF GenerationOK, CommRead
  <2>2. batch' \in [Gen -> Batches] /\ th' \in [Gen -> Threads]
    BY <1>1, <1>10, NextEventStep, FailStep DEF CommRead, Event
  <2>3. PendingOK'
    <3> DEFINE m == Head(responses[g])
    <3>1. CASE pending' = [pending EXCEPT ![g] = [i \in DOMAIN @ \ {m.id} |-> @[i]]]
      <4>1. /\ DOMAIN pending' = Gen /\ \A h \in Gen \ {g} : pending'[h] = pending[h]
            /\ DOMAIN pending'[g] \subseteq DOMAIN pending[g]
            /\ \A i \in DOMAIN pending'[g] : pending'[g][i] = pending[g][i]
        BY <1>1, <3>1 DEF GenerationOK
      <4> QED BY <1>1, <1>10, <4>1 DEF CommRead, GenerationOK, selfVars
    <3>2. CASE UNCHANGED pending
      BY <1>1, <1>10, <3>2 DEF CommRead, GenerationOK, selfVars
    <3>3. CASE Fail(g)
      <4>1. UNCHANGED reqId
        BY <1>10 DEF CommRead, selfVars
      <4> QED BY <1>1, <3>3, <4>1, FailStep DEF GenerationOK
    <3> QED BY <1>10, <3>1, <3>2, <3>3 DEF CommRead
  <2> QED BY <1>1, <1>10, <2>1, <2>2, <2>3 DEF GenerationOK, CommRead
<1>11. ASSUME NEW g \in Gen, CommWrite(g) PROVE GenerationOK'
  <2>1. batch' \in [Gen -> Batches] /\ th' \in [Gen -> Threads]
    BY <1>1, <1>11, NextEventStep, FailStep DEF CommWrite, Event
  <2>2. dataSender' \in [Gen -> Senders]
    <3>1. dataSender \in [Gen -> Senders] /\ NotSending \in Senders
      BY <1>1, ConstantsAssumption DEF GenerationOK, NotSending, Sending, Senders
    <3>2. ~Sent(g) => [dataSender[g] EXCEPT !.left = @ - 1] \in Senders
      BY <3>1, ConstantsAssumption DEF Sent, Senders
    <3>3. \/ dataSender' = [dataSender EXCEPT ![g] = NotSending]
          \/ UNCHANGED dataSender
          \/ ~Sent(g) /\ dataSender' = [dataSender EXCEPT ![g].left = @ - 1]
      BY <1>11 DEF CommWrite
    <3>4. ASSUME ~Sent(g), dataSender' = [dataSender EXCEPT ![g].left = @ - 1]
          PROVE  dataSender' \in [Gen -> Senders]
      BY <3>1, <3>2, <3>4
    <3> QED BY <3>1, <3>3, <3>4
  <2>3. received' \in [Gen -> SUBSET Message]
    <3>1. ~Sent(g) => dataSender[g].msg \in Message
      BY <1>1 DEF Sent, MessagesInv, RequestsOf, NotSending, Sending
    <3>2. \/ UNCHANGED received
          \/ ~Sent(g) /\ received' = [received EXCEPT ![g] = @ \cup {dataSender[g].msg}]
      BY <1>11 DEF CommWrite
    <3>3. received \in [Gen -> SUBSET Message]
      BY <1>1 DEF GenerationOK
    <3>4. ~Sent(g) => received[g] \cup {dataSender[g].msg} \in SUBSET Message
      BY <3>1, <3>3
    <3> QED BY <3>2, <3>3, <3>4
  <2>4. PendingOK'
    <3>1. UNCHANGED reqId /\ (Fail(g) \/ UNCHANGED pending)
      BY <1>11 DEF CommWrite
    <3> QED BY <1>1, <3>1, FailStep DEF GenerationOK
  <2> QED BY <1>1, <1>11, <2>1, <2>2, <2>3, <2>4 DEF GenerationOK, CommWrite
<1>12. ASSUME NEW g \in Gen, CommFinally(g) PROVE GenerationOK'
  <2>1. NotSending \in Senders /\ <<>> \in Batches
    BY ConstantsAssumption DEF NotSending, Sending, Senders, Batches
  <2> QED BY <1>1, <1>2, <1>12, <2>1 DEF GenerationOK, CommFinally, KillChild, selfVars
<1>13. ASSUME NEW g \in Gen, CommRestart(g) PROVE GenerationOK'
  <2>1. th' \in [Gen -> Threads] /\ child' \in [Gen -> {"none", "up", "dead"}]
    <3>1. CASE ~RestartNeeded
      BY <1>1, <1>2, <1>13, <3>1 DEF GenerationOK, CommRestart
    <3>2. CASE RestartNeeded
      <4>1. spawned + 1 \in Gen /\ spawned' = spawned + 1
        BY <1>1, <1>13, <3>2, Generations DEF SharedOK, CommRestart, Run
      <4>2. [th EXCEPT ![g] = "assign"] \in [Gen -> Threads]
        BY <1>1, <1>2 DEF GenerationOK
      <4>3. /\ th' = [[th EXCEPT ![g] = "assign"] EXCEPT ![spawned + 1] = "start"]
            /\ child' = [child EXCEPT ![spawned + 1] = "up"]
        BY <1>13, <3>2, <4>1 DEF CommRestart, Run
      <4> QED BY <1>1, <1>2, <4>1, <4>2, <4>3 DEF GenerationOK
    <3> QED BY <3>1, <3>2
  <2> QED BY <1>4, <1>13, <2>1 DEF CommRestart, commVars
<1>14. ASSUME NEW g \in Gen, ChildAnswer(g) \/ ChildDie(g) PROVE GenerationOK'
  <2>1. CASE ChildAnswer(g)
    <3>1. PICK m \in received[g] :
            /\ received' = [received EXCEPT ![g] = @ \ {m}]
            /\ responses' = [responses EXCEPT ![g] = Append(@, m)]
      BY <2>1 DEF ChildAnswer
    <3>2. m \in Message /\ received' \in [Gen -> SUBSET Message]
          /\ responses' \in [Gen -> Seq(Message)]
      BY <1>1, <3>1 DEF GenerationOK
    <3> QED BY <1>1, <2>1, <3>2 DEF GenerationOK, ChildAnswer, selfVars, commVars
  <2>2. CASE ChildDie(g)
    BY <1>1, <1>4, <2>2 DEF GenerationOK, ChildDie, selfVars, commVars
  <2> QED BY <1>14, <2>1, <2>2
<1>15. CASE \/ UNCHANGED vars \/ InitAssign \/ InitWait \/ (\E c \in Call : Caller(c))
            \/ CloseBegin \/ Closer \/ FdReuse \/ Idle
  BY <1>3, <1>15
  DEF vars, InitAssign, InitWait, Caller, CallerPut, CallerPing, CallerReturn, CloseBegin,
      Closer, ClosePing, CloseFds, CloseJoin, FdReuse, Idle, commVars, childVars, selfVars
<1> QED BY <1>5, <1>6, <1>7, <1>8, <1>9, <1>10, <1>11, <1>12, <1>13, <1>14, <1>15
        DEF Next, Comm, Constructor

-----------------------------------------------------------------------------
(* Generations *)

\* A restart: what Run() does to the generations.
LEMMA RestartStep ==
  ASSUME TypeOK, NEW g \in Gen, CommRestart(g), RestartNeeded
  PROVE  /\ spawned + 1 \in Gen /\ spawned' = spawned + 1 /\ lock' = g
         /\ th \in [Gen -> Threads] /\ child \in [Gen -> {"none", "up", "dead"}]
         /\ \A h \in Gen : th'[h] = IF h = spawned + 1 THEN "start"
                                    ELSE IF h = g THEN "assign" ELSE th[h]
         /\ \A h \in Gen : child'[h] = IF h = spawned + 1 THEN "up" ELSE child[h]
<1>1. spawned + 1 \in Gen /\ spawned' = spawned + 1 /\ lock' = g
  BY Generations DEF TypeOK, SharedOK, CommRestart, Run
<1>2. /\ th' = [[th EXCEPT ![g] = "assign"] EXCEPT ![spawned + 1] = "start"]
      /\ child' = [child EXCEPT ![spawned + 1] = "up"]
  BY <1>1 DEF CommRestart, Run
<1> QED BY <1>1, <1>2 DEF TypeOK, GenerationOK

\* The constructor starts the first generation, a thread that restarts the one after its own,
\* and a thread ends only with its child.
LEMMA GenerationsStep == ClientInv /\ [Next]_vars => GenerationsInv'
<1> SUFFICES ASSUME ClientInv, [Next]_vars PROVE GenerationsInv'
  OBVIOUS
<1>1. TypeOK /\ GenerationsInv /\ JoinInv /\ MessagesInv
  BY DEF ClientInv
<1>2. /\ th \in [Gen -> Threads] /\ child \in [Gen -> {"none", "up", "dead"}]
      /\ spawned \in Gen \cup {0} /\ lock \in Gen \cup {0} /\ Gen \subseteq Nat \ {0}
      /\ closer \in {"idle", "ping", "fds", "join", "closed", "collected"}
      /\ evtFd \in {"open", "closed", "reused"} /\ isRunning \in {"yes", "no"}
  BY <1>1, Generations DEF TypeOK, SharedOK, GenerationOK
<1>3. ASSUME UNCHANGED <<evtFd, isRunning, lock, spawned, init, closer, late, child>>,
             NEW g \in Gen, \A h \in Gen \ {g} : th'[h] = th[h],
             \/ th'[g] = th[g]
             \/ th[g] = "start" /\ th'[g] \in {"poll", "fin", "leaked"}
             \/ th[g] \in {"poll", "batch"} /\ th'[g] \in {"poll", "batch", "fin"}
             \/ th[g] = "assign" /\ th'[g] = "wait"
      PROVE  GenerationsInv'
  BY <1>1, <1>2, <1>3 DEF GenerationsInv
<1>4. CASE UNCHANGED <<evtFd, isRunning, lock, spawned, init, closer, late, child, th>>
  BY <1>1, <1>4 DEF GenerationsInv
<1>5. CASE InitRun
  <2>1. /\ spawned = 0 /\ spawned' = 1 /\ init' = "assign" /\ init = "run" /\ 1 \in Gen
        /\ child' = [child EXCEPT ![1] = "up"] /\ th' = [th EXCEPT ![1] = "start"]
        /\ UNCHANGED <<evtFd, isRunning, lock, closer, late>>
    BY <1>1, <1>5, Generations DEF GenerationsInv, InitRun, Run, callerVars
  <2> QED BY <1>1, <1>2, <2>1 DEF GenerationsInv
<1>6. CASE InitAssign \/ InitWait
  BY <1>1, <1>2, <1>6
  DEF GenerationsInv, InitAssign, InitWait, selfVars, callerVars, childVars
<1>7. ASSUME NEW c \in Call, Caller(c) PROVE GenerationsInv'
  <2>1. CASE CallerPut(c)
    BY <1>1, <1>2, <2>1 DEF GenerationsInv, CallerPut, childVars
  <2>2. CASE CallerPing(c) \/ CallerReturn(c)
    BY <1>4, <2>2 DEF CallerPing, CallerReturn, selfVars, childVars
  <2> QED BY <1>7, <2>1, <2>2 DEF Caller
<1>8. CASE CloseBegin
  BY <1>1, <1>2, <1>8 DEF GenerationsInv, CloseBegin, callerVars, childVars
<1>9. CASE Closer \/ FdReuse
  <2>1. /\ UNCHANGED <<isRunning, lock, spawned, init, late, child, th>>
        /\ isRunning = "no" /\ closer' # "idle"
        /\ evtFd' = "open" <=> closer' \in {"idle", "ping", "fds"}
        /\ "fdreuse" \notin Faults => evtFd' # "reused"
        /\ closer = "closed" => closer' = "closed"
    BY <1>1, <1>2, <1>9
    DEF GenerationsInv, Closer, ClosePing, CloseFds, CloseEventFds, CloseJoin, FdReuse,
        selfVars, callerVars, childVars
  <2> QED BY <1>1, <1>2, <2>1 DEF GenerationsInv
<1>10. ASSUME NEW g \in Gen, CommStart(g) \/ CommPoll(g) PROVE GenerationsInv'
  BY <1>2, <1>3, <1>10 DEF CommStart, CommPoll, selfVars, callerVars, childVars
<1>11. ASSUME NEW g \in Gen, CommError(g) \/ CommEvt(g) \/ CommRead(g) \/ CommWrite(g)
       PROVE  GenerationsInv'
  <2>1. /\ UNCHANGED <<evtFd, isRunning, lock, spawned, init, closer, late, child>>
        /\ NextEvent(g) \/ Fail(g)
    BY <1>11 DEF CommError, CommEvt, CommRead, CommWrite, selfVars, callerVars, childVars
  <2>2. th[g] = "batch"
    BY <1>11 DEF CommError, CommEvt, CommRead, CommWrite, Event
  <2>3. th' \in {[th EXCEPT ![g] = x] : x \in {"poll", "batch", "fin"}}
    BY <2>1 DEF NextEvent, Fail
  <2> QED BY <1>2, <1>3, <2>1, <2>2, <2>3
<1>12. ASSUME NEW g \in Gen, CommFinally(g) PROVE GenerationsInv'
  <2>1. /\ UNCHANGED <<evtFd, isRunning, lock, spawned, init, closer, late>>
        /\ th[g] = "fin" /\ child' = [child EXCEPT ![g] = "dead"]
        /\ th' = [th EXCEPT ![g] = "lock"] \/ th' = [th EXCEPT ![g] = "done"]
    BY <1>12 DEF CommFinally, KillChild, selfVars, callerVars
  <2> QED BY <1>1, <1>2, <2>1 DEF GenerationsInv
<1>13. ASSUME NEW g \in Gen, CommRestart(g) PROVE GenerationsInv'
  <2>1. CASE ~RestartNeeded
    BY <1>1, <1>2, <1>13, <2>1 DEF GenerationsInv, CommRestart, callerVars
  <2>2. CASE RestartNeeded
    <3>1. /\ UNCHANGED <<evtFd, isRunning, init, closer, late>>
          /\ th[g] = "lock" /\ lock = 0 /\ isRunning = "yes"
      BY <1>13, <2>2 DEF CommRestart, RestartNeeded, callerVars
    <3>2. g = spawned
      BY <1>1, <3>1 DEF GenerationsInv
    <3> QED BY <1>1, <1>2, <1>13, <2>2, <3>1, <3>2, RestartStep DEF GenerationsInv
  <2> QED BY <2>1, <2>2
<1>14. ASSUME NEW g \in Gen, CommAssign(g) PROVE GenerationsInv'
  BY <1>2, <1>3, <1>14 DEF CommAssign, callerVars, childVars
<1>15. ASSUME NEW g \in Gen, CommWait(g) PROVE GenerationsInv'
  BY <1>1, <1>2, <1>15 DEF GenerationsInv, CommWait, callerVars, childVars
<1>16. ASSUME NEW g \in Gen, ChildAnswer(g) PROVE GenerationsInv'
  BY <1>4, <1>16 DEF ChildAnswer, selfVars, callerVars
<1>17. ASSUME NEW g \in Gen, ChildDie(g) PROVE GenerationsInv'
  BY <1>1, <1>2, <1>17 DEF GenerationsInv, ChildDie, selfVars, callerVars
<1>18. CASE UNCHANGED vars \/ Idle
  BY <1>4, <1>18 DEF vars, Idle
<1> QED BY <1>5, <1>6, <1>7, <1>8, <1>9, <1>10, <1>11, <1>12, <1>13, <1>14, <1>15, <1>16, <1>17,
           <1>18 DEF Next, Comm, Constructor

\* Until the constructor has returned nothing happens but the start of the first generation;
\* from then on close() finds the latest thread in _commthread.
LEMMA JoinStep == ClientInv /\ [Next]_vars => JoinInv'
<1> SUFFICES ASSUME ClientInv, [Next]_vars, "startcrash" \notin Faults PROVE JoinInv'
  BY DEF JoinInv
<1> DEFINE Quiet == /\ pings = 0 /\ commandQueue = <<>> /\ spawned <= 1
                    /\ \A g \in Gen : /\ th[g] \in {"none", "start", "poll"}
                                      /\ child[g] # "dead"
                                      /\ dataSender[g] = NotSending /\ received[g] = {}
                                      /\ responses[g] = <<>>
           Joins == /\ commthread \in Gen
                    /\ \/ commthread = spawned
                       \/ commthread = spawned - 1 /\ th[commthread] = "assign"
<1>1. TypeOK /\ GenerationsInv /\ JoinInv /\ MessagesInv
  BY DEF ClientInv
<1>2. /\ th \in [Gen -> Threads] /\ child \in [Gen -> {"none", "up", "dead"}]
      /\ spawned \in Gen \cup {0} /\ lock \in Gen \cup {0} /\ Gen \subseteq Nat \ {0}
      /\ commthread \in Gen \cup {0} /\ isRunning \in {"yes", "no"}
      /\ init \in {"run", "assign", "wait", "ready"}
      /\ closer \in {"idle", "ping", "fds", "join", "closed", "collected"}
  BY <1>1, Generations DEF TypeOK, SharedOK, GenerationOK
<1>3. /\ init # "ready" => Quiet
      /\ init = "wait" => commthread = 1
      /\ init = "ready" => Joins
      /\ closer = "closed" => \A g \in Gen : child[g] # "up"
  BY <1>1 DEF JoinInv
<1>4. ASSUME init' # "ready" => Quiet', init' = "wait" => commthread' = 1,
             init' = "ready" => Joins',
             closer' = "closed" => \A g \in Gen : child'[g] # "up"
      PROVE  JoinInv'
  BY <1>4 DEF JoinInv
<1>5. init # "ready" => closer = "idle" /\ isRunning = "yes" /\ evtFd = "open"
  BY <1>1, <1>2 DEF GenerationsInv
<1>6. CASE InitRun
  <2>1. /\ spawned = 0 /\ spawned' = 1 /\ init' = "assign" /\ init = "run" /\ 1 \in Gen
        /\ child' = [child EXCEPT ![1] = "up"] /\ th' = [th EXCEPT ![1] = "start"]
        /\ UNCHANGED <<closer, pings, commandQueue, dataSender, received, responses>>
    BY <1>1, <1>6, Generations DEF GenerationsInv, InitRun, Run, callerVars, commVars
  <2>2. Quiet'
    BY <1>2, <1>3, <2>1
  <2> QED BY <1>4, <1>5, <2>1, <2>2
<1>7. CASE InitAssign
  <2>1. Quiet'
    BY <1>3, <1>7 DEF InitAssign, callerVars, commVars, childVars
  <2> QED BY <1>4, <1>5, <1>7, <2>1 DEF InitAssign
<1>8. CASE InitWait
  <2>1. spawned = 1 /\ commthread = 1 /\ init = "wait"
    BY <1>1, <1>2, <1>3, <1>8 DEF InitWait, GenerationsInv
  <2> QED BY <1>2, <1>4, <1>5, <1>8, <2>1, Generations DEF InitWait, selfVars
<1>9. ASSUME init = "ready", UNCHANGED <<init, commthread, spawned>>,
             \A g \in Gen : th[g] = "assign" => th'[g] = "assign",
             \A g \in Gen : child'[g] = "up" => child[g] = "up",
             closer' = "closed" => closer = "closed"
      PROVE  JoinInv'
  BY <1>3, <1>4, <1>9
<1>10. ASSUME NEW c \in Call, Caller(c) PROVE JoinInv'
  <2>1. init = "ready"
    BY <1>10 DEF ClientInv, PlacesInv, Caller, CallerPut, CallerPing, CallerReturn
  <2> QED BY <1>9, <1>10, <2>1
          DEF Caller, CallerPut, CallerPing, CallerReturn, selfVars, childVars
<1>11. CASE CloseBegin \/ ClosePing \/ CloseFds \/ FdReuse
  <2>1. init = "ready"
    BY <1>1, <1>5, <1>11 DEF CloseBegin, ClosePing, CloseFds, FdReuse
  <2> QED BY <1>9, <1>11, <2>1 DEF CloseBegin, ClosePing, CloseFds, FdReuse, childVars
<1>12. CASE CloseJoin
  <2>1. /\ init = "ready" /\ th[commthread] = "done"
        /\ UNCHANGED <<init, commthread, spawned, th, child>>
    BY <1>5, <1>12 DEF CloseJoin, selfVars, childVars
  <2>2. commthread = spawned /\ child[spawned] = "dead"
    BY <1>1, <1>3, <2>1 DEF GenerationsInv
  <2>3. \A g \in Gen : child[g] # "up"
    BY <1>1, <2>2 DEF GenerationsInv
  <2> QED BY <1>3, <1>4, <2>1, <2>3
<1>13. ASSUME NEW g \in Gen, CommStart(g) PROVE JoinInv'
  <2>1. /\ UNCHANGED <<init, commthread, spawned, closer, child>>
        /\ UNCHANGED <<pings, commandQueue, dataSender, received, responses>>
        /\ th[g] = "start" /\ \A h \in Gen \ {g} : th'[h] = th[h]
    BY <1>2, <1>13 DEF CommStart, callerVars, commVars, childVars
  <2>2. CASE init = "ready"
    BY <1>9, <2>1, <2>2
  <2>3. CASE init # "ready"
    <3>1. th' = [th EXCEPT ![g] = "poll"]
      BY <1>5, <1>13, <2>3 DEF CommStart, Alive
    <3>2. Quiet'
      BY <1>2, <1>3, <2>1, <2>3, <3>1
    <3> QED BY <1>3, <1>4, <2>1, <2>3, <3>2
  <2> QED BY <2>2, <2>3
<1>14. ASSUME NEW g \in Gen, CommPoll(g) PROVE JoinInv'
  <2>1. init = "ready"
    <3> SUFFICES ASSUME init # "ready" PROVE FALSE
      BY <1>2
    <3>1. PICK b \in Ready(g) : b # <<>>
      BY <1>5, <1>14 DEF CommPoll, ShutdownRequested
    <3> QED BY <1>3, <3>1, ReadyBatch
  <2> QED BY <1>2, <1>9, <1>14, <2>1 DEF CommPoll, selfVars, childVars
<1>15. ASSUME NEW g \in Gen, CommError(g) \/ CommEvt(g) \/ CommRead(g) \/ CommWrite(g)
       PROVE  JoinInv'
  <2>1. /\ UNCHANGED <<init, commthread, spawned, closer, child>>
        /\ NextEvent(g) \/ Fail(g)
    BY <1>15 DEF CommError, CommEvt, CommRead, CommWrite, selfVars, childVars
  <2>2. th[g] = "batch"
    BY <1>15 DEF CommError, CommEvt, CommRead, CommWrite, Event
  <2>3. th' \in {[th EXCEPT ![g] = x] : x \in {"poll", "batch", "fin"}}
    BY <2>1 DEF NextEvent, Fail
  <2> QED BY <1>2, <1>3, <1>9, <2>1, <2>2, <2>3
<1>16. ASSUME NEW g \in Gen, CommFinally(g) PROVE JoinInv'
  <2>1. /\ UNCHANGED <<init, commthread, spawned, closer>>
        /\ th[g] = "fin" /\ child' = [child EXCEPT ![g] = "dead"]
        /\ th' = [th EXCEPT ![g] = "lock"] \/ th' = [th EXCEPT ![g] = "done"]
    BY <1>16 DEF CommFinally, KillChild, selfVars
  <2> QED BY <1>2, <1>3, <1>9, <2>1
<1>17. ASSUME NEW g \in Gen, CommRestart(g) PROVE JoinInv'
  <2>1. th[g] = "lock" /\ lock = 0 /\ init = "ready" /\ UNCHANGED <<init, commthread, closer>>
    BY <1>3, <1>17 DEF CommRestart
  <2>2. CASE ~RestartNeeded
    <3>1. th' = [th EXCEPT ![g] = "done"] /\ UNCHANGED <<spawned, child>>
      BY <1>17, <2>2 DEF CommRestart
    <3> QED BY <1>2, <1>9, <2>1, <3>1
  <2>3. CASE RestartNeeded
    <3>1. g = spawned
      BY <1>1, <2>1 DEF GenerationsInv
    <3>2. commthread = spawned
      BY <1>1, <1>2, <1>3, <2>1 DEF GenerationsInv
    <3>3. spawned' = g + 1 /\ th'[g] = "assign"
      BY <1>1, <1>2, <1>17, <2>3, <3>1, RestartStep
    <3>4. closer = "idle"
      BY <1>1, <1>2, <2>3 DEF GenerationsInv, RestartNeeded
    <3> QED BY <1>2, <1>4, <2>1, <3>1, <3>2, <3>3, <3>4
  <2> QED BY <2>2, <2>3
<1>18. ASSUME NEW g \in Gen, CommAssign(g) PROVE JoinInv'
  <2>1. /\ th[g] = "assign" /\ commthread' = spawned
        /\ UNCHANGED <<init, spawned, closer, child>>
    BY <1>18 DEF CommAssign, childVars
  <2>2. init = "ready" /\ spawned \in Gen
    BY <1>1, <1>2, <1>3, <2>1 DEF GenerationsInv
  <2> QED BY <1>3, <1>4, <2>1, <2>2
<1>19. ASSUME NEW g \in Gen, CommWait(g) PROVE JoinInv'
  <2>1. th[g] = "wait" /\ init = "ready"
    BY <1>3, <1>19 DEF CommWait
  <2> QED BY <1>2, <1>9, <1>19, <2>1 DEF CommWait, childVars
<1>20. ASSUME NEW g \in Gen, ChildAnswer(g) \/ ChildDie(g) PROVE JoinInv'
  <2>1. init = "ready"
    BY <1>2, <1>3, <1>20 DEF ChildAnswer, ChildDie
  <2> QED BY <1>2, <1>9, <1>20, <2>1 DEF ChildAnswer, ChildDie, selfVars
<1>21. CASE UNCHANGED vars \/ Idle
  BY <1>3, <1>4, <1>21 DEF vars, Idle
<1> QED BY <1>6, <1>7, <1>8, <1>10, <1>11, <1>12, <1>13, <1>14, <1>15, <1>16, <1>17, <1>18, <1>19,
           <1>20, <1>21 DEF Next, Comm, Constructor, Closer

-----------------------------------------------------------------------------
(* Events and messages *)

\* The list a thread works on names only what has happened: a child stays dead, and a thread
\* alone reads its responses.
LEMMA EventsStep == ClientInv /\ [Next]_vars => \A h \in Gen : EventsOf(h)'
<1> SUFFICES ASSUME ClientInv, [Next]_vars, NEW h \in Gen PROVE EventsOf(h)'
  OBVIOUS
<1>1. TypeOK /\ GenerationsInv /\ MessagesInv /\ EventsOf(h)
  BY DEF ClientInv, MessagesInv
<1>2. /\ th \in [Gen -> Threads] /\ child \in [Gen -> {"none", "up", "dead"}]
      /\ batch \in [Gen -> Batches] /\ responses \in [Gen -> Seq(Message)]
  BY <1>1 DEF TypeOK, GenerationOK
<1>3. ASSUME th'[h] = "batch" <=> th[h] = "batch", batch'[h] = batch[h],
             child[h] = "dead" => child'[h] = "dead",
             responses[h] # <<>> => responses'[h] # <<>>
      PROVE  EventsOf(h)'
  BY <1>1, <1>3 DEF EventsOf
<1>4. ASSUME th'[h] # "batch", batch'[h] = <<>> PROVE EventsOf(h)'
  BY <1>4 DEF EventsOf
<1>5. CASE InitRun
  <2>1. /\ spawned = 0 /\ spawned' = 1 /\ th[h] = "none" /\ child[h] = "none"
        /\ child' = [child EXCEPT ![1] = "up"] /\ th' = [th EXCEPT ![1] = "start"]
        /\ UNCHANGED <<batch, responses>>
    BY <1>1, <1>5, Generations DEF GenerationsInv, InitRun, Run, commVars
  <2> QED BY <1>2, <1>3, <2>1
<1>6. ASSUME NEW g \in Gen, CommPoll(g) PROVE EventsOf(h)'
  <2>1. CASE h = g
    <3>1. CASE ShutdownRequested
      <4>1. th' = [th EXCEPT ![g] = "fin"] /\ UNCHANGED batch /\ th[g] = "poll"
        BY <1>6, <3>1 DEF CommPoll
      <4> QED BY <1>1, <1>2, <1>4, <2>1, <4>1 DEF EventsOf
    <3>2. CASE ~ShutdownRequested
      <4>1. PICK b \in Ready(g) : b # <<>> /\ batch' = [batch EXCEPT ![g] = b]
        BY <1>6, <3>2 DEF CommPoll
      <4>2. th' = [th EXCEPT ![g] = "batch"] /\ UNCHANGED <<child, responses>>
        BY <1>6, <3>2 DEF CommPoll, childVars
      <4> QED BY <1>2, <2>1, <4>1, <4>2, ReadyBatch DEF EventsOf
    <3> QED BY <3>1, <3>2
  <2>2. CASE h # g
    BY <1>2, <1>3, <1>6, <2>2 DEF CommPoll, childVars
  <2> QED BY <2>1, <2>2
<1>7. ASSUME NEW g \in Gen, CommError(g) \/ CommEvt(g) \/ CommRead(g) \/ CommWrite(g)
      PROVE  EventsOf(h)'
  <2>1. th[g] = "batch" /\ UNCHANGED child /\ (NextEvent(g) \/ Fail(g))
    BY <1>7 DEF CommError, CommEvt, CommRead, CommWrite, Event, childVars
  <2>2. \/ UNCHANGED responses
        \/ Head(batch[g]) = "read" /\ responses' = [responses EXCEPT ![g] = Tail(@)]
    BY <1>7 DEF CommError, CommEvt, CommRead, CommWrite, Event, childVars
  <2>3. CASE h # g
    <3>1. th'[h] = th[h] /\ batch'[h] = batch[h] /\ responses'[h] = responses[h]
      BY <1>2, <2>1, <2>2, <2>3 DEF NextEvent, Fail
    <3> QED BY <1>3, <2>1, <3>1
  <2>4. CASE h = g /\ Fail(g)
    BY <1>2, <1>4, <2>4 DEF Fail
  <2>5. CASE h = g /\ NextEvent(g)
    <3>1. /\ th'[g] = "batch" <=> batch'[g] # <<>>
          /\ \A i \in DOMAIN batch'[g] : /\ batch'[g][i] # Head(batch[g])
                                         /\ \E j \in DOMAIN batch[g] :
                                              batch[g][j] = batch'[g][i]
      BY <1>1, <2>1, <2>5, NextEventStep
    <3>2. ASSUME NEW i \in DOMAIN batch'[g]
          PROVE  /\ batch'[g][i] \in {"err", "hup"} => child[g] = "dead"
                 /\ batch'[g][i] = "read" => responses'[g] # <<>>
      <4>1. PICK j \in DOMAIN batch[g] : batch[g][j] = batch'[g][i]
        BY <3>1
      <4>2. batch'[g][i] = "read" => UNCHANGED responses
        BY <2>2, <3>1
      <4> QED BY <1>1, <2>5, <4>1, <4>2 DEF EventsOf
    <3> QED BY <2>1, <2>5, <3>1, <3>2 DEF EventsOf
  <2> QED BY <2>1, <2>3, <2>4, <2>5
<1>8. ASSUME NEW g \in Gen, CommFinally(g) PROVE EventsOf(h)'
  <2>1. CASE h = g
    BY <1>2, <1>4, <1>8, <2>1 DEF CommFinally
  <2>2. CASE h # g
    BY <1>2, <1>3, <1>8, <2>2 DEF CommFinally, KillChild
  <2> QED BY <2>1, <2>2
<1>9. ASSUME NEW g \in Gen, CommRestart(g) PROVE EventsOf(h)'
  <2>1. th[g] = "lock" /\ UNCHANGED <<batch, responses>>
    BY <1>9 DEF CommRestart, commVars
  <2>2. CASE ~RestartNeeded
    BY <1>2, <1>3, <1>9, <2>1, <2>2 DEF CommRestart
  <2>3. CASE RestartNeeded
    <3>1. h = spawned + 1 => th[h] = "none" /\ child[h] = "none"
      BY <1>1, Generations DEF GenerationsInv, TypeOK, SharedOK
    <3> QED BY <1>1, <1>2, <1>3, <1>9, <2>1, <2>3, <3>1, RestartStep
  <2> QED BY <2>2, <2>3
<1>10. ASSUME NEW g \in Gen, CommStart(g) \/ CommAssign(g) \/ CommWait(g) PROVE EventsOf(h)'
  BY <1>2, <1>3, <1>10 DEF CommStart, CommAssign, CommWait, commVars, childVars
<1>11. ASSUME NEW g \in Gen, ChildAnswer(g) PROVE EventsOf(h)'
  <2>1. PICK m \in received[g] : responses' = [responses EXCEPT ![g] = Append(@, m)]
    BY <1>11 DEF ChildAnswer
  <2>2. m \in Message
    BY <1>1, <2>1 DEF TypeOK, GenerationOK
  <2>3. responses[h] # <<>> => responses'[h] # <<>>
    BY <1>2, <2>1, <2>2
  <2> QED BY <1>3, <1>11, <2>3 DEF ChildAnswer, commVars
<1>12. ASSUME NEW g \in Gen, ChildDie(g) PROVE EventsOf(h)'
  BY <1>2, <1>3, <1>12 DEF ChildDie, commVars
<1>13. CASE \/ UNCHANGED vars \/ InitAssign \/ InitWait \/ (\E c \in Call : Caller(c))
            \/ CloseBegin \/ Closer \/ FdReuse \/ Idle
  BY <1>3, <1>13
  DEF vars, InitAssign, InitWait, Caller, CallerPut, CallerPing, CallerReturn, CloseBegin,
      Closer, ClosePing, CloseFds, CloseJoin, FdReuse, Idle, commVars, childVars
<1> QED BY <1>5, <1>6, <1>7, <1>8, <1>9, <1>10, <1>11, <1>12, <1>13 DEF Next, Comm, Constructor

\* A thread takes a command from the queue and registers it under a new id.
Registers(g) == CommEvt(g) /\ dataSender[g] = NotSending /\ commandQueue # <<>>

\* What that step changes: the new id names the command that was at the head of the queue.
LEMMA RegisterStep ==
  ASSUME TypeOK, NEW g \in Gen, Registers(g)
  PROVE  LET c == Head(commandQueue) IN
         /\ c \in Call /\ commandQueue' = Tail(commandQueue) /\ reqId' = reqId + 1
         /\ DOMAIN pending' = Gen /\ reqId + 1 \notin DOMAIN pending[g]
         /\ DOMAIN pending'[g] = DOMAIN pending[g] \cup {reqId + 1}
         /\ pending'[g][reqId + 1] = c
         /\ \A i \in DOMAIN pending[g] : pending'[g][i] = pending[g][i]
         /\ \A h \in Gen \ {g} : pending'[h] = pending[h] /\ dataSender'[h] = dataSender[h]
         /\ dataSender'[g] = [msg |-> [id |-> reqId + 1, call |-> c], left |-> Chunks]
<1>1. commandQueue \in Seq(Call) /\ reqId \in Nat
  BY DEF TypeOK, SharedOK
<1>2. /\ DOMAIN pending = Gen /\ DOMAIN pending[g] \subseteq 1..reqId
      /\ dataSender \in [Gen -> Senders]
  BY DEF TypeOK, GenerationOK
<1> DEFINE c == Head(commandQueue)
<1>3. /\ commandQueue' = Tail(commandQueue) /\ reqId' = reqId + 1
      /\ pending' = [pending EXCEPT ![g] = [i \in DOMAIN pending[g] \cup {reqId + 1} |->
                                              IF i = reqId + 1 THEN c ELSE pending[g][i]]]
      /\ dataSender' = [dataSender EXCEPT
                          ![g] = [msg |-> [id |-> reqId + 1, call |-> c], left |-> Chunks]]
  BY DEF Registers, CommEvt, getRequestId, Sending
<1>4. c \in Call
  BY <1>1 DEF Registers
<1>5. reqId + 1 \notin DOMAIN pending[g]
  BY <1>1, <1>2
<1> HIDE DEF c
<1>6. /\ DOMAIN pending' = Gen
      /\ DOMAIN pending'[g] = DOMAIN pending[g] \cup {reqId + 1}
      /\ pending'[g][reqId + 1] = c
      /\ \A i \in DOMAIN pending[g] : pending'[g][i] = pending[g][i]
      /\ \A h \in Gen \ {g} : pending'[h] = pending[h]
  BY <1>2, <1>3, <1>5
<1>7. /\ \A h \in Gen \ {g} : dataSender'[h] = dataSender[h]
      /\ dataSender'[g] = [msg |-> [id |-> reqId + 1, call |-> c], left |-> Chunks]
  BY <1>2, <1>3
<1> QED BY <1>3, <1>4, <1>5, <1>6, <1>7 DEF c

\* A thread delivers the answer to a request that is registered.
Delivers(g) == CommRead(g) /\ Head(responses[g]).id \in DOMAIN pending[g] /\ ~Fail(g)

\* What that step changes: the caller has the answer, and the id is free.
LEMMA DeliverStep ==
  ASSUME TypeOK, NEW g \in Gen, Delivers(g)
  PROVE  LET m == Head(responses[g]) IN
         /\ result' = [result EXCEPT ![pending[g][m.id]] = m.call]
         /\ DOMAIN pending' = Gen /\ DOMAIN pending'[g] = DOMAIN pending[g] \ {m.id}
         /\ \A i \in DOMAIN pending'[g] : pending'[g][i] = pending[g][i]
         /\ \A h \in Gen \ {g} : pending'[h] = pending[h]
<1> DEFINE m == Head(responses[g])
<1>1. DOMAIN pending = Gen
  BY DEF TypeOK, GenerationOK
<1>2. /\ result' = [result EXCEPT ![pending[g][m.id]] = m.call]
      /\ pending' = [pending EXCEPT ![g] = [i \in DOMAIN pending[g] \ {m.id} |-> pending[g][i]]]
  BY DEF Delivers, CommRead, Deliver
<1> HIDE DEF m
<1> QED BY <1>1, <1>2 DEF m

\* Apart from a registration, a step leaves the ids alone and only forgets requests.
LEMMA OnlyForgets ==
  ASSUME TypeOK, [Next]_vars
  PROVE  \/ \E g \in Gen : Registers(g)
         \/ /\ UNCHANGED reqId
            /\ \A h \in Gen : /\ DOMAIN pending'[h] \subseteq DOMAIN pending[h]
                              /\ \A i \in DOMAIN pending'[h] : pending'[h][i] = pending[h][i]
<1> DEFINE Forgets == /\ UNCHANGED reqId
                      /\ \A h \in Gen :
                           /\ DOMAIN pending'[h] \subseteq DOMAIN pending[h]
                           /\ \A i \in DOMAIN pending'[h] : pending'[h][i] = pending[h][i]
<1>1. CASE UNCHANGED <<reqId, pending>>
  BY <1>1
<1>2. ASSUME NEW g \in Gen, CommEvt(g) PROVE Registers(g) \/ UNCHANGED <<reqId, pending>>
  BY <1>2 DEF CommEvt, Registers
<1>3. ASSUME NEW g \in Gen, Fail(g), UNCHANGED reqId PROVE Forgets
  BY <1>3, FailStep
<1>4. ASSUME NEW g \in Gen, CommRead(g) PROVE Forgets
  <2>1. UNCHANGED reqId
    BY <1>4 DEF CommRead, selfVars
  <2>2. CASE Delivers(g)
    BY <2>1, <2>2, DeliverStep
  <2> QED BY <1>1, <1>3, <1>4, <2>1, <2>2 DEF CommRead, Delivers
<1>5. ASSUME NEW g \in Gen, CommError(g) PROVE Forgets
  BY <1>3, <1>5 DEF CommError, selfVars
<1>6. ASSUME NEW g \in Gen, CommWrite(g) PROVE Forgets
  BY <1>1, <1>3, <1>6 DEF CommWrite
<1>7. ASSUME NEW g \in Gen, CommFinally(g) PROVE Forgets
  <2>1. /\ UNCHANGED reqId /\ DOMAIN pending = Gen
        /\ pending' = [pending EXCEPT ![g] = <<>>]
    BY <1>7 DEF CommFinally, TypeOK, GenerationOK, selfVars
  <2> QED BY <2>1
<1>8. ASSUME NEW g \in Gen, \/ CommStart(g) \/ CommPoll(g) \/ CommRestart(g) \/ CommAssign(g)
                            \/ CommWait(g) \/ ChildAnswer(g) \/ ChildDie(g)
      PROVE  Forgets
  BY <1>1, <1>8 DEF CommStart, CommPoll, CommRestart, CommAssign, CommWait, ChildAnswer, ChildDie,
                    commVars, selfVars
<1>9. CASE \/ UNCHANGED vars \/ Constructor \/ (\E c \in Call : Caller(c))
           \/ CloseBegin \/ Closer \/ FdReuse \/ Idle
  BY <1>1, <1>9
  DEF vars, Constructor, InitRun, InitAssign, InitWait, Caller, CallerPut, CallerPing,
      CallerReturn, CloseBegin, Closer, ClosePing, CloseFds, CloseJoin, FdReuse, Idle, commVars,
      selfVars
<1> HIDE DEF Forgets
<1>10. Forgets \/ \E g \in Gen : Registers(g)
  BY <1>1, <1>2, <1>4, <1>5, <1>6, <1>7, <1>8, <1>9 DEF Next, Comm, Forgets
<1> QED BY <1>10 DEF Forgets

\* Message m fits its request in the next state.
FitsNext(m, g) ==
  m.id \in 1..reqId' /\ (m.id \in DOMAIN pending'[g] => pending'[g][m.id] = m.call)

\* A message fits its request for ever: ids are not used again.
LEMMA FitsStays ==
  ASSUME TypeOK, [Next]_vars, NEW h \in Gen, NEW m, Fits(m, h)
  PROVE  FitsNext(m, h)
<1>1. reqId \in Nat
  BY DEF TypeOK, SharedOK
<1>2. CASE /\ UNCHANGED reqId
           /\ DOMAIN pending'[h] \subseteq DOMAIN pending[h]
           /\ \A i \in DOMAIN pending'[h] : pending'[h][i] = pending[h][i]
  BY <1>2 DEF Fits, FitsNext
<1>3. ASSUME NEW g \in Gen, Registers(g) PROVE FitsNext(m, h)
  <2>1. reqId' = reqId + 1 /\ m.id \in 1..reqId
    BY <1>3, RegisterStep DEF Fits
  <2>2. CASE h = g
    BY <1>1, <1>3, <2>1, <2>2, RegisterStep DEF Fits, FitsNext
  <2>3. CASE h # g
    BY <1>1, <1>3, <2>1, <2>3, RegisterStep DEF Fits, FitsNext
  <2> QED BY <2>2, <2>3
<1> QED BY <1>2, <1>3, OnlyForgets

\* What a thread sends it has registered, a child answers what it was sent, and a message is
\* sent once.
LEMMA RequestsStep == ClientInv /\ [Next]_vars => \A h \in Gen : RequestsOf(h)'
<1> SUFFICES ASSUME ClientInv, [Next]_vars, NEW h \in Gen PROVE RequestsOf(h)'
  OBVIOUS
<1>1. TypeOK /\ MessagesInv /\ RequestsOf(h)
  BY DEF ClientInv, MessagesInv
<1>2. /\ dataSender \in [Gen -> Senders] /\ received \in [Gen -> SUBSET Message]
      /\ responses \in [Gen -> Seq(Message)] /\ reqId \in Nat
  BY <1>1 DEF TypeOK, GenerationOK, SharedOK
<1>3. \A m : Fits(m, h) => FitsNext(m, h)
  BY <1>1, FitsStays
<1>4. ASSUME dataSender'[h] = dataSender[h] \/ dataSender'[h] = NotSending,
             received'[h] \subseteq received[h],
             \A i \in DOMAIN responses'[h] : FitsNext(responses'[h][i], h)
      PROVE  RequestsOf(h)'
  <2>1. NotSending.left = 0
    BY DEF NotSending, Sending
  <2> QED BY <1>1, <1>3, <1>4, <2>1 DEF RequestsOf, FitsNext, Fits
<1>5. \A i \in DOMAIN responses[h] : FitsNext(responses[h][i], h)
  BY <1>1, <1>3 DEF RequestsOf
<1>6. CASE /\ dataSender'[h] = dataSender[h] \/ dataSender'[h] = NotSending
           /\ received'[h] \subseteq received[h] /\ responses'[h] = responses[h]
  BY <1>4, <1>5, <1>6
<1>7. ASSUME NEW g \in Gen, CommEvt(g) PROVE RequestsOf(h)'
  <2>1. UNCHANGED <<received, responses>>
    BY <1>7 DEF CommEvt, childVars
  <2>2. CASE Registers(g) /\ h = g
    <3> DEFINE c == Head(commandQueue)
    <3>1. /\ dataSender'[g] = [msg |-> [id |-> reqId + 1, call |-> c], left |-> Chunks]
          /\ reqId' = reqId + 1 /\ pending'[g][reqId + 1] = c /\ c \in Call
      BY <1>1, <2>2, RegisterStep
    <3> HIDE DEF c
    <3>2. dataSender'[g].msg \in Message /\ FitsNext(dataSender'[g].msg, g)
      BY <1>2, <3>1 DEF FitsNext, Message
    <3>3. \A m \in received[g] : FitsNext(m, g) /\ m.id # dataSender'[g].msg.id
      BY <1>1, <1>2, <1>3, <2>2, <3>1 DEF RequestsOf, Fits
    <3> QED BY <1>5, <2>1, <2>2, <3>2, <3>3 DEF RequestsOf, Fits, FitsNext
  <2>3. CASE ~(Registers(g) /\ h = g)
    <3>1. dataSender'[h] = dataSender[h]
      BY <1>1, <1>7, <2>3, RegisterStep DEF CommEvt, Registers
    <3> QED BY <1>6, <2>1, <3>1
  <2> QED BY <2>2, <2>3
<1>8. ASSUME NEW g \in Gen, CommRead(g) PROVE RequestsOf(h)'
  <2>1. UNCHANGED <<dataSender, received>>
    BY <1>8 DEF CommRead
  <2>2. /\ responses[g] # <<>> /\ responses[g] \in Seq(Message)
        /\ responses' = [responses EXCEPT ![g] = Tail(@)]
    BY <1>1, <1>2, <1>8, BatchTail
    DEF TypeOK, GenerationOK, CommRead, Event, MessagesInv, EventsOf
  <2>3. \A i \in DOMAIN responses'[h] : \E j \in DOMAIN responses[h] :
          responses'[h][i] = responses[h][j]
    <3>1. CASE h = g
      <4>1. \A i \in DOMAIN Tail(responses[g]) : /\ i + 1 \in DOMAIN responses[g]
                                                /\ responses[g][i + 1] = Tail(responses[g])[i]
        BY <2>2
      <4> QED BY <1>2, <2>2, <3>1, <4>1
    <3>2. CASE h # g
      BY <1>2, <2>2, <3>2
    <3> QED BY <3>1, <3>2
  <2> QED BY <1>4, <1>5, <2>1, <2>3
<1>9. ASSUME NEW g \in Gen, CommWrite(g) PROVE RequestsOf(h)'
  <2>1. UNCHANGED responses
    BY <1>9 DEF CommWrite
  <2>2. CASE /\ dataSender' \in {dataSender, [dataSender EXCEPT ![g] = NotSending]}
             /\ UNCHANGED received
    BY <1>2, <1>6, <2>1, <2>2
  <2>3. CASE /\ ~Sent(g) /\ dataSender' = [dataSender EXCEPT ![g].left = @ - 1]
             /\ received' = IF dataSender[g].left = 1
                            THEN [received EXCEPT ![g] = @ \cup {dataSender[g].msg}]
                            ELSE received
    <3>1. CASE h # g
      BY <1>2, <1>6, <2>1, <2>3, <3>1
    <3>2. CASE h = g
      <4>1. dataSender[g] \in Senders /\ dataSender[g].left # 0
        BY <1>2, <2>3 DEF Sent
      <4>2. /\ dataSender[g] # NotSending /\ dataSender[g].left \in Nat \ {0}
            /\ dataSender'[g].left = dataSender[g].left - 1
            /\ dataSender'[g].msg = dataSender[g].msg
        BY <1>2, <2>3, <4>1, ConstantsAssumption DEF NotSending, Sending, Senders
      <4>3. dataSender[g].msg \in Message /\ FitsNext(dataSender[g].msg, g)
        BY <1>1, <1>3, <3>2, <4>2 DEF RequestsOf
      <4>4. ASSUME NEW m \in received'[g]
            PROVE  FitsNext(m, g) /\ (dataSender'[g].left > 0 => m.id # dataSender'[g].msg.id)
        BY <1>1, <1>2, <1>3, <2>3, <3>2, <4>2, <4>3, <4>4 DEF RequestsOf
      <4> QED BY <1>5, <2>1, <3>2, <4>2, <4>3, <4>4 DEF RequestsOf, Fits, FitsNext
    <3> QED BY <3>1, <3>2
  <2> QED BY <1>9, <2>2, <2>3 DEF CommWrite
<1>10. ASSUME NEW g \in Gen, CommFinally(g) PROVE RequestsOf(h)'
  <2>1. CASE h = g
    <3>1. dataSender'[h] = NotSending /\ received'[h] = {} /\ responses'[h] = <<>>
      BY <1>2, <1>10, <2>1 DEF CommFinally
    <3> QED BY <1>4, <3>1
  <2>2. CASE h # g
    BY <1>2, <1>6, <1>10, <2>2 DEF CommFinally
  <2> QED BY <2>1, <2>2
<1>11. ASSUME NEW g \in Gen, ChildAnswer(g) PROVE RequestsOf(h)'
  <2>1. PICK m \in received[g] : /\ received' = [received EXCEPT ![g] = @ \ {m}]
                                 /\ responses' = [responses EXCEPT ![g] = Append(@, m)]
    BY <1>11 DEF ChildAnswer
  <2>2. CASE h # g
    BY <1>2, <1>6, <1>11, <2>1, <2>2 DEF ChildAnswer, commVars
  <2>3. CASE h = g
    <3>1. FitsNext(m, h) /\ m \in Message
      BY <1>1, <1>2, <1>3, <2>3 DEF RequestsOf
    <3>2. \A i \in DOMAIN responses'[h] : FitsNext(responses'[h][i], h)
      <4>1. responses'[h] = Append(responses[h], m)
        BY <1>2, <2>1, <2>3
      <4>2. \A i \in DOMAIN Append(responses[h], m) :
              \/ i \in DOMAIN responses[h] /\ Append(responses[h], m)[i] = responses[h][i]
              \/ Append(responses[h], m)[i] = m
        BY <1>2, <3>1
      <4> QED BY <1>5, <3>1, <4>1, <4>2
    <3>3. UNCHANGED dataSender /\ received'[h] \subseteq received[h]
      BY <1>2, <1>11, <2>1, <2>3 DEF ChildAnswer, commVars
    <3> QED BY <1>4, <3>2, <3>3
  <2> QED BY <2>2, <2>3
<1>12. ASSUME NEW g \in Gen, \/ CommStart(g) \/ CommPoll(g) \/ CommError(g) \/ CommRestart(g)
                             \/ CommAssign(g) \/ CommWait(g) \/ ChildDie(g)
       PROVE  RequestsOf(h)'
  BY <1>6, <1>12 DEF CommStart, CommPoll, CommError, CommRestart, CommAssign, CommWait, ChildDie,
                     commVars, childVars
<1>13. CASE \/ UNCHANGED vars \/ Constructor \/ (\E c \in Call : Caller(c))
            \/ CloseBegin \/ Closer \/ FdReuse \/ Idle
  BY <1>6, <1>13
  DEF vars, Constructor, InitRun, InitAssign, InitWait, Caller, CallerPut, CallerPing,
      CallerReturn, CloseBegin, Closer, ClosePing, CloseFds, CloseJoin, FdReuse, Idle, commVars,
      childVars
<1> QED BY <1>7, <1>8, <1>9, <1>10, <1>11, <1>12, <1>13 DEF Next, Comm

\* A thread leaves its loop while the client runs only after its cleanup has answered
\* everything, and its finally block forgets the rest.
LEMMA OwedStep == ClientInv /\ [Next]_vars => \A h \in Gen : NothingOwed(h)'
<1> SUFFICES ASSUME ClientInv, [Next]_vars, NEW h \in Gen PROVE NothingOwed(h)'
  OBVIOUS
<1>1. TypeOK /\ GenerationsInv /\ MessagesInv /\ NothingOwed(h)
  BY DEF ClientInv, MessagesInv
<1>2. /\ th \in [Gen -> Threads] /\ DOMAIN pending = Gen
      /\ received \in [Gen -> SUBSET Message] /\ responses \in [Gen -> Seq(Message)]
  BY <1>1 DEF TypeOK, GenerationOK
<1>3. ASSUME th'[h] = th[h], DOMAIN pending'[h] \subseteq DOMAIN pending[h],
             isRunning' = "yes" => isRunning = "yes",
             responses'[h] = responses[h], received'[h] = received[h]
      PROVE  NothingOwed(h)'
  BY <1>1, <1>3 DEF NothingOwed
<1>4. ASSUME th'[h] \notin {"none", "start"}, DOMAIN pending'[h] = {} PROVE NothingOwed(h)'
  BY <1>4 DEF NothingOwed
<1>5. ASSUME th'[h] \in {"poll", "batch", "leaked"} PROVE NothingOwed(h)'
  BY <1>5 DEF NothingOwed
<1>6. CASE InitRun
  <2>1. /\ th[h] = "none" /\ th' = [th EXCEPT ![1] = "start"]
        /\ UNCHANGED <<pending, responses, received, isRunning>>
    BY <1>1, <1>6, Generations DEF GenerationsInv, InitRun, Run, commVars
  <2> QED BY <1>1, <1>2, <2>1 DEF NothingOwed
<1>7. ASSUME NEW g \in Gen, CommStart(g) PROVE NothingOwed(h)'
  <2>1. /\ UNCHANGED <<pending, responses, received, isRunning>> /\ th[g] = "start"
        /\ th' \in {[th EXCEPT ![g] = x] : x \in {"leaked", "poll", "fin"}}
    BY <1>7 DEF CommStart, commVars, childVars
  <2>2. CASE h = g
    BY <1>1, <1>2, <1>4, <2>1, <2>2 DEF NothingOwed
  <2>3. CASE h # g
    BY <1>2, <1>3, <2>1, <2>3
  <2> QED BY <2>2, <2>3
<1>8. ASSUME NEW g \in Gen, CommPoll(g) PROVE NothingOwed(h)'
  <2>1. UNCHANGED <<pending, responses, received, isRunning>>
    BY <1>8 DEF CommPoll, selfVars, childVars
  <2>2. \/ isRunning = "no" /\ th' = [th EXCEPT ![g] = "fin"]
        \/ th' = [th EXCEPT ![g] = "batch"]
    BY <1>8 DEF CommPoll, ShutdownRequested
  <2>3. CASE h = g
    BY <1>2, <2>1, <2>2, <2>3 DEF NothingOwed
  <2>4. CASE h # g
    BY <1>2, <1>3, <2>1, <2>2, <2>4
  <2> QED BY <2>3, <2>4
<1>9. ASSUME NEW g \in Gen, CommError(g) \/ CommEvt(g) \/ CommRead(g) \/ CommWrite(g)
      PROVE  NothingOwed(h)'
  <2>1. th[g] = "batch" /\ UNCHANGED isRunning /\ (NextEvent(g) \/ Fail(g))
    BY <1>9 DEF CommError, CommEvt, CommRead, CommWrite, Event, selfVars
  <2>2. h # g => responses'[h] = responses[h] /\ received'[h] = received[h]
    BY <1>2, <1>9 DEF CommError, CommEvt, CommRead, CommWrite, childVars
  <2>3. h # g => DOMAIN pending'[h] \subseteq DOMAIN pending[h] /\ th'[h] = th[h]
    <3>1. ASSUME NEW k \in Gen, Registers(k) PROVE k = g
      <4>1. th[k] = "batch"
        BY <3>1 DEF Registers, CommEvt, Event
      <4> QED BY <1>1, <2>1, <4>1 DEF GenerationsInv
    <3>2. h # g => DOMAIN pending'[h] \subseteq DOMAIN pending[h]
      BY <1>1, <3>1, OnlyForgets, RegisterStep
    <3>3. h # g => th'[h] = th[h]
      BY <1>2, <2>1 DEF NextEvent, Fail
    <3> QED BY <3>2, <3>3
  <2>4. CASE h # g
    BY <1>3, <2>1, <2>2, <2>3, <2>4
  <2>5. CASE h = g /\ Fail(g)
    BY <1>1, <1>2, <1>4, <2>5, FailStep
  <2>6. CASE h = g /\ NextEvent(g)
    BY <1>1, <1>5, <2>1, <2>6, NextEventStep
  <2> QED BY <2>1, <2>4, <2>5, <2>6
<1>10. ASSUME NEW g \in Gen, CommFinally(g) PROVE NothingOwed(h)'
  <2>1. CASE h = g
    <3>1. th'[h] \in {"lock", "done"} /\ pending'[h] = <<>>
      BY <1>2, <1>10, <2>1 DEF CommFinally
    <3>2. DOMAIN pending'[h] = {}
      BY <3>1
    <3> QED BY <1>4, <3>1, <3>2
  <2>2. CASE h # g
    BY <1>2, <1>3, <1>10, <2>2 DEF CommFinally, selfVars
  <2> QED BY <2>1, <2>2
<1>11. ASSUME NEW g \in Gen, CommRestart(g) PROVE NothingOwed(h)'
  <2>1. /\ th[g] = "lock" /\ UNCHANGED <<pending, responses, received, isRunning>>
        /\ DOMAIN pending[g] = {}
    BY <1>1, <1>11 DEF CommRestart, commVars, MessagesInv, NothingOwed
  <2>2. CASE ~RestartNeeded
    <3>1. th' = [th EXCEPT ![g] = "done"]
      BY <1>11, <2>2 DEF CommRestart
    <3> QED BY <1>2, <1>3, <1>4, <2>1, <3>1
  <2>3. CASE RestartNeeded
    <3>1. h = spawned + 1 => th[h] = "none"
      BY <1>1, Generations DEF GenerationsInv, TypeOK, SharedOK
    <3>2. th'[h] = IF h = spawned + 1 THEN "start" ELSE IF h = g THEN "assign" ELSE th[h]
      BY <1>1, <1>11, <2>3, RestartStep
    <3> QED BY <1>1, <2>1, <3>1, <3>2 DEF NothingOwed
  <2> QED BY <2>2, <2>3
<1>12. ASSUME NEW g \in Gen, CommAssign(g) \/ CommWait(g) PROVE NothingOwed(h)'
  <2>1. /\ th[g] \in {"assign", "wait"} /\ UNCHANGED <<pending, responses, received, isRunning>>
        /\ th' \in {[th EXCEPT ![g] = x] : x \in {"wait", "done"}}
    BY <1>12 DEF CommAssign, CommWait, commVars, childVars
  <2> QED BY <1>1, <1>2, <2>1 DEF NothingOwed
<1>13. ASSUME NEW g \in Gen, ChildAnswer(g) PROVE NothingOwed(h)'
  <2>1. received[g] # {} /\ UNCHANGED <<th, pending, isRunning>>
    BY <1>13 DEF ChildAnswer, selfVars, commVars
  <2>2. h # g => responses'[h] = responses[h] /\ received'[h] = received[h]
    BY <1>2, <1>13 DEF ChildAnswer
  <2>3. CASE h = g
    BY <1>1, <2>1, <2>3 DEF NothingOwed
  <2> QED BY <1>3, <2>1, <2>2, <2>3
<1>14. ASSUME NEW g \in Gen, ChildDie(g) PROVE NothingOwed(h)'
  BY <1>3, <1>14 DEF ChildDie, selfVars, commVars
<1>15. CASE \/ UNCHANGED vars \/ InitAssign \/ InitWait \/ (\E c \in Call : Caller(c))
            \/ CloseBegin \/ Closer \/ FdReuse \/ Idle
  BY <1>3, <1>15
  DEF vars, InitAssign, InitWait, Caller, CallerPut, CallerPing, CallerReturn, CloseBegin,
      Closer, ClosePing, CloseFds, CloseJoin, FdReuse, Idle, commVars, childVars, selfVars
<1> QED BY <1>6, <1>7, <1>8, <1>9, <1>10, <1>11, <1>12, <1>13, <1>14, <1>15
        DEF Next, Comm, Constructor

-----------------------------------------------------------------------------
(* Where a call is *)

In(q, c)    == \E i \in DOMAIN q : q[i] = c
Distinct(q) == \A i, j \in DOMAIN q : q[i] = q[j] => i = j

\* A call that is put at the end of the queue ...
LEMMA QueueAppend ==
  ASSUME NEW q \in Seq(Call), NEW x \in Call, ~In(q, x), Distinct(q)
  PROVE  Distinct(Append(q, x)) /\ \A c : In(Append(q, x), c) <=> In(q, c) \/ c = x
<1>1. /\ \A i \in DOMAIN q : i \in DOMAIN Append(q, x) /\ Append(q, x)[i] = q[i]
      /\ Len(q) + 1 \in DOMAIN Append(q, x) /\ Append(q, x)[Len(q) + 1] = x
      /\ \A i \in DOMAIN Append(q, x) : i = Len(q) + 1 \/ i \in DOMAIN q
  OBVIOUS
<1>2. Distinct(Append(q, x))
  BY <1>1 DEF In, Distinct
<1> QED BY <1>1, <1>2 DEF In

\* ... and one that is taken from its front.
LEMMA QueueTail ==
  ASSUME NEW q \in Seq(Call), q # <<>>, Distinct(q)
  PROVE  /\ Distinct(Tail(q)) /\ In(q, Head(q))
         /\ \A c : In(Tail(q), c) <=> In(q, c) /\ c # Head(q)
<1>1. /\ 1 \in DOMAIN q /\ q[1] = Head(q)
      /\ \A i \in DOMAIN Tail(q) : i \in Int /\ i # 0 /\ i + 1 \in DOMAIN q
                                     /\ q[i + 1] = Tail(q)[i]
      /\ \A i \in DOMAIN q : i = 1 \/ (i - 1 \in DOMAIN Tail(q) /\ Tail(q)[i - 1] = q[i])
  OBVIOUS
<1>2. Distinct(Tail(q))
  BY <1>1 DEF Distinct
<1>3. \A c : In(Tail(q), c) => In(q, c) /\ c # Head(q)
  BY <1>1 DEF In, Distinct
<1>4. \A c : In(q, c) /\ c # Head(q) => In(Tail(q), c)
  BY <1>1 DEF In
<1> QED BY <1>1, <1>2, <1>3, <1>4 DEF In

\* A step that moves nothing but answered, or forgotten, requests out of pendingRequests.
LEMMA PlacesSettle ==
  ASSUME TypeOK, PlacesInv, UNCHANGED <<commandQueue, reqId>>,
         \A c \in Call : /\ caller'[c] = "idle" <=> caller[c] = "idle"
                         /\ caller'[c] = "done" => caller[c] = "done" \/ result[c] # NoResult,
         isRunning' = "yes" => isRunning = "yes", init' # "ready" => init # "ready",
         \A h \in Gen : /\ DOMAIN pending'[h] \subseteq DOMAIN pending[h]
                        /\ \A i \in DOMAIN pending'[h] : pending'[h][i] = pending[h][i],
         \A c \in Call :
           \/ /\ result'[c] = result[c]
              /\ Registered(c) /\ isRunning' = "yes" => Registered(c)'
           \/ Registered(c) /\ ~Registered(c)' /\ result'[c] \in {Crashed, c}
  PROVE  PlacesInv'
<1>1. \A c \in Call : /\ Queued(c)' <=> Queued(c)
                      /\ Registered(c)' => Registered(c)
                      /\ c # NoResult /\ Crashed # NoResult
  BY ConstantsAssumption DEF Queued, Registered, NoResult, Crashed
<1>2. /\ \A i, j \in DOMAIN commandQueue' : commandQueue'[i] = commandQueue'[j] => i = j
      /\ \A g, h \in Gen : \A i \in DOMAIN pending'[g], j \in DOMAIN pending'[h] :
           pending'[g][i] = pending'[h][j] => g = h /\ i = j
  BY DEF PlacesInv
<1>3. ASSUME NEW c \in Call
      PROVE  /\ Queued(c)' => ~Registered(c)'
             /\ Queued(c)' \/ Registered(c)' => result'[c] = NoResult /\ caller'[c] # "idle"
             /\ result'[c] \in {NoResult, Crashed, c}
             /\ caller'[c] = "idle" => result'[c] = NoResult
             /\ caller'[c] = "done" => result'[c] # NoResult
             /\ init' # "ready" => caller'[c] = "idle"
             /\ isRunning' = "yes" /\ caller'[c] # "idle" =>
                  Queued(c)' \/ Registered(c)' \/ result'[c] # NoResult
  BY <1>1 DEF PlacesInv
<1>4. reqId' = Cardinality({c \in Call : caller'[c] # "idle" /\ ~Queued(c)'})
  <2>1. {c \in Call : caller'[c] # "idle" /\ ~Queued(c)'}
          = {c \in Call : caller[c] # "idle" /\ ~Queued(c)}
    BY <1>1
  <2> QED BY <2>1 DEF PlacesInv
<1> QED BY <1>2, <1>3, <1>4 DEF PlacesInv

\* Every step keeps each command in at most one place.
LEMMA PlacesStep == ClientInv /\ [Next]_vars => PlacesInv'
<1> SUFFICES ASSUME ClientInv, [Next]_vars PROVE PlacesInv'
  OBVIOUS
<1>1. TypeOK /\ GenerationsInv /\ MessagesInv /\ PlacesInv
  BY DEF ClientInv
<1>2. /\ commandQueue \in Seq(Call) /\ reqId \in Nat /\ isRunning \in {"yes", "no"}
      /\ caller \in [Call -> {"idle", "put", "wait", "done", "Timeout", "Closed"}]
      /\ result \in [Call -> Call \cup {NoResult, Crashed}] /\ DOMAIN pending = Gen
      /\ \A g \in Gen : \A i \in DOMAIN pending[g] : pending[g][i] \in Call
  BY <1>1 DEF TypeOK, SharedOK, GenerationOK
<1>3. CASE /\ UNCHANGED <<commandQueue, reqId, caller, isRunning, pending, result>>
           /\ init' # "ready" => init # "ready"
  <2>1. \A c \in Call : Registered(c)' <=> Registered(c)
    BY <1>3 DEF Registered
  <2> QED BY <1>1, <1>3, <2>1, PlacesSettle
<1>4. ASSUME NEW x \in Call, CallerPut(x) PROVE PlacesInv'
  <2>1. /\ commandQueue' = Append(commandQueue, x) /\ caller' = [caller EXCEPT ![x] = "put"]
        /\ caller[x] = "idle" /\ UNCHANGED <<reqId, isRunning, pending, result, init>>
        /\ init = "ready"
    BY <1>4 DEF CallerPut, commVars
  <2>2. ~Queued(x) /\ ~Registered(x) /\ result[x] = NoResult
    BY <1>1, <2>1 DEF PlacesInv
  <2>3. /\ \A i, j \in DOMAIN commandQueue' : commandQueue'[i] = commandQueue'[j] => i = j
        /\ \A c \in Call : Queued(c)' <=> Queued(c) \/ c = x
    <3>1. Distinct(commandQueue) /\ ~In(commandQueue, x)
      BY <1>1, <2>2 DEF PlacesInv, Distinct, Queued, In
    <3>2. /\ Distinct(commandQueue')
          /\ \A c \in Call : In(commandQueue', c) <=> In(commandQueue, c) \/ c = x
      BY <1>2, <2>1, <3>1, QueueAppend
    <3> QED BY <3>2 DEF Queued, In, Distinct
  <2>4. \A c \in Call : Registered(c)' <=> Registered(c)
    BY <2>1 DEF Registered
  <2>5. ASSUME NEW c \in Call
        PROVE  /\ Queued(c)' => ~Registered(c)'
               /\ Queued(c)' \/ Registered(c)' => result'[c] = NoResult /\ caller'[c] # "idle"
               /\ result'[c] \in {NoResult, Crashed, c}
               /\ caller'[c] = "idle" => result'[c] = NoResult
               /\ caller'[c] = "done" => result'[c] # NoResult
               /\ init' # "ready" => caller'[c] = "idle"
               /\ isRunning' = "yes" /\ caller'[c] # "idle" =>
                    Queued(c)' \/ Registered(c)' \/ result'[c] # NoResult
    BY <1>1, <1>2, <2>1, <2>2, <2>3, <2>4 DEF PlacesInv
  <2>6. {c \in Call : caller'[c] # "idle" /\ ~Queued(c)'}
          = {c \in Call : caller[c] # "idle" /\ ~Queued(c)}
    BY <1>2, <2>1, <2>3
  <2>7. reqId' = Cardinality({c \in Call : caller'[c] # "idle" /\ ~Queued(c)'})
    BY <1>1, <2>1, <2>6 DEF PlacesInv
  <2>8. \A g, h \in Gen : \A i \in DOMAIN pending'[g], j \in DOMAIN pending'[h] :
          pending'[g][i] = pending'[h][j] => g = h /\ i = j
    BY <1>1, <2>1 DEF PlacesInv
  <2> QED BY <2>3, <2>5, <2>7, <2>8 DEF PlacesInv
<1>5. ASSUME NEW x \in Call, CallerPing(x) \/ CallerReturn(x) PROVE PlacesInv'
  <2>1. /\ UNCHANGED <<commandQueue, reqId, isRunning, pending, result, init>>
        /\ caller[x] \in {"put", "wait"}
        /\ caller' \in {[caller EXCEPT ![x] = v] : v \in {"wait", "Closed", "done", "Timeout"}}
    BY <1>5 DEF CallerPing, CallerReturn, selfVars, commVars
  <2>2. \A c \in Call : /\ caller'[c] = "idle" <=> caller[c] = "idle"
                        /\ caller'[c] = "done" => caller[c] = "done" \/ result[c] # NoResult
    BY <1>2, <1>5, <2>1 DEF CallerPing, CallerReturn
  <2>3. \A c \in Call : Registered(c)' <=> Registered(c)
    BY <2>1 DEF Registered
  <2> QED BY <1>1, <2>1, <2>2, <2>3, PlacesSettle
<1>6. CASE CloseBegin
  <2>1. UNCHANGED <<commandQueue, reqId, pending, result, caller, init>> /\ isRunning' = "no"
    BY <1>6 DEF CloseBegin, callerVars, commVars
  <2> QED BY <1>1, <2>1, PlacesSettle
<1>7. ASSUME NEW g \in Gen, Registers(g) PROVE PlacesInv'
  <2>1. commandQueue # <<>> /\ UNCHANGED <<caller, isRunning, result, init>>
    BY <1>7 DEF Registers, CommEvt, callerVars
  <2> PICK x \in Call : x = Head(commandQueue)
    BY <1>2, <2>1
  <2>2. /\ commandQueue' = Tail(commandQueue) /\ reqId' = reqId + 1
        /\ reqId + 1 \notin DOMAIN pending[g]
        /\ DOMAIN pending'[g] = DOMAIN pending[g] \cup {reqId + 1}
        /\ pending'[g][reqId + 1] = x
        /\ \A i \in DOMAIN pending[g] : pending'[g][i] = pending[g][i]
        /\ \A h \in Gen \ {g} : pending'[h] = pending[h]
    BY <1>1, <1>7, RegisterStep
  <2>3. /\ \A i, j \in DOMAIN commandQueue' : commandQueue'[i] = commandQueue'[j] => i = j
        /\ \A c \in Call : Queued(c)' <=> Queued(c) /\ c # x
        /\ Queued(x)
    <3>1. Distinct(commandQueue)
      BY <1>1 DEF PlacesInv, Distinct
    <3>2. /\ Distinct(commandQueue') /\ In(commandQueue, x)
          /\ \A c \in Call : In(commandQueue', c) <=> In(commandQueue, c) /\ c # x
      BY <1>2, <2>1, <2>2, <3>1, QueueTail
    <3> QED BY <3>2 DEF Queued, In, Distinct
  <2>4. ~Registered(x) /\ result[x] = NoResult /\ caller[x] # "idle"
    BY <1>1, <2>2, <2>3 DEF PlacesInv
  <2>5. ASSUME NEW h \in Gen, NEW i \in DOMAIN pending'[h]
        PROVE  \/ i \in DOMAIN pending[h] /\ pending'[h][i] = pending[h][i] /\ pending'[h][i] # x
               \/ h = g /\ i = reqId + 1 /\ pending'[h][i] = x
    BY <2>2, <2>4, <2>5 DEF Registered
  <2>6. \A h, k \in Gen : \A i \in DOMAIN pending'[h], j \in DOMAIN pending'[k] :
          pending'[h][i] = pending'[k][j] => h = k /\ i = j
    <3>1. \A h, k \in Gen : \A i \in DOMAIN pending[h], j \in DOMAIN pending[k] :
            pending[h][i] = pending[k][j] => h = k /\ i = j
      BY <1>1 DEF PlacesInv
    <3> SUFFICES ASSUME NEW h \in Gen, NEW k \in Gen,
                        NEW i \in DOMAIN pending'[h], NEW j \in DOMAIN pending'[k],
                        pending'[h][i] = pending'[k][j]
                 PROVE  h = k /\ i = j
      OBVIOUS
    <3>2. CASE pending'[h][i] = x
      BY <2>5, <3>2, Zenon
    <3>3. CASE pending'[h][i] # x
      <4>1. i \in DOMAIN pending[h] /\ pending'[h][i] = pending[h][i]
        BY <2>5, <3>3, Zenon
      <4>2. j \in DOMAIN pending[k] /\ pending'[k][j] = pending[k][j]
        BY <2>5, <3>3, Zenon
      <4>3. pending[h][i] = pending[k][j]
        BY <4>1, <4>2
      <4> QED BY <3>1, <4>1, <4>2, <4>3
    <3> QED BY <3>2, <3>3
  <2>7. \A c \in Call : Registered(c)' <=> Registered(c) \/ c = x
    <3>1. \A c \in Call : Registered(c)' => Registered(c) \/ c = x
      BY <2>5 DEF Registered
    <3>2. ASSUME NEW c \in Call, Registered(c) PROVE Registered(c)'
      <4>1. PICK h \in Gen : \E i \in DOMAIN pending[h] : pending[h][i] = c
        BY <3>2 DEF Registered
      <4>2. PICK i \in DOMAIN pending[h] : pending[h][i] = c
        BY <4>1
      <4>3. i \in DOMAIN pending'[h] /\ pending'[h][i] = c
        BY <2>2, <4>2
      <4> QED BY <4>3 DEF Registered
    <3>3. Registered(x)'
      BY <2>2 DEF Registered
    <3> QED BY <3>1, <3>2, <3>3
  <2>8. ASSUME NEW c \in Call
        PROVE  /\ Queued(c)' => ~Registered(c)'
               /\ Queued(c)' \/ Registered(c)' => result'[c] = NoResult /\ caller'[c] # "idle"
               /\ result'[c] \in {NoResult, Crashed, c}
               /\ caller'[c] = "idle" => result'[c] = NoResult
               /\ caller'[c] = "done" => result'[c] # NoResult
               /\ init' # "ready" => caller'[c] = "idle"
               /\ isRunning' = "yes" /\ caller'[c] # "idle" =>
                    Queued(c)' \/ Registered(c)' \/ result'[c] # NoResult
    BY <1>1, <1>2, <2>1, <2>3, <2>4, <2>7 DEF PlacesInv
  <2>9. reqId' = Cardinality({c \in Call : caller'[c] # "idle" /\ ~Queued(c)'})
    <3> DEFINE Before == {c \in Call : caller[c] # "idle" /\ ~Queued(c)}
    <3>1. {c \in Call : caller'[c] # "idle" /\ ~Queued(c)'} = Before \cup {x} /\ x \notin Before
      BY <1>2, <2>1, <2>2, <2>3, <2>4
    <3>2. IsFiniteSet(Before)
      BY ConstantsAssumption, FS_Subset
    <3>3. Cardinality(Before \cup {x}) = Cardinality(Before) + 1
      BY <3>1, <3>2, FS_AddElement
    <3> QED BY <1>1, <2>2, <3>1, <3>3 DEF PlacesInv
  <2> QED BY <2>3, <2>6, <2>8, <2>9 DEF PlacesInv
<1>8. ASSUME NEW g \in Gen, Fail(g), UNCHANGED <<commandQueue, reqId, caller, isRunning, init>>
      PROVE  PlacesInv'
  <2>1. DOMAIN pending'[g] = {} /\ \A h \in Gen \ {g} : pending'[h] = pending[h]
    BY <1>1, <1>8, FailStep
  <2>2. ASSUME NEW c \in Call
        PROVE  \/ /\ result'[c] = result[c]
                  /\ Registered(c) /\ isRunning' = "yes" => Registered(c)'
               \/ Registered(c) /\ ~Registered(c)' /\ result'[c] \in {Crashed, c}
    <3>1. CASE \E i \in DOMAIN pending[g] : pending[g][i] = c
      <4>1. Registered(c) /\ result'[c] = Crashed
        BY <1>8, <3>1 DEF Fail, Registered
      <4>2. ~Registered(c)'
        BY <1>1, <2>1, <3>1 DEF Registered, PlacesInv
      <4> QED BY <4>1, <4>2
    <3>2. CASE ~\E i \in DOMAIN pending[g] : pending[g][i] = c
      <4>1. result'[c] = result[c]
        BY <1>8, <3>2 DEF Fail
      <4>2. Registered(c) => Registered(c)'
        BY <2>1, <3>2 DEF Registered
      <4> QED BY <4>1, <4>2
    <3> QED BY <3>1, <3>2
  <2>3. \A h \in Gen : /\ DOMAIN pending'[h] \subseteq DOMAIN pending[h]
                       /\ \A i \in DOMAIN pending'[h] : pending'[h][i] = pending[h][i]
    BY <2>1
  <2> QED BY <1>1, <1>8, <2>2, <2>3, PlacesSettle
<1>9. ASSUME NEW g \in Gen, Delivers(g) PROVE PlacesInv'
  <2> DEFINE m == Head(responses[g])
             x == pending[g][m.id]
  <2>1. /\ m.id \in DOMAIN pending[g] /\ UNCHANGED <<commandQueue, reqId, caller, isRunning, init>>
    BY <1>9 DEF Delivers, CommRead, selfVars, callerVars
  <2>2. /\ result' = [result EXCEPT ![x] = m.call]
        /\ DOMAIN pending'[g] = DOMAIN pending[g] \ {m.id}
        /\ \A i \in DOMAIN pending'[g] : pending'[g][i] = pending[g][i]
        /\ \A h \in Gen \ {g} : pending'[h] = pending[h]
    BY <1>1, <1>9, DeliverStep
  <2>3. x = m.call
    <3>1. responses[g] # <<>> /\ responses[g] \in Seq(Message)
      BY <1>1, <1>9, BatchTail
      DEF TypeOK, GenerationOK, Delivers, CommRead, Event, MessagesInv, EventsOf
    <3>2. 1 \in DOMAIN responses[g] /\ responses[g][1] = m
      BY <3>1
    <3>3. Fits(m, g)
      BY <1>1, <3>2 DEF MessagesInv, RequestsOf
    <3> QED BY <2>1, <3>3 DEF Fits
  <2> HIDE DEF m
  <2>4. ASSUME NEW c \in Call
        PROVE  \/ /\ result'[c] = result[c]
                  /\ Registered(c) /\ isRunning' = "yes" => Registered(c)'
               \/ Registered(c) /\ ~Registered(c)' /\ result'[c] \in {Crashed, c}
    <3>1. CASE c = x
      <4>1. Registered(c) /\ result'[c] = c
        BY <1>2, <2>1, <2>2, <2>3, <3>1 DEF Registered
      <4>2. ~Registered(c)'
        BY <1>1, <2>1, <2>2, <3>1 DEF Registered, PlacesInv
      <4> QED BY <4>1, <4>2
    <3>2. CASE c # x
      <4>1. result'[c] = result[c]
        BY <1>2, <2>2, <3>2
      <4>2. ASSUME NEW h \in Gen, NEW i \in DOMAIN pending[h], pending[h][i] = c
            PROVE  i \in DOMAIN pending'[h] /\ pending'[h][i] = c
        BY <2>2, <3>2, <4>2
      <4>3. Registered(c) => Registered(c)'
        BY <4>2 DEF Registered
      <4> QED BY <4>1, <4>3
    <3> QED BY <3>1, <3>2
  <2>5. \A h \in Gen : /\ DOMAIN pending'[h] \subseteq DOMAIN pending[h]
                       /\ \A i \in DOMAIN pending'[h] : pending'[h][i] = pending[h][i]
    BY <2>2
  <2> QED BY <1>1, <2>1, <2>4, <2>5, PlacesSettle
<1>10. ASSUME NEW g \in Gen, CommFinally(g) PROVE PlacesInv'
  <2>1. /\ pending' = [pending EXCEPT ![g] = <<>>] /\ th[g] = "fin"
        /\ UNCHANGED <<commandQueue, reqId, caller, isRunning, result, init>>
    BY <1>10 DEF CommFinally, selfVars, callerVars
  <2>2. isRunning = "yes" => DOMAIN pending[g] = {}
    BY <1>1, <2>1 DEF MessagesInv, NothingOwed
  <2>3. DOMAIN pending'[g] = {} /\ \A h \in Gen \ {g} : pending'[h] = pending[h]
    BY <1>2, <2>1
  <2>4. \A c \in Call : Registered(c) /\ isRunning = "yes" => Registered(c)'
    BY <2>2, <2>3 DEF Registered
  <2>5. \A h \in Gen : /\ DOMAIN pending'[h] \subseteq DOMAIN pending[h]
                       /\ \A i \in DOMAIN pending'[h] : pending'[h][i] = pending[h][i]
    BY <2>3
  <2> QED BY <1>1, <2>1, <2>4, <2>5, PlacesSettle
<1>11. ASSUME NEW g \in Gen, CommRead(g) PROVE PlacesInv'
  BY <1>3, <1>8, <1>9, <1>11 DEF CommRead, Delivers, selfVars, callerVars
<1>12. ASSUME NEW g \in Gen, CommEvt(g) PROVE PlacesInv'
  BY <1>3, <1>7, <1>12 DEF CommEvt, Registers, callerVars
<1>13. ASSUME NEW g \in Gen, CommError(g) \/ CommWrite(g) PROVE PlacesInv'
  BY <1>3, <1>8, <1>13 DEF CommError, CommWrite, selfVars, callerVars
<1>14. ASSUME NEW g \in Gen, \/ CommStart(g) \/ CommPoll(g) \/ CommRestart(g) \/ CommAssign(g)
                             \/ CommWait(g) \/ ChildAnswer(g) \/ ChildDie(g)
       PROVE  PlacesInv'
  BY <1>3, <1>14 DEF CommStart, CommPoll, CommRestart, CommAssign, CommWait, ChildAnswer, ChildDie,
                     commVars, selfVars, callerVars
<1>15. CASE UNCHANGED vars \/ Constructor \/ Closer \/ FdReuse \/ Idle
  BY <1>3, <1>15
  DEF vars, Constructor, InitRun, InitAssign, InitWait, Closer, ClosePing, CloseFds, CloseJoin,
      FdReuse, Idle, commVars, selfVars, callerVars
<1> QED BY <1>4, <1>5, <1>6, <1>10, <1>11, <1>12, <1>13, <1>14, <1>15 DEF Next, Comm, Caller

-----------------------------------------------------------------------------
(* The theorems *)

\* Before the constructor has done anything.
LEMMA InitClient == Init => ClientInv
<1> SUFFICES ASSUME Init PROVE ClientInv
  OBVIOUS
<1>1. SharedOK
  BY DEF Init, SharedOK, NoResult
<1>2. GenerationOK
  <2>1. NotSending \in Senders /\ <<>> \in Batches /\ "none" \in Threads
    BY ConstantsAssumption DEF NotSending, Sending, Senders, Batches, Threads
  <2>2. \A g \in Gen : pending[g] = <<>>
    BY DEF Init
  <2> QED BY <2>1, <2>2 DEF Init, GenerationOK
<1>3. GenerationsInv
  BY Generations DEF Init, GenerationsInv
<1>4. JoinInv
  BY DEF Init, JoinInv
<1>5. MessagesInv
  <2> SUFFICES ASSUME NEW g \in Gen PROVE EventsOf(g) /\ RequestsOf(g) /\ NothingOwed(g)
    BY DEF MessagesInv
  <2>1. /\ th[g] = "none" /\ batch[g] = <<>> /\ dataSender[g] = NotSending
        /\ received[g] = {} /\ responses[g] = <<>> /\ DOMAIN pending[g] = {}
    BY DEF Init
  <2> QED BY <2>1 DEF EventsOf, RequestsOf, NothingOwed
<1>6. PlacesInv
  <2>1. /\ DOMAIN commandQueue = {} /\ \A g \in Gen : DOMAIN pending[g] = {}
        /\ \A c \in Call : result[c] = NoResult /\ caller[c] = "idle"
        /\ reqId = 0
    BY DEF Init
  <2>2. {c \in Call : caller[c] # "idle" /\ ~Queued(c)} = {}
    BY <2>1
  <2>3. reqId = Cardinality({c \in Call : caller[c] # "idle" /\ ~Queued(c)})
    BY <2>1, <2>2, FS_EmptySet
  <2> QED BY <2>1, <2>3 DEF PlacesInv, Queued, Registered
<1> QED BY <1>1, <1>2, <1>3, <1>4, <1>5, <1>6 DEF ClientInv, TypeOK

\* Every step of the client keeps the invariant.
LEMMA ClientStep == ClientInv /\ [Next]_vars => ClientInv'
BY SharedStep, GenerationStep, GenerationsStep, JoinStep, EventsStep, RequestsStep, OwedStep,
   PlacesStep
DEF ClientInv, TypeOK, MessagesInv

\* The inductive invariant of the client.
THEOREM ClientInvariance == Spec => []ClientInv
BY InitClient, ClientStep, PTL DEF Spec

\* A set with one element at most.
LEMMA AtMostOne ==
  ASSUME NEW S, \A x, y \in S : x = y
  PROVE  Cardinality(S) = IF S = {} THEN 0 ELSE 1
<1>1. CASE S = {}
  BY <1>1, FS_EmptySet
<1>2. CASE S # {}
  <2>1. PICK x : S = {x}
    BY <1>2
  <2> QED BY <1>2, <2>1, FS_Singleton
<1> QED BY <1>1, <1>2

\* A call is queued, registered with one child or answered, and never two of these: a crash,
\* a restart or a late answer neither loses nor repeats it.
THEOREM NeitherLostNorRepeated == Spec => []OnePlace
<1>1. ClientInv => OnePlace
  <2> SUFFICES ASSUME ClientInv, NEW c \in Call
               PROVE  /\ Places(c) <= 1
                      /\ isRunning = "yes" /\ caller[c] # "idle" => Places(c) = 1
    BY DEF OnePlace
  <2> DEFINE Q == {i \in DOMAIN commandQueue : commandQueue[i] = c}
             R == {gi \in Gen \X (1..reqId) : /\ gi[2] \in DOMAIN pending[gi[1]]
                                              /\ pending[gi[1]][gi[2]] = c}
  <2>1. PlacesInv /\ GenerationOK
    BY DEF ClientInv, TypeOK
  <2>2. Cardinality(Q) = IF Queued(c) THEN 1 ELSE 0
    <3>1. \A x, y \in Q : x = y
      BY <2>1 DEF PlacesInv
    <3>2. Q = {} <=> ~Queued(c)
      BY DEF Queued
    <3> HIDE DEF Q
    <3> QED BY <3>1, <3>2, AtMostOne
  <2>3. Cardinality(R) = IF Registered(c) THEN 1 ELSE 0
    <3>1. ASSUME NEW x \in R, NEW y \in R PROVE x = y
      <4>1. x[1] \in Gen /\ y[1] \in Gen /\ x = <<x[1], x[2]>> /\ y = <<y[1], y[2]>>
        OBVIOUS
      <4>2. /\ x[2] \in DOMAIN pending[x[1]] /\ pending[x[1]][x[2]] = c
            /\ y[2] \in DOMAIN pending[y[1]] /\ pending[y[1]][y[2]] = c
        OBVIOUS
      <4>3. x[1] = y[1] /\ x[2] = y[2]
        BY <2>1, <4>1, <4>2 DEF PlacesInv
      <4> QED BY <4>1, <4>3
    <3>2. R # {} => Registered(c)
      BY DEF Registered
    <3>3. Registered(c) => R # {}
      <4> SUFFICES ASSUME NEW g \in Gen, NEW i \in DOMAIN pending[g], pending[g][i] = c
                   PROVE  R # {}
        BY DEF Registered
      <4>1. <<g, i>> \in R
        BY <2>1 DEF GenerationOK
      <4> QED BY <4>1
    <3> HIDE DEF R
    <3> QED BY <3>1, <3>2, <3>3, AtMostOne
  <2>4. Places(c) = Cardinality(Q) + Cardinality(R) + (IF result[c] # NoResult THEN 1 ELSE 0)
    BY DEF Places
  <2> HIDE DEF Q, R
  <2> QED BY <2>1, <2>2, <2>3, <2>4 DEF PlacesInv
<1> QED BY <1>1, ClientInvariance, PTL

\* Whoever's answer comes first, or from whichever child, a caller gets its own; and a call
\* made after close() has returned raises Closed, unless the number of a closed descriptor
\* has been given to another file.
THEOREM OwnResult == "fdreuse" \notin Faults => (Spec => []ResultIsOwn)
<1> SUFFICES ASSUME "fdreuse" \notin Faults PROVE Spec => []ResultIsOwn
  OBVIOUS
<1>1. Init => ResultIsOwn
  BY DEF Init, ResultIsOwn
<1>2. ClientInv /\ ClientInv' /\ ResultIsOwn /\ [Next]_vars => ResultIsOwn'
  <2> SUFFICES ASSUME ClientInv, ClientInv', ResultIsOwn, [Next]_vars PROVE ResultIsOwn'
    OBVIOUS
  <2>1. \A c \in Call : result'[c] \in {NoResult, Crashed, c}
    BY DEF ClientInv, PlacesInv
  <2>2. /\ late # {} => evtFd = "closed"
        /\ late \subseteq Call
        /\ caller \in [Call -> {"idle", "put", "wait", "done", "Timeout", "Closed"}]
    BY DEF ClientInv, GenerationsInv, TypeOK, SharedOK
  <2>3. \A c \in late' : caller'[c] \in {"put", "Closed"}
    <3>1. CASE UNCHANGED <<late, caller>>
      BY <3>1 DEF ResultIsOwn
    <3>2. ASSUME NEW c \in Call, Caller(c) PROVE \A d \in late' : caller'[d] \in {"put", "Closed"}
      <4>1. CASE CallerPut(c)
        BY <2>2, <4>1 DEF CallerPut, ResultIsOwn
      <4>2. CASE CallerPing(c)
        BY <2>2, <4>2 DEF CallerPing, ResultIsOwn
      <4>3. CASE CallerReturn(c)
        BY <2>2, <4>3 DEF CallerReturn, ResultIsOwn
      <4> QED BY <3>2, <4>1, <4>2, <4>3 DEF Caller
    <3>3. CASE \/ UNCHANGED vars \/ Constructor \/ CloseBegin \/ Closer \/ FdReuse \/ Idle
               \/ \E g \in Gen : Comm(g) \/ ChildAnswer(g) \/ ChildDie(g)
      BY <3>1, <3>3, ZenonT(30)
      DEF vars, Constructor, InitRun, InitAssign, InitWait, CloseBegin, Closer, ClosePing,
          CloseFds, CloseJoin, FdReuse, Idle, Comm, CommStart, CommPoll, CommError, CommEvt,
          CommRead, CommWrite, CommFinally, CommRestart, CommAssign, CommWait, ChildAnswer,
          ChildDie, callerVars
    <3> QED BY <3>2, <3>3 DEF Next
  <2> QED BY <2>1, <2>3 DEF ResultIsOwn
<1> QED BY <1>1, <1>2, ClientInvariance, PTL DEF Spec

\* Two children never live at the same time, and none lives once close() has returned, unless
\* a child died before the constructor had returned.
THEOREM OneChildAlive == "startcrash" \notin Faults => (Spec => []OneChild)
<1> SUFFICES ASSUME "startcrash" \notin Faults PROVE Spec => []OneChild
  OBVIOUS
<1>1. ClientInv => OneChild
  BY DEF ClientInv, GenerationsInv, JoinInv, OneChild
<1> QED BY <1>1, ClientInvariance, PTL

\* A command in the queue of the first child is always announced: the bytes that the thread
\* drops while it sends a request are made up for by the one it writes at the end. The thread
\* has no other way to stop sending than the death of its child, or a response that cannot be
\* decoded.
THEOREM WakeupKept == "garbled" \notin Faults => (Spec => []NoLostWakeup)
<1> SUFFICES ASSUME "garbled" \notin Faults PROVE Spec => []NoLostWakeup
  OBVIOUS
<1> DEFINE Due       == commandQueue # <<>> /\ isRunning = "yes" /\ child[1] = "up"
           Announced == \/ pings > 0
                        \/ \E c \in Call : caller[c] = "put"
                        \/ dataSender[1] # NotSending /\ th[1] \in {"poll", "batch"}
<1>1. Init => NoLostWakeup
  BY DEF Init, NoLostWakeup
<1>2. ClientInv /\ ClientInv' /\ NoLostWakeup /\ [Next]_vars => NoLostWakeup'
  <2> SUFFICES ASSUME ClientInv, ClientInv', NoLostWakeup, [Next]_vars, Due' PROVE Announced'
    BY DEF NoLostWakeup
  <2>1. TypeOK /\ GenerationsInv /\ MessagesInv /\ (Due => Announced)
    BY DEF ClientInv, NoLostWakeup
  <2>2. /\ 1 \in Gen /\ Gen \subseteq Nat \ {0} /\ pings \in Nat
        /\ th \in [Gen -> Threads] /\ child \in [Gen -> {"none", "up", "dead"}]
        /\ dataSender \in [Gen -> Senders]
        /\ caller \in [Call -> {"idle", "put", "wait", "done", "Timeout", "Closed"}]
        /\ evtFd \in {"open", "closed", "reused"} /\ isRunning \in {"yes", "no"}
    BY <2>1, Generations DEF TypeOK, SharedOK, GenerationOK
  <2>3. isRunning' = "yes" /\ child'[1] = "up" /\ commandQueue' # <<>>
    OBVIOUS
  <2> HIDE DEF Due, Announced
  <2>4. ASSUME isRunning = "yes" PROVE evtFd = "open"
    BY <2>1, <2>2, <2>4 DEF GenerationsInv
  <2>5. ASSUME Due, pings' \in Nat, pings' >= pings,
               \A c \in Call : caller[c] = "put" => caller'[c] = "put" \/ pings' > 0,
               dataSender'[1] = dataSender[1],
               th[1] \in {"poll", "batch"} => th'[1] \in {"poll", "batch"}
        PROVE  Announced'
    BY <2>1, <2>2, <2>5 DEF Announced
  <2>6. ASSUME isRunning = "yes", commandQueue # <<>>, child[1] = "up" PROVE Due
    BY <2>6 DEF Due
  <2>7. CASE InitRun
    <3>1. /\ UNCHANGED commandQueue /\ init # "ready"
      BY <2>7 DEF InitRun
    <3>2. commandQueue # <<>> /\ commandQueue \in Seq(Call)
      BY <2>1, <2>3, <3>1 DEF TypeOK, SharedOK
    <3>3. 1 \in DOMAIN commandQueue /\ commandQueue[1] \in Call
      BY <3>2
    <3> QED BY <3>1, <3>3 DEF ClientInv, PlacesInv, Queued
  <2>8. ASSUME NEW c \in Call, Caller(c) PROVE Announced'
    <3>1. CASE CallerPut(c)
      BY <2>2, <3>1 DEF CallerPut, Announced
    <3>2. CASE CallerPing(c)
      <4>1. pings' > 0
        BY <2>2, <2>3, <2>4, <3>2 DEF CallerPing
      <4> QED BY <4>1 DEF Announced
    <3>3. CASE CallerReturn(c)
      <4>1. /\ UNCHANGED <<commandQueue, pings, isRunning, dataSender, th, child>>
            /\ \A d \in Call : caller[d] = "put" => caller'[d] = "put"
        BY <2>2, <3>3 DEF CallerReturn, selfVars, commVars, childVars
      <4> QED BY <2>2, <2>3, <2>5, <2>6, <4>1
    <3> QED BY <2>8, <3>1, <3>2, <3>3 DEF Caller
  <2>9. CASE CloseBegin
    BY <2>3, <2>9 DEF CloseBegin
  <2>10. ASSUME NEW g \in Gen, CommEvt(g) PROVE Announced'
    <3>1. /\ UNCHANGED <<isRunning, child, caller>> /\ th[g] = "batch" /\ NextEvent(g)
      BY <2>10 DEF CommEvt, Event, callerVars, childVars
    <3>2. g = 1
      BY <2>1, <2>2, <2>3, <3>1 DEF GenerationsInv
    <3>3. th'[1] \in {"poll", "batch"}
      BY <2>1, <3>1, <3>2, NextEventStep
    <3>4. CASE Registers(g)
      <4>1. dataSender'[1].left = Chunks
        BY <2>1, <3>2, <3>4, RegisterStep
      <4>2. dataSender'[1] # NotSending
        BY <4>1, ConstantsAssumption DEF NotSending, Sending
      <4> QED BY <3>3, <4>2 DEF Announced
    <3>5. CASE ~Registers(g)
      <4>1. dataSender[g] # NotSending /\ UNCHANGED dataSender
        BY <2>3, <2>10, <3>5 DEF CommEvt, Registers
      <4> QED BY <3>2, <3>3, <4>1 DEF Announced
    <3> QED BY <3>4, <3>5
  <2>11. ASSUME NEW g \in Gen, CommRead(g) \/ CommError(g) \/ CommWrite(g) PROVE Announced'
    <3>1. /\ UNCHANGED <<isRunning, child, caller, commandQueue>> /\ th[g] = "batch"
      BY <2>11 DEF CommRead, CommError, CommWrite, Event, selfVars, callerVars, childVars
    <3>2. g = 1 /\ Due
      BY <2>1, <2>2, <2>3, <2>6, <3>1 DEF GenerationsInv
    <3>3. CASE CommError(g)
      <4>1. 1 \in DOMAIN batch[1] /\ batch[1][1] \in {"err", "hup"}
        BY <2>1, <2>2, <3>1, <3>2, <3>3, BatchTail
        DEF CommError, Event, MessagesInv, EventsOf, TypeOK, GenerationOK
      <4> QED BY <2>1, <2>2, <2>3, <3>1, <4>1 DEF MessagesInv, EventsOf
    <3>4. CASE CommRead(g)
      <4>1. NextEvent(g) /\ UNCHANGED <<pings, dataSender>>
        BY <3>4 DEF CommRead, selfVars
      <4>2. th'[1] \in {"poll", "batch"}
        BY <2>1, <3>1, <3>2, <4>1, NextEventStep
      <4> QED BY <2>2, <2>5, <3>1, <3>2, <4>1, <4>2
    <3>5. CASE CommWrite(g) /\ Sent(g)
      <4>1. pings' > 0
        BY <2>2, <2>3, <2>4, <3>1, <3>5 DEF CommWrite, PingAfterSend
      <4> QED BY <4>1 DEF Announced
    <3>6. CASE CommWrite(g) /\ ~Sent(g)
      <4>1. child[1] = "up"
        BY <2>3, <3>1
      <4>2. NextEvent(g) /\ dataSender' = [dataSender EXCEPT ![1].left = @ - 1]
        BY <3>2, <3>6, <4>1 DEF CommWrite
      <4>3. th'[1] \in {"poll", "batch"}
        BY <2>1, <3>1, <3>2, <4>2, NextEventStep
      <4>4. dataSender[1] # NotSending /\ dataSender'[1].msg = dataSender[1].msg
        BY <2>2, <3>2, <3>6, <4>2 DEF Sent, NotSending, Sending, Senders
      <4>5. dataSender[1].msg \in Message
        BY <2>1, <2>2, <4>4 DEF MessagesInv, RequestsOf
      <4>6. dataSender'[1] # NotSending
        BY <4>4, <4>5, ConstantsAssumption DEF NotSending, Sending, Message
      <4> QED BY <4>3, <4>6 DEF Announced
    <3> QED BY <2>11, <3>3, <3>4, <3>5, <3>6
  <2>12. ASSUME NEW g \in Gen, CommFinally(g) PROVE Announced'
    <3>1. /\ th[g] = "fin" /\ UNCHANGED <<isRunning, caller, commandQueue, pings>>
          /\ child' = [child EXCEPT ![g] = "dead"]
      BY <2>12 DEF CommFinally, KillChild, selfVars, callerVars
    <3>2. g # 1 /\ child[1] = "up"
      BY <2>2, <2>3, <3>1
    <3> QED BY <2>1, <2>2, <3>1, <3>2 DEF GenerationsInv
  <2>13. ASSUME NEW g \in Gen, CommRestart(g) PROVE Announced'
    <3>1. /\ th[g] = "lock" /\ UNCHANGED <<isRunning, caller, commandQueue, pings, dataSender>>
      BY <2>13 DEF CommRestart, callerVars, commVars
    <3>2. RestartNeeded
      BY <2>3, <3>1 DEF RestartNeeded
    <3>3. g = spawned /\ child[g] = "dead"
      BY <2>1, <3>1 DEF GenerationsInv
    <3>4. 1 = spawned + 1 \/ child[1] = "up"
      BY <2>1, <2>2, <2>3, <2>13, <3>2, RestartStep
    <3> QED BY <2>1, <2>2, <3>3, <3>4 DEF GenerationsInv
  <2>14. ASSUME NEW g \in Gen, CommStart(g) \/ CommPoll(g) \/ CommAssign(g) \/ CommWait(g)
         PROVE  Announced'
    <3>1. UNCHANGED <<isRunning, caller, commandQueue, pings, dataSender, child>>
      BY <2>14 DEF CommStart, CommPoll, CommAssign, CommWait, selfVars, callerVars, commVars,
                   childVars
    <3>2. th[1] \in {"poll", "batch"} => th'[1] \in {"poll", "batch"}
      BY <2>2, <2>3, <2>14, <3>1
      DEF CommStart, CommPoll, CommAssign, CommWait, ShutdownRequested
    <3> QED BY <2>2, <2>3, <2>5, <2>6, <3>1, <3>2
  <2>15. ASSUME NEW g \in Gen, ChildAnswer(g) \/ ChildDie(g) PROVE Announced'
    <3>1. UNCHANGED <<isRunning, caller, commandQueue, pings, dataSender, th>> /\ child[1] = "up"
      BY <2>2, <2>3, <2>15 DEF ChildAnswer, ChildDie, selfVars, callerVars, commVars
    <3> QED BY <2>2, <2>3, <2>5, <2>6, <3>1
  <2>16. CASE UNCHANGED vars \/ InitAssign \/ InitWait \/ Closer \/ FdReuse \/ Idle
    <3>1. /\ UNCHANGED <<isRunning, caller, commandQueue, dataSender, th, child>>
          /\ pings' \in Nat /\ pings' >= pings
      BY <2>2, <2>16
      DEF vars, InitAssign, InitWait, Closer, ClosePing, CloseFds, CloseJoin, FdReuse, Idle,
          selfVars, callerVars, commVars, childVars
    <3> QED BY <2>3, <2>5, <2>6, <3>1
  <2> QED BY <2>7, <2>8, <2>9, <2>10, <2>11, <2>12, <2>13, <2>14, <2>15, <2>16
          DEF Next, Comm, Constructor
<1> QED BY <1>1, <1>2, ClientInvariance, PTL DEF Spec

-----------------------------------------------------------------------------
(* Refinement *)

\* There are no more ids than calls.
LEMMA IdsBounded ==
  ASSUME ClientInv
  PROVE  1..reqId \subseteq 1..Cardinality(Call)
<1> DEFINE Begun == {c \in Call : caller[c] # "idle" /\ ~Queued(c)}
<1>1. IsFiniteSet(Call) /\ Begun \subseteq Call /\ reqId = Cardinality(Begun) /\ reqId \in Nat
  BY ConstantsAssumption DEF ClientInv, PlacesInv, TypeOK, SharedOK
<1> HIDE DEF Begun
<1>2. Cardinality(Begun) <= Cardinality(Call) /\ Cardinality(Call) \in Nat
  BY <1>1, FS_Subset, FS_CardinalityType
<1> QED BY <1>1, <1>2

\* A step of the client is, for each of its children, a step of ChildProcess or none at all.
LEMMA ChildUse ==
  ClientInv /\ [Next]_vars =>
    \A h \in Gen : [ChildOf(h)!Next]_<<child[h], received[h], responses[h]>>
<1> SUFFICES ASSUME ClientInv, [Next]_vars, NEW h \in Gen,
                    ~UNCHANGED <<child[h], received[h], responses[h]>>
             PROVE  ChildOf(h)!Next
  OBVIOUS
<1>1. TypeOK /\ GenerationsInv /\ MessagesInv
  BY DEF ClientInv
<1>2. /\ child \in [Gen -> {"none", "up", "dead"}] /\ received \in [Gen -> SUBSET Message]
      /\ responses \in [Gen -> Seq(Message)] /\ dataSender \in [Gen -> Senders]
  BY <1>1 DEF TypeOK, GenerationOK
<1>3. ASSUME NEW m \in Message, Fits(m, h)
      PROVE  m \in [id : 1..Cardinality(Call), call : Call]
  BY <1>3, IdsBounded DEF Fits, Message
<1>4. CASE InitRun
  <2>1. /\ child' = [child EXCEPT ![1] = "up"] /\ UNCHANGED <<received, responses>>
        /\ child[h] = "none"
    BY <1>1, <1>4, Generations DEF GenerationsInv, InitRun, Run
  <2> QED BY <1>2, <2>1 DEF ChildOf!Next, ChildOf!Start
<1>5. ASSUME NEW g \in Gen, CommRestart(g) PROVE ChildOf(h)!Next
  <2>1. UNCHANGED <<received, responses>> /\ RestartNeeded
    BY <1>5 DEF CommRestart
  <2>2. h = spawned + 1 /\ child'[h] = "up"
    BY <1>1, <1>5, <2>1, RestartStep
  <2>3. child[h] = "none"
    BY <1>1, <2>2, Generations DEF GenerationsInv, TypeOK, SharedOK
  <2> QED BY <2>1, <2>2, <2>3 DEF ChildOf!Next, ChildOf!Start
<1>6. ASSUME NEW g \in Gen, CommRead(g) PROVE ChildOf(h)!Next
  <2>1. UNCHANGED <<child, received>> /\ responses' = [responses EXCEPT ![g] = Tail(@)]
    BY <1>6 DEF CommRead
  <2>2. h = g
    BY <1>2, <2>1
  <2>3. responses[g] # <<>>
    BY <1>1, <1>6, BatchTail
    DEF TypeOK, GenerationOK, CommRead, Event, MessagesInv, EventsOf
  <2> QED BY <1>2, <2>1, <2>2, <2>3 DEF ChildOf!Next, ChildOf!Take
<1>7. ASSUME NEW g \in Gen, CommWrite(g) PROVE ChildOf(h)!Next
  <2>1. /\ UNCHANGED <<child, responses>> /\ child[g] = "up"
        /\ dataSender[g].left = 1
        /\ received' = [received EXCEPT ![g] = @ \cup {dataSender[g].msg}]
    BY <1>7 DEF CommWrite
  <2>2. h = g
    BY <1>2, <2>1
  <2>3. dataSender[g] # NotSending
    BY <2>1 DEF NotSending, Sending
  <2>4. /\ dataSender[g].msg \in Message /\ Fits(dataSender[g].msg, g)
        /\ dataSender[g].msg \notin received[g]
    BY <1>1, <2>1, <2>3 DEF MessagesInv, RequestsOf
  <2>5. dataSender[g].msg \in [id : 1..Cardinality(Call), call : Call]
    BY <1>3, <2>2, <2>4
  <2>6. received'[g] = received[g] \cup {dataSender[g].msg}
    BY <1>2, <2>1
  <2> QED BY <2>1, <2>2, <2>4, <2>5, <2>6 DEF ChildOf!Next, ChildOf!Receive
<1>8. ASSUME NEW g \in Gen, CommFinally(g) PROVE ChildOf(h)!Next
  <2>1. /\ th[g] = "fin" /\ child' = [child EXCEPT ![g] = "dead"]
        /\ received' = [received EXCEPT ![g] = {}]
        /\ responses' = [responses EXCEPT ![g] = <<>>]
    BY <1>8 DEF CommFinally, KillChild
  <2>2. h = g
    BY <1>2, <2>1
  <2>3. child[g] # "none"
    BY <1>1, <2>1 DEF GenerationsInv
  <2> QED BY <1>2, <2>1, <2>2, <2>3 DEF ChildOf!Next, ChildOf!Discard
<1>9. ASSUME NEW g \in Gen, ChildAnswer(g) PROVE ChildOf(h)!Next
  <2>1. /\ child[g] = "up" /\ UNCHANGED child
    BY <1>9 DEF ChildAnswer
  <2>2. PICK m \in received[g] : /\ received' = [received EXCEPT ![g] = @ \ {m}]
                                 /\ responses' = [responses EXCEPT ![g] = Append(@, m)]
    BY <1>9 DEF ChildAnswer
  <2>3. h = g
    BY <1>2, <2>1, <2>2
  <2>4. m \in [id : 1..Cardinality(Call), call : Call]
    BY <1>1, <1>2, <1>3, <2>3 DEF MessagesInv, RequestsOf
  <2>5. received'[g] = received[g] \ {m} /\ responses'[g] = Append(responses[g], m)
    BY <1>2, <2>2
  <2> QED BY <2>1, <2>3, <2>4, <2>5 DEF ChildOf!Next, ChildOf!Answer
<1>10. ASSUME NEW g \in Gen, ChildDie(g) PROVE ChildOf(h)!Next
  <2>1. /\ child[g] = "up" /\ child' = [child EXCEPT ![g] = "dead"]
        /\ UNCHANGED <<received, responses>>
    BY <1>10 DEF ChildDie
  <2>2. h = g
    BY <1>2, <2>1
  <2> QED BY <1>2, <2>1, <2>2 DEF ChildOf!Next, ChildOf!Die
<1>11. ASSUME UNCHANGED <<child, received, responses>> PROVE FALSE
  BY <1>11
<1>12. CASE \/ UNCHANGED vars \/ InitAssign \/ InitWait \/ (\E c \in Call : Caller(c))
            \/ CloseBegin \/ Closer \/ FdReuse \/ Idle
            \/ \E g \in Gen : \/ CommStart(g) \/ CommPoll(g) \/ CommError(g) \/ CommEvt(g)
                               \/ CommAssign(g) \/ CommWait(g)
  BY <1>11, <1>12
  DEF vars, InitAssign, InitWait, Caller, CallerPut, CallerPing, CallerReturn, CloseBegin,
      Closer, ClosePing, CloseFds, CloseJoin, FdReuse, Idle, CommStart, CommPoll, CommError,
      CommEvt, CommAssign, CommWait, childVars
<1> QED BY <1>4, <1>5, <1>6, <1>7, <1>8, <1>9, <1>10, <1>12 DEF Next, Comm, Constructor

\* Towards each of its children the client keeps to the protocol that Server implements.
THEOREM ClientUsesChild == Spec => UsesChild
<1>1. Init => \A g \in Gen : ChildOf(g)!Init
  BY DEF Init, ChildOf!Init
<1>2. ClientInv /\ [Next]_vars =>
        [\A g \in Gen : [ChildOf(g)!Next]_<<child[g], received[g], responses[g]>>]_vars
  BY ChildUse
<1> QED BY <1>1, <1>2, ClientInvariance, PTL DEF Spec, UsesChild

\* How a call of which the caller is at k and the result is r has ended.
OutcomeOf(k, r, c) ==
  CASE k = "put" -> "pending"
    [] k = "wait" /\ r = NoResult -> "pending"
    [] k \in {"wait", "done"} /\ r = Crashed -> "crash"
    [] k \in {"wait", "done"} /\ r = c -> "result"
    [] k \in {"wait", "done"} /\ r \in Call \ {c} -> "another's result"
    [] OTHER -> k

\* The outcome by what the caller does and what it was given.
LEMMA OutcomeCases ==
  ASSUME NEW c \in Call, NEW k, NEW r \in {NoResult, Crashed, c}
  PROVE  /\ k = "put" => OutcomeOf(k, r, c) = "pending"
         /\ k = "wait" /\ r = NoResult => OutcomeOf(k, r, c) = "pending"
         /\ k \in {"wait", "done"} /\ r = Crashed => OutcomeOf(k, r, c) = "crash"
         /\ k \in {"wait", "done"} /\ r = c => OutcomeOf(k, r, c) = "result"
         /\ k \in {"idle", "Timeout", "Closed"} => OutcomeOf(k, r, c) = k
<1>1. NoResult \notin Call /\ Crashed \notin Call /\ NoResult # Crashed
  BY ConstantsAssumption DEF NoResult, Crashed
<1>2. k = "put" => OutcomeOf(k, r, c) = "pending"
  BY DEF OutcomeOf
<1>3. k = "wait" /\ r = NoResult => OutcomeOf(k, r, c) = "pending"
  BY <1>1 DEF OutcomeOf
<1>4. k \in {"wait", "done"} /\ r = Crashed => OutcomeOf(k, r, c) = "crash"
  BY <1>1 DEF OutcomeOf
<1>5. k \in {"wait", "done"} /\ r = c => OutcomeOf(k, r, c) = "result"
  BY <1>1 DEF OutcomeOf
<1>6. k \in {"idle", "Timeout", "Closed"} => OutcomeOf(k, r, c) = k
  BY <1>1 DEF OutcomeOf
<1> QED BY <1>2, <1>3, <1>4, <1>5, <1>6

\* Some of the calls that are under way end.
LEMMA Finishes ==
  ASSUME NEW S \in SUBSET Call, NEW e \in [S -> {"result", "crash", "Timeout", "Closed"}],
         UNCHANGED isRunning,
         \A c \in S : Outcome(c) = "pending" /\ (e[c] = "Closed" => isRunning # "yes"),
         \A c, d \in S : c # d => e[c] = "crash" /\ e[d] = "crash",
         \A c \in Call : Outcome(c)' = IF c \in S THEN e[c] ELSE Outcome(c)
  PROVE  Service!Next
<1>1. Service!Finish
  BY DEF Service!Finish, Service!Ends
<1> QED BY <1>1 DEF Service!Next

\* A step of the client starts a call, ends some, closes the client, or changes nothing a
\* caller can tell.
LEMMA ServiceStep == ClientInv /\ ClientInv' /\ [Next]_vars => [Service!Next]_(Service!vars)
<1> SUFFICES ASSUME ClientInv, ClientInv', [Next]_vars PROVE [Service!Next]_(Service!vars)
  OBVIOUS
<1>1. TypeOK /\ GenerationsInv /\ PlacesInv
  BY DEF ClientInv
<1>2. /\ caller \in [Call -> {"idle", "put", "wait", "done", "Timeout", "Closed"}]
      /\ result \in [Call -> Call \cup {NoResult, Crashed}]
      /\ \A c \in Call : c # NoResult /\ c # Crashed /\ NoResult # Crashed
  BY <1>1, ConstantsAssumption DEF TypeOK, SharedOK, NoResult, Crashed
<1>3. \A c \in Call : result[c] \in {NoResult, Crashed, c} /\ result'[c] \in {NoResult, Crashed, c}
  BY DEF ClientInv, PlacesInv
<1>4. \A c \in Call : /\ Outcome(c) = OutcomeOf(caller[c], result[c], c)
                      /\ Outcome(c)' = OutcomeOf(caller'[c], result'[c], c)
  BY DEF Outcome, OutcomeOf
<1>5. ASSUME UNCHANGED isRunning, \A c \in Call : Outcome(c)' = Outcome(c)
      PROVE  [Service!Next]_(Service!vars)
  BY <1>5 DEF Service!vars
<1>6. CASE UNCHANGED <<caller, result, isRunning>>
  BY <1>4, <1>5, <1>6
<1>7. ASSUME NEW x \in Call, NEW v \in {"result", "crash", "Timeout", "Closed"},
             UNCHANGED isRunning, Outcome(x) = "pending", Outcome(x)' = v,
             v = "Closed" => isRunning # "yes",
             \A c \in Call \ {x} : Outcome(c)' = Outcome(c)
      PROVE  Service!Next
  <2> DEFINE e == [c \in {x} |-> v]
  <2>1. /\ {x} \in SUBSET Call /\ e \in [{x} -> {"result", "crash", "Timeout", "Closed"}]
        /\ e[x] = v
    OBVIOUS
  <2>2. \A c \in Call : Outcome(c)' = IF c \in {x} THEN e[c] ELSE Outcome(c)
    BY <1>7, <2>1
  <2>3. \A c \in {x} : Outcome(c) = "pending" /\ (e[c] = "Closed" => isRunning # "yes")
    BY <1>7, <2>1
  <2> HIDE DEF e
  <2> QED BY <1>7, <2>1, <2>2, <2>3, Finishes
<1>8. ASSUME NEW x \in Call, CallerPut(x) PROVE Service!Next
  <2>1. /\ caller[x] = "idle" /\ caller' = [caller EXCEPT ![x] = "put"]
        /\ UNCHANGED <<result, isRunning>>
    BY <1>8 DEF CallerPut
  <2>2. Outcome(x) = "idle" /\ Outcome(x)' = "pending"
    BY <1>2, <1>3, <1>4, <2>1, OutcomeCases
  <2>3. \A c \in Call \ {x} : Outcome(c)' = Outcome(c)
    BY <1>2, <1>4, <2>1
  <2>4. Service!Begin(x)
    BY <2>1, <2>2, <2>3 DEF Service!Begin
  <2> QED BY <2>4 DEF Service!Next
<1>9. ASSUME NEW x \in Call, CallerPing(x) PROVE [Service!Next]_(Service!vars)
  <2>1. /\ caller[x] = "put" /\ UNCHANGED <<result, isRunning>>
        /\ caller' = [caller EXCEPT ![x] = IF evtFd = "closed" THEN "Closed" ELSE "wait"]
    BY <1>9 DEF CallerPing
  <2>2. Outcome(x) = "pending" /\ \A c \in Call \ {x} : Outcome(c)' = Outcome(c)
    BY <1>2, <1>3, <1>4, <2>1, OutcomeCases
  <2>3. CASE evtFd = "closed"
    <3>1. isRunning # "yes"
      BY <1>1, <2>3 DEF GenerationsInv, TypeOK, SharedOK
    <3>2. Outcome(x)' = "Closed"
      BY <1>2, <1>3, <1>4, <2>1, <2>3, OutcomeCases
    <3> QED BY <1>7, <2>1, <2>2, <3>1, <3>2
  <2>4. CASE evtFd # "closed" /\ result[x] = NoResult
    <3>1. Outcome(x)' = "pending"
      BY <1>2, <1>3, <1>4, <2>1, <2>4, OutcomeCases
    <3> QED BY <1>5, <2>1, <2>2, <3>1
  <2>5. CASE evtFd # "closed" /\ result[x] # NoResult
    <3>1. PICK v \in {"result", "crash"} : Outcome(x)' = v
      BY <1>2, <1>3, <1>4, <2>1, <2>5, OutcomeCases
    <3> QED BY <1>7, <2>1, <2>2, <3>1
  <2> QED BY <2>3, <2>4, <2>5
<1>10. ASSUME NEW x \in Call, CallerReturn(x) PROVE [Service!Next]_(Service!vars)
  <2>1. caller[x] = "wait" /\ UNCHANGED <<result, isRunning>>
    BY <1>10 DEF CallerReturn, selfVars
  <2>2. CASE result[x] # NoResult
    <3>1. caller' = [caller EXCEPT ![x] = "done"]
      BY <1>10, <2>2 DEF CallerReturn
    <3>2. \A c \in Call : Outcome(c)' = Outcome(c)
      BY <1>2, <1>3, <1>4, <2>1, <2>2, <3>1, OutcomeCases
    <3> QED BY <1>5, <2>1, <3>2
  <2>3. CASE result[x] = NoResult
    <3>1. caller' = [caller EXCEPT ![x] = "Timeout"]
      BY <1>10, <2>3 DEF CallerReturn
    <3>2. /\ Outcome(x) = "pending" /\ Outcome(x)' = "Timeout"
          /\ \A c \in Call \ {x} : Outcome(c)' = Outcome(c)
      BY <1>2, <1>3, <1>4, <2>1, <2>3, <3>1, OutcomeCases
    <3> QED BY <1>7, <2>1, <3>2
  <2> QED BY <2>2, <2>3
<1>11. CASE CloseBegin
  <2>1. isRunning' = "no" /\ UNCHANGED <<caller, result>>
    BY <1>11 DEF CloseBegin, callerVars
  <2>2. \A c \in Call : Outcome(c)' = Outcome(c)
    BY <1>4, <2>1
  <2>3. Service!Close
    BY <2>1, <2>2 DEF Service!Close
  <2> QED BY <2>3 DEF Service!Next
<1>12. ASSUME NEW g \in Gen, Fail(g), UNCHANGED <<caller, isRunning>>
       PROVE  [Service!Next]_(Service!vars)
  <2> DEFINE S == {c \in Call : /\ caller[c] = "wait"
                                /\ \E i \in DOMAIN pending[g] : pending[g][i] = c}
             e == [c \in S |-> "crash"]
  <2>1. S \in SUBSET Call /\ e \in [S -> {"result", "crash", "Timeout", "Closed"}]
        /\ \A c \in S : e[c] = "crash"
    OBVIOUS
  <2>2. ASSUME NEW c \in Call, \E i \in DOMAIN pending[g] : pending[g][i] = c
        PROVE  result[c] = NoResult /\ caller[c] \notin {"idle", "done"} /\ result'[c] = Crashed
    BY <1>1, <1>12, <2>2 DEF PlacesInv, Registered, Fail
  <2>3. \A c \in S : Outcome(c) = "pending" /\ Outcome(c)' = "crash"
    BY <1>2, <1>3, <1>4, <1>12, <2>2, OutcomeCases
  <2>4. ASSUME NEW c \in Call, c \notin S PROVE Outcome(c)' = Outcome(c)
    <3>1. CASE \E i \in DOMAIN pending[g] : pending[g][i] = c
      <4>1. caller[c] \in {"put", "Timeout", "Closed"} /\ caller'[c] = caller[c]
        BY <1>2, <1>12, <2>2, <2>4, <3>1
      <4> QED BY <1>3, <1>4, <4>1, OutcomeCases
    <3>2. CASE ~\E i \in DOMAIN pending[g] : pending[g][i] = c
      BY <1>4, <1>12, <3>2 DEF Fail
    <3> QED BY <3>1, <3>2
  <2>5. \A c \in S : Outcome(c) = "pending" /\ (e[c] = "Closed" => isRunning # "yes")
    BY <2>1, <2>3
  <2>6. \A c \in Call : Outcome(c)' = IF c \in S THEN e[c] ELSE Outcome(c)
    BY <2>1, <2>3, <2>4
  <2>7. \A c, d \in S : c # d => e[c] = "crash" /\ e[d] = "crash"
    BY <2>1
  <2>8. PICK T \in SUBSET Call : T = S
    BY <2>1
  <2>9. PICK f \in [T -> {"result", "crash", "Timeout", "Closed"}] : f = e
    BY <2>1, <2>8
  <2> HIDE DEF S, e
  <2> QED BY <1>12, <2>5, <2>6, <2>7, <2>8, <2>9, Finishes
<1>13. ASSUME NEW g \in Gen, Delivers(g) PROVE [Service!Next]_(Service!vars)
  <2>1. PICK x \in Call : /\ Registered(x)
                         /\ result' = [result EXCEPT ![x] = Head(responses[g]).call]
    BY <1>1, <1>13, DeliverStep DEF Delivers, Registered, TypeOK, GenerationOK
  <2>2. result[x] = NoResult /\ caller[x] \notin {"idle", "done"} /\ UNCHANGED <<caller, isRunning>>
    BY <1>1, <1>13, <2>1 DEF PlacesInv, Delivers, CommRead, selfVars, callerVars
  <2>3. \A c \in Call \ {x} : Outcome(c)' = Outcome(c)
    BY <1>2, <1>4, <2>1, <2>2
  <2>4. CASE caller[x] = "wait"
    <3>1. Outcome(x) = "pending" /\ Outcome(x)' \in {"pending", "result", "crash"}
      BY <1>3, <1>4, <2>2, <2>4, OutcomeCases
    <3>2. CASE Outcome(x)' = "pending"
      BY <1>5, <2>2, <2>3, <3>1, <3>2
    <3>3. ASSUME NEW v \in {"result", "crash"}, Outcome(x)' = v PROVE Service!Next
      BY <1>7, <2>2, <2>3, <3>1, <3>3
    <3> QED BY <3>1, <3>2, <3>3
  <2>5. CASE caller[x] # "wait"
    <3>1. caller[x] \in {"put", "Timeout", "Closed"}
      BY <1>2, <2>2, <2>5
    <3>2. Outcome(x)' = Outcome(x)
      BY <1>3, <1>4, <2>2, <3>1, OutcomeCases
    <3> QED BY <1>5, <2>2, <2>3, <3>2
  <2> QED BY <2>4, <2>5
<1>14. ASSUME NEW g \in Gen, CommRead(g) \/ CommError(g) \/ CommWrite(g)
       PROVE  [Service!Next]_(Service!vars)
  BY <1>6, <1>12, <1>13, <1>14 DEF CommRead, CommError, CommWrite, Delivers, selfVars, callerVars
<1>15. CASE \/ UNCHANGED vars \/ Constructor \/ Closer \/ FdReuse \/ Idle
            \/ \E g \in Gen : \/ CommStart(g) \/ CommPoll(g) \/ CommEvt(g) \/ CommFinally(g)
                               \/ CommRestart(g) \/ CommAssign(g) \/ CommWait(g)
                               \/ ChildAnswer(g) \/ ChildDie(g)
  BY <1>6, <1>15, ZenonT(30)
  DEF vars, Constructor, InitRun, InitAssign, InitWait, Closer, ClosePing, CloseFds, CloseJoin,
      FdReuse, Idle, CommStart, CommPoll, CommEvt, CommFinally, CommRestart, CommAssign, CommWait,
      ChildAnswer, ChildDie, selfVars, callerVars
<1> QED BY <1>8, <1>9, <1>10, <1>11, <1>14, <1>15 DEF Next, Comm, Caller

\* The client implements the service its callers rely on: a call ends once, in one of four
\* ways, and nothing that happens later changes how it has ended.
THEOREM ClientImplementsService == Spec => ImplementsService
<1>1. Init => Service!Init
  <2> SUFFICES ASSUME Init PROVE Service!Init
    OBVIOUS
  <2>1. \A c \in Call : Outcome(c) = "idle"
    BY DEF Init, Outcome
  <2> QED BY <2>1 DEF Init, Service!Init
<1> QED BY <1>1, ServiceStep, ClientInvariance, PTL DEF Spec, ImplementsService, Service!Spec
=============================================================================
