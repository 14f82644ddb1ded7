--------------------------- MODULE FramingProofs ----------------------------
(***************************************************************************)
(* Theorems about the two pipes, for any number of requests, texts of any  *)
(* length and pipes of any capacity: however writes and reads cut them and *)
(* wherever either process stops, messages arrive whole, once and in       *)
(* order, and no reader gives up on a peer that is there.                  *)
(***************************************************************************)
EXTENDS Framing, StreamLemmas

-----------------------------------------------------------------------------
(* What is ahead of a reader *)

\* The texts but the first k.
LEMMA TextsAfter ==
  ASSUME NEW T, NEW texts \in Seq(T), NEW k \in 0..Len(texts)
  PROVE  /\ SubSeq(texts, k + 1, Len(texts)) \in Seq(T)
         /\ Len(SubSeq(texts, k + 1, Len(texts))) = Len(texts) - k
         /\ \A i \in 1..Len(texts) - k : SubSeq(texts, k + 1, Len(texts))[i] = texts[k + i]
OBVIOUS

\* A sequence as the function of its elements.
LEMMA ByElement ==
  ASSUME NEW T, NEW s \in Seq(T), NEW n, Len(s) = n
  PROVE  s = [i \in 1..n |-> s[i]]
OBVIOUS

\* What is ahead is made of what the texts are made of.
LEMMA AheadType ==
  ASSUME NEW U, NEW texts \in Seq(Seq(U)), NEW k \in 0..Len(texts)
  PROVE  Ahead(texts, k) \in Seq(U)
<1>1. SubSeq(texts, k + 1, Len(texts)) \in Seq(Seq(U))
  BY TextsAfter
<1> QED
  BY <1>1, FlattenType DEF Ahead

\* When all texts are read, nothing is ahead.
LEMMA AheadNothing ==
  ASSUME NEW U, NEW texts \in Seq(Seq(U))
  PROVE  Ahead(texts, Len(texts)) = <<>>
<1>1. Len(texts) \in Nat
  OBVIOUS
<1>2. SubSeq(texts, Len(texts) + 1, Len(texts)) = <<>>
  BY <1>1, SubSeqEmpty
<1> QED
  BY <1>2, FlattenEmpty DEF Ahead

\* The subsequence from k + 1 of a longer sequence.
LEMMA AppendAfter ==
  ASSUME NEW T, NEW texts \in Seq(T), NEW k \in 0..Len(texts), NEW t \in T
  PROVE  SubSeq(Append(texts, t), k + 1, Len(texts) + 1)
           = Append(SubSeq(texts, k + 1, Len(texts)), t)
<1> DEFINE u == Append(texts, t)
           v == SubSeq(texts, k + 1, Len(texts))
<1>1. /\ u \in Seq(T) /\ Len(u) = Len(texts) + 1 /\ u[Len(texts) + 1] = t
      /\ \A i \in 1..Len(texts) : u[i] = texts[i]
  OBVIOUS
<1>2. /\ v \in Seq(T) /\ Len(v) = Len(texts) - k
      /\ \A i \in 1..Len(texts) - k : v[i] = texts[k + i]
  BY TextsAfter
<1> HIDE DEF u, v
<1>3. /\ SubSeq(u, k + 1, Len(u)) \in Seq(T) /\ Len(SubSeq(u, k + 1, Len(u))) = Len(u) - k
      /\ \A i \in 1..Len(u) - k : SubSeq(u, k + 1, Len(u))[i] = u[k + i]
  <2>1. k \in 0..Len(u)
    BY <1>1
  <2> QED
    BY <1>1, <2>1, TextsAfter
<1>4. /\ Append(v, t) \in Seq(T) /\ Len(Append(v, t)) = Len(texts) - k + 1
      /\ Append(v, t)[Len(texts) - k + 1] = t
      /\ \A i \in 1..Len(texts) - k : Append(v, t)[i] = texts[k + i]
  BY <1>2, AppendProperties
<1>5. SubSeq(u, k + 1, Len(u)) = Append(v, t)
  <2>1. \A i \in 1..Len(texts) - k + 1 : SubSeq(u, k + 1, Len(u))[i] = Append(v, t)[i]
    <3> TAKE i \in 1..Len(texts) - k + 1
    <3>1. SubSeq(u, k + 1, Len(u))[i] = u[k + i]
      BY <1>1, <1>3
    <3>2. CASE i = Len(texts) - k + 1
      BY <1>1, <1>4, <3>1, <3>2
    <3>3. CASE i # Len(texts) - k + 1
      BY <1>1, <1>4, <3>1, <3>3, SMTT(30)
    <3> QED
      BY <3>2, <3>3
  <2> QED
    BY <1>1, <1>3, <1>4, <2>1, SeqEqual
<1> QED
  BY <1>1, <1>5 DEF u, v

\* A message more is ahead when all that were ahead are read.
LEMMA AheadAppend ==
  ASSUME NEW U, NEW texts \in Seq(Seq(U)), NEW k \in 0..Len(texts), NEW t \in Seq(U)
  PROVE  Ahead(Append(texts, t), k) = Ahead(texts, k) \o t
<1> DEFINE v == SubSeq(texts, k + 1, Len(texts))
<1>1. v \in Seq(Seq(U))
  BY TextsAfter
<1>2. Len(Append(texts, t)) = Len(texts) + 1
  BY AppendProperties
<1>3. SubSeq(Append(texts, t), k + 1, Len(Append(texts, t))) = Append(v, t)
  BY <1>2, AppendAfter
<1> HIDE DEF v
<1>4. FlattenSeq(Append(v, t)) = FlattenSeq(v) \o t
  BY <1>1, FlattenAppend
<1> QED
  BY <1>3, <1>4 DEF Ahead, v

\* The first text ahead of a reader that has read k is text k + 1.
LEMMA AheadFirst ==
  ASSUME NEW U, NEW texts \in Seq(Seq(U)), NEW k \in 0..Len(texts) - 1
  PROVE  Ahead(texts, k) = texts[k + 1] \o Ahead(texts, k + 1)
<1> DEFINE v == SubSeq(texts, k + 1, Len(texts))
<1>1. k + 1 \in 1..Len(texts) /\ Len(texts) \in k + 1..Len(texts) /\ k \in 0..Len(texts)
  OBVIOUS
<1>2. v \in Seq(Seq(U)) /\ Len(v) = Len(texts) - k
  BY <1>1, TextsAfter
<1>3. Head(v) = texts[k + 1] /\ Tail(v) = SubSeq(texts, k + 1 + 1, Len(texts))
  BY <1>1, HeadTailOfSubSeq
<1> HIDE DEF v
<1>4. v # <<>> /\ v[1] = Head(v)
  BY <1>1, <1>2
<1>5. FlattenSeq(v) = v[1] \o FlattenSeq(Tail(v))
  BY <1>2, <1>4, FlattenFirst
<1> QED
  BY <1>3, <1>4, <1>5 DEF Ahead, v

-----------------------------------------------------------------------------
(* The request pipe *)

ReqInv == Req!TypeOK /\ RequestInv

\* The length of the text of a request.
TextLen(r) == Text[r].ascii + 2 * Text[r].wide

\* A request is a size and as many units, which name it: the escapes of dumps() are ASCII.
LEMMA RequestBytes ==
  ASSUME NEW r \in Request
  PROVE  /\ Req!requestToBytes(r) \in Seq(Req!UnitOf) /\ Req!requestToBytes(r) # <<>>
         /\ Head(Req!requestToBytes(r)).n = TextLen(r)
         /\ Tail(Req!requestToBytes(r)) \in Seq(Req!UnitOf)
         /\ Len(Tail(Req!requestToBytes(r))) = TextLen(r) /\ TextLen(r) \in Nat \ {0}
         /\ Head(Tail(Req!requestToBytes(r))).req = r
<1> DEFINE n == TextLen(r)
           z == Req!Unit(r, n, FALSE)
           t == [i \in 1..n |-> Req!Unit(r, i, i = n)]
<1>1. n \in Nat \ {0}
  BY ConstantsAssumption DEF TextLen
<1>2. Req!requestToBytes(r) = <<z>> \o t
  <2>1. /\ Req!dumps(Text[r]).ascii = n /\ Req!dumps(Text[r]).wide = 0
    BY DEF Req!dumps, TextLen
  <2>2. n + 2 * 0 = n /\ n + 0 = n
    BY <1>1
  <2> HIDE DEF n
  <2> QED
    BY <2>1, <2>2 DEF Req!requestToBytes
<1> HIDE DEF n
<1>3. z \in Req!UnitOf /\ z.n = n
  BY <1>1 DEF Req!UnitOf, Req!Unit
<1>4. \A i \in 1..n : t[i] \in Req!UnitOf /\ t[i].req = r
  BY <1>1 DEF Req!UnitOf, Req!Unit
<1>5. t \in Seq(Req!UnitOf) /\ Len(t) = n
  <2>1. t = [i \in 1..n |-> t[i]]
    OBVIOUS
  <2> HIDE DEF t
  <2>2. t \in [1..n -> Req!UnitOf] /\ n \in Nat
    BY <1>1, <1>4, <2>1
  <2> QED
    BY <2>2
<1> HIDE DEF z, t
<1>6. /\ <<z>> \o t \in Seq(Req!UnitOf) /\ <<z>> \o t # <<>>
      /\ Head(<<z>> \o t) = z /\ Tail(<<z>> \o t) = t
  <2> DEFINE U == Req!UnitOf
  <2>1. z \in U /\ t \in Seq(U)
    BY <1>3, <1>5
  <2> HIDE DEF U
  <2>2. <<z>> \o t \in Seq(U) /\ <<z>> \o t # <<>> /\ Head(<<z>> \o t) = z
    BY <2>1
  <2>3. Tail(<<z>> \o t) = t
    BY <2>1
  <2> QED
    BY <2>2, <2>3 DEF U
<1>7. Head(t).req = r
  BY <1>1, <1>4, <1>5
<1> QED
  BY <1>1, <1>2, <1>3, <1>5, <1>6, <1>7 DEF n

\* The text of a request parses to that request.
LEMMA TextParses ==
  ASSUME NEW r \in Request, NEW b, b = Tail(Req!requestToBytes(r))
  PROVE  Req!Parses(b) /\ Head(b).req = r
<1>1. b \in Seq(Req!UnitOf) /\ Len(b) # 0 /\ Head(b).req = r
  BY RequestBytes
<1>2. b # <<>>
  BY <1>1
<1> QED
  BY <1>1, <1>2 DEF Req!Parses

\* The texts of what was sent.
LEMMA RequestTextsType ==
  ASSUME sent \in Seq(Request)
  PROVE  /\ requestTexts \in Seq(Seq(Req!UnitOf)) /\ Len(requestTexts) = Len(sent)
         /\ Len(sent) \in Nat
         /\ \A i \in 1..Len(sent) : /\ sent[i] \in Request
                                    /\ requestTexts[i] = Req!requestToBytes(sent[i])
<1>1. \A i \in 1..Len(sent) : sent[i] \in Request
  OBVIOUS
<1>2. \A i \in 1..Len(sent) : Req!requestToBytes(sent[i]) \in Seq(Req!UnitOf)
  BY <1>1, RequestBytes
<1> DEFINE T == Seq(Req!UnitOf)
           F(i) == Req!requestToBytes(sent[i])
<1>3. \A i \in 1..Len(sent) : F(i) \in T
  BY <1>2
<1> HIDE DEF T, F
<1>4. Len(sent) \in Nat
  OBVIOUS
<1>5. [i \in 1..Len(sent) |-> F(i)] \in Seq(T) /\ Len([i \in 1..Len(sent) |-> F(i)]) = Len(sent)
  BY <1>3, <1>4, IsASeq
<1> QED
  BY <1>1, <1>4, <1>5 DEF requestTexts, T, F

\* A request more is a text more.
LEMMA RequestTextsAppend ==
  ASSUME sent \in Seq(Request), NEW r \in Request, sent' = Append(sent, r)
  PROVE  requestTexts' = Append(requestTexts, Req!requestToBytes(r))
<1>1. /\ Len(sent) \in Nat /\ Len(sent') = Len(sent) + 1 /\ sent'[Len(sent) + 1] = r
      /\ \A i \in 1..Len(sent) : sent'[i] = sent[i]
  OBVIOUS
<1> DEFINE t == Req!requestToBytes(r)
           T == Seq(Req!UnitOf)
<1>2. requestTexts' = [i \in 1..Len(sent) + 1 |-> Req!requestToBytes(sent'[i])]
  BY <1>1 DEF requestTexts
<1>3. t \in T
  BY RequestBytes
<1>4. /\ requestTexts \in Seq(T) /\ Len(requestTexts) = Len(sent)
      /\ \A i \in 1..Len(sent) : requestTexts[i] = Req!requestToBytes(sent[i])
  BY RequestTextsType
<1> HIDE DEF t, T
<1>5. /\ Append(requestTexts, t) \in Seq(T) /\ Len(Append(requestTexts, t)) = Len(sent) + 1
      /\ Append(requestTexts, t)[Len(sent) + 1] = t
      /\ \A i \in 1..Len(sent) : Append(requestTexts, t)[i] = requestTexts[i]
  BY <1>3, <1>4, AppendProperties
<1>6. \A i \in 1..Len(sent) + 1 : Append(requestTexts, t)[i] = requestTexts'[i]
  <2> TAKE i \in 1..Len(sent) + 1
  <2>1. requestTexts'[i] = Req!requestToBytes(sent'[i])
    BY <1>2
  <2>2. CASE i = Len(sent) + 1
    BY <1>1, <1>5, <2>1, <2>2 DEF t
  <2>3. CASE i # Len(sent) + 1
    <3>1. i \in 1..Len(sent)
      BY <1>1, <2>3
    <3> QED
      BY <1>1, <1>4, <1>5, <2>1, <3>1
  <2> QED
    BY <2>2, <2>3
<1>7. Append(requestTexts, t) = [i \in 1..Len(sent) + 1 |-> Append(requestTexts, t)[i]]
  BY <1>1, <1>5, ByElement
<1>8. requestTexts' = [i \in 1..Len(sent) + 1 |-> requestTexts'[i]]
  BY <1>2
<1> QED
  BY <1>6, <1>7, <1>8 DEF t

\* DataSender takes a request: it is ahead, behind everything else.
LEMMA SenderBeginStep ==
  ASSUME ReqInv, NEW r \in Request, Req!SenderBegin(r)
  PROVE  ReqInv'
<1> DEFINE t == Req!requestToBytes(r)
           U == Req!UnitOf
           k == Len(received)
<1>1. /\ dataPending = <<>> /\ sent' = Append(sent, r) /\ dataPending' = t /\ client = "open"
      /\ UNCHANGED <<pipe, client, reader, reqSize, bytesPending, buffer, received>>
  BY DEF Req!SenderBegin
<1>2. t \in Seq(U) /\ sent \in Seq(Request) /\ pipe \in Seq(U) /\ buffer \in Seq(U)
  BY RequestBytes DEF ReqInv, Req!TypeOK
<1>3. /\ sent' \in Seq(Request) /\ Len(sent') = Len(sent) + 1 /\ Len(sent) \in Nat
  BY <1>1, <1>2
<1>4. Req!TypeOK'
  BY <1>1, <1>2, <1>3 DEF ReqInv, Req!TypeOK
<1>5. requestTexts' = Append(requestTexts, t)
  BY <1>1, <1>2, RequestTextsAppend
<1>6. /\ requestTexts \in Seq(Seq(U)) /\ Len(requestTexts) = Len(sent)
      /\ k \in Nat /\ k <= Len(sent)
  BY <1>2, RequestTextsType DEF ReqInv, RequestInv, Req!TypeOK
<1>7. ASSUME NEW j \in 0..Len(sent)
      PROVE  Ahead(requestTexts', j) = Ahead(requestTexts, j) \o t
  <2>1. j \in 0..Len(requestTexts)
    BY <1>6
  <2> HIDE DEF t, U
  <2>2. Ahead(Append(requestTexts, t), j) = Ahead(requestTexts, j) \o t
    BY <1>2, <1>6, <2>1, AheadAppend
  <2> QED
    BY <1>5, <2>2
<1>8. pipe \o dataPending = pipe
  BY <1>1, <1>2, ConcatEmptySeq
<1>9. CASE reader = "size"
  <2>1. bytesPending = 0 /\ pipe = Ahead(requestTexts, k)
    BY <1>8, <1>9 DEF ReqInv, RequestInv
  <2>2. Ahead(requestTexts', k) = Ahead(requestTexts, k) \o t
    BY <1>6, <1>7
  <2> QED
    BY <1>1, <1>3, <1>4, <1>6, <1>9, <2>1, <2>2 DEF ReqInv, RequestInv
<1>10. CASE reader = "data"
  <2> DEFINE w == Tail(requestTexts[k + 1])
  <2>1. /\ k < Len(sent) /\ bytesPending > 0 /\ reqSize = Len(w)
        /\ buffer \o (pipe \o dataPending) = w \o Ahead(requestTexts, k + 1)
    BY <1>1, <1>10 DEF ReqInv, RequestInv
  <2>2. requestTexts'[k + 1] = requestTexts[k + 1]
    <3>1. k + 1 \in 1..Len(requestTexts)
      BY <1>6, <2>1
    <3> HIDE DEF t, U
    <3>2. \A i \in 1..Len(requestTexts) : Append(requestTexts, t)[i] = requestTexts[i]
      BY <1>2, <1>6, AppendProperties
    <3> QED
      BY <1>5, <3>1, <3>2
  <2>3. Ahead(requestTexts', k + 1) = Ahead(requestTexts, k + 1) \o t
    <3>1. k + 1 \in 0..Len(sent)
      BY <1>6, <2>1
    <3> QED
      BY <1>7, <3>1
  <2>4. w \in Seq(U) /\ Ahead(requestTexts, k + 1) \in Seq(U)
    <3>1. k + 1 \in 1..Len(sent) /\ k + 1 \in 0..Len(requestTexts)
      BY <1>6, <2>1
    <3>2. w \in Seq(U)
      BY <1>2, <3>1, RequestTextsType, RequestBytes, ZenonT(30)
    <3> QED
      BY <1>6, <3>1, <3>2, AheadType
  <2>5. buffer \o (pipe \o t) = w \o (Ahead(requestTexts, k + 1) \o t)
    <3> DEFINE a == Ahead(requestTexts, k + 1)
    <3>1. buffer \o pipe = w \o a
      BY <1>8, <2>1
    <3>2. /\ buffer \in Seq(U) /\ pipe \in Seq(U) /\ t \in Seq(U) /\ w \in Seq(U)
          /\ a \in Seq(U)
      BY <1>2, <2>4
    <3> HIDE DEF t, U, w, a
    <3>3. buffer \o (pipe \o t) = (buffer \o pipe) \o t
      BY <3>2, ConcatAssociative, SMTT(90)
    <3>4. w \o (a \o t) = (w \o a) \o t
      BY <3>2, ConcatAssociative, SMTT(90)
    <3> QED
      BY <3>1, <3>3, <3>4 DEF a
  <2>6. Len(received') < Len(sent') /\ Len(received') <= Len(sent')
    BY <1>1, <1>3, <1>6, <2>1, SMTT(30)
  <2> HIDE DEF t, w
  <2>7. RequestInv'
    BY <1>1, <1>10, <2>1, <2>2, <2>3, <2>5, <2>6 DEF RequestInv, t, w
  <2> QED
    BY <1>4, <2>7 DEF ReqInv
<1>11. CASE reader \notin {"size", "data"}
  <2>1. Len(received') <= Len(sent')
    BY <1>1, <1>3, <1>6
  <2> QED
    BY <1>1, <1>4, <1>11, <2>1 DEF ReqInv, RequestInv
<1> QED
  BY <1>9, <1>10, <1>11

\* A write moves a piece into the pipe.
LEMMA SenderWriteStep ==
  ASSUME ReqInv, Req!SenderWrite
  PROVE  ReqInv'
<1> DEFINE U == Req!UnitOf
<1>1. PICK n \in 1..Len(dataPending) :
        /\ n <= PipeCap - Len(pipe)
        /\ pipe' = pipe \o SubSeq(dataPending, 1, n)
        /\ dataPending' = SubSeq(dataPending, n + 1, Len(dataPending))
  BY DEF Req!SenderWrite, Req!Remaining
<1>2. client = "open" /\ UNCHANGED <<sent, client, reader, reqSize, bytesPending, buffer, received>>
  BY DEF Req!SenderWrite
<1>3. pipe \in Seq(U) /\ dataPending \in Seq(U) /\ PipeCap \in Nat
  BY ConstantsAssumption DEF ReqInv, Req!TypeOK
<1>4. /\ pipe' \in Seq(U) /\ dataPending' \in Seq(U) /\ Len(pipe') = Len(pipe) + n
      /\ pipe' \o dataPending' = pipe \o dataPending
  BY <1>1, <1>3, WritePiece, ZenonT(90)
<1>5. Len(pipe') <= PipeCap
  BY <1>1, <1>3, <1>4
<1>6. Req!TypeOK'
  BY <1>2, <1>4, <1>5 DEF ReqInv, Req!TypeOK
<1>7. requestTexts' = requestTexts
  BY <1>2 DEF requestTexts
<1>8. RequestInv'
  BY <1>2, <1>4, <1>7 DEF ReqInv, RequestInv
<1> QED
  BY <1>6, <1>8 DEF ReqInv

\* When the client goes, what is in the pipe is what it was.
LEMMA SenderCloseStep ==
  ASSUME ReqInv, Req!SenderClose
  PROVE  ReqInv'
<1>1. /\ client' = "closed" /\ client = "open"
      /\ UNCHANGED <<sent, dataPending, pipe, reader, reqSize, bytesPending, buffer, received>>
  BY DEF Req!SenderClose
<1>2. requestTexts' = requestTexts
  BY <1>1 DEF requestTexts
<1> QED
  BY <1>1, <1>2 DEF ReqInv, Req!TypeOK, RequestInv

\* What a step of requestReader may do with what it has received.
Keeps == received' = received
Queues == /\ Len(received) < Len(sent)
          /\ received' = Append(received, sent[Len(received) + 1])

\* The size that is read is that of the next request, unless the client has gone and nothing
\* is left: then the old size stays, and nothing will be read.
LEMMA ReaderSizeStep ==
  ASSUME ReqInv, Req!ReaderSize
  PROVE  ReqInv' /\ Keeps /\ reader' # "done"
<1> DEFINE U == Req!UnitOf
           k == Len(received)
           w == requestTexts[k + 1]
<1>1. /\ reader = "size" /\ (pipe # <<>> \/ client = "closed")
      /\ UNCHANGED <<sent, dataPending, client, received>>
      /\ \/ reader' = "data" /\ bytesPending' = reqSize' /\ buffer' = <<>>
         \/ reader' = "oom" /\ UNCHANGED <<bytesPending, buffer>>
  BY DEF Req!ReaderSize, Req!Wanted
<1>2. /\ sent \in Seq(Request) /\ received \in Seq(Request) /\ pipe \in Seq(U)
      /\ dataPending \in Seq(U) /\ buffer \in Seq(U) /\ reqSize \in Nat
      /\ Len(pipe) <= PipeCap /\ PipeCap \in Nat /\ bytesPending = 0 /\ k \in Nat
      /\ k <= Len(sent) /\ pipe \o dataPending = Ahead(requestTexts, k)
  BY <1>1, ConstantsAssumption DEF ReqInv, Req!TypeOK, RequestInv
<1>3. requestTexts' = requestTexts
  BY <1>1 DEF requestTexts
<1>4. ASSUME pipe' \in Seq(U), Len(pipe') <= PipeCap, reqSize' \in Nat
      PROVE  Req!TypeOK'
  <2>0. <<>> \in Seq(U) /\ Len(<<>>) = 0
    OBVIOUS
  <2>1. bytesPending' \in 0..reqSize' /\ buffer' \in Seq(U)
    <3>1. CASE bytesPending' = reqSize' /\ buffer' = <<>>
      BY <1>4, <2>0, <3>1
    <3>2. CASE UNCHANGED <<bytesPending, buffer>>
      BY <1>2, <1>4, <3>2
    <3> QED
      BY <1>1, <3>1, <3>2
  <2>2. reader' = "data" => Len(buffer') + bytesPending' = reqSize'
    <3> SUFFICES ASSUME reader' = "data" PROVE Len(buffer') + bytesPending' = reqSize'
      OBVIOUS
    <3>1. bytesPending' = reqSize' /\ buffer' = <<>>
      BY <1>1
    <3>2. Len(buffer') = 0 /\ bytesPending' = reqSize' /\ reqSize' \in Nat
      BY <1>4, <2>0, <3>1, Zenon
    <3>3. \A x, y, z : x = 0 /\ y = z /\ z \in Nat => x + y = z
      OBVIOUS
    <3> QED
      BY <3>2, <3>3, Zenon
  <2> QED
    BY <1>1, <1>2, <1>4, <2>1, <2>2 DEF ReqInv, Req!TypeOK
<1>5. CASE pipe = <<>>
  <2>1. UNCHANGED <<pipe, reqSize>>
    BY <1>5 DEF Req!ReaderSize
  <2>2. Req!TypeOK'
    BY <1>2, <1>4, <2>1
  <2>3. RequestInv'
    BY <1>1, <1>2, <1>5, <2>1 DEF RequestInv
  <2> QED
    BY <1>1, <2>2, <2>3 DEF ReqInv, Keeps
<1>6. CASE pipe # <<>>
  <2>1. pipe' = Tail(pipe) /\ reqSize' = Head(pipe).n
    BY <1>6 DEF Req!ReaderSize
  <2>2. requestTexts \in Seq(Seq(U)) /\ Len(requestTexts) = Len(sent) /\ Len(sent) \in Nat
    BY <1>2, RequestTextsType
  <2>3. k < Len(sent)
    <3> SUFFICES ASSUME k = Len(sent) PROVE FALSE
      BY <1>2, <2>2
    <3>1. Ahead(requestTexts, Len(requestTexts)) = <<>>
      BY <2>2, AheadNothing
    <3>2. pipe \o dataPending = <<>>
      BY <1>2, <2>2, <3>1
    <3>3. Len(pipe \o dataPending) = Len(pipe) + Len(dataPending)
      BY <1>2, ConcatProperties
    <3>4. Len(pipe) > 0 /\ Len(dataPending) >= 0
      BY <1>2, <1>6
    <3> QED
      BY <3>2, <3>3, <3>4
  <2>4. k + 1 \in 1..Len(sent) /\ k \in 0..Len(requestTexts) - 1 /\ k + 1 \in 0..Len(requestTexts)
    BY <1>2, <2>2, <2>3
  <2>5. sent[k + 1] \in Request /\ w = Req!requestToBytes(sent[k + 1])
    BY <1>2, <2>4, RequestTextsType
  <2>6. /\ w \in Seq(U) /\ w # <<>> /\ Head(w).n = TextLen(sent[k + 1])
        /\ Len(Tail(w)) = TextLen(sent[k + 1]) /\ TextLen(sent[k + 1]) \in Nat \ {0}
    BY <2>5, RequestBytes
  <2>7. pipe \o dataPending = w \o Ahead(requestTexts, k + 1)
    BY <1>2, <2>2, <2>4, AheadFirst
  <2>8. Ahead(requestTexts, k + 1) \in Seq(U)
    BY <2>2, <2>4, AheadType
  <2>9. /\ Head(pipe) = Head(w) /\ Tail(pipe) \in Seq(U) /\ Len(Tail(pipe)) = Len(pipe) - 1
        /\ Tail(pipe) \o dataPending = Tail(w) \o Ahead(requestTexts, k + 1)
    <3> DEFINE a == Ahead(requestTexts, k + 1)
    <3> HIDE DEF U, w, a
    <3>1. a \in Seq(U) /\ pipe \o dataPending = w \o a
      BY <2>7, <2>8 DEF a
    <3>2. /\ Head(pipe) = Head(w) /\ Tail(pipe) \in Seq(U) /\ Len(Tail(pipe)) = Len(pipe) - 1
          /\ Tail(pipe) \o dataPending = Tail(w) \o a
      <4>1. Ready(U, pipe, dataPending, w, a)
        BY <1>2, <1>6, <2>6, <3>1 DEF Ready
      <4>2. FirstTaken(U, pipe, dataPending, w, a)
        BY <4>1, ReadFirst, Zenon
      <4> QED
        BY <4>2 DEF FirstTaken
    <3> QED
      BY <3>2 DEF a
  <2> HIDE DEF w
  <2>10. reqSize' = Len(Tail(w)) /\ reqSize' \in Nat \ {0}
    BY <2>1, <2>6, <2>9
  <2>11. Req!TypeOK'
    <3>1. Len(pipe') <= PipeCap
      BY <1>2, <2>1, <2>9
    <3> QED
      BY <1>4, <2>1, <2>9, <2>10, <3>1
  <2>12. CASE reader' = "oom"
    BY <1>1, <1>2, <2>11, <2>12 DEF ReqInv, RequestInv, Keeps
  <2>13. CASE reader' = "data" /\ bytesPending' = reqSize' /\ buffer' = <<>>
    <3>1. buffer' \o (pipe' \o dataPending') = Tail(w) \o Ahead(requestTexts, k + 1)
      <4>1. pipe' \o dataPending' \in Seq(U)
        BY <1>1, <1>2, <2>1, <2>9, ConcatProperties
      <4>2. <<>> \o (pipe' \o dataPending') = pipe' \o dataPending'
        BY <4>1, ConcatEmptySeq
      <4> QED
        BY <1>1, <2>1, <2>9, <2>13, <4>2
    <3>2. bytesPending' > 0
      <4>1. reqSize' \in Nat \ {0}
        BY <2>10
      <4>2. bytesPending' \in Nat \ {0}
        BY <2>13, <4>1, Zenon
      <4> QED
        BY <4>2
    <3>3. RequestInv'
      BY <1>1, <1>2, <1>3, <2>3, <2>10, <2>13, <3>1, <3>2 DEF RequestInv, w
    <3> QED
      BY <1>1, <2>11, <2>13, <3>3 DEF ReqInv, Keeps
  <2> QED
    BY <1>1, <2>12, <2>13
<1> QED
  BY <1>5, <1>6

\* A read of the text adds a piece of the next request; the piece that completes it is
\* followed by the next one, and the request parses.
LEMMA ReaderDataStep ==
  ASSUME ReqInv, Req!ReaderData
  PROVE  ReqInv' /\ (Keeps \/ Queues) /\ reader' # "done"
<1> DEFINE U == Req!UnitOf
           k == Len(received)
           w == Tail(requestTexts[k + 1])
           a == Ahead(requestTexts, k + 1)
           n == IF Len(pipe) < bytesPending THEN Len(pipe) ELSE bytesPending
<1>1. /\ reader = "data" /\ pipe # <<>> /\ bytesPending > 0
      /\ UNCHANGED <<sent, dataPending, client, reqSize>>
      /\ pipe' = SubSeq(pipe, n + 1, Len(pipe))
      /\ bytesPending' = bytesPending - n
      /\ buffer' = buffer \o SubSeq(pipe, 1, n)
      /\ \/ bytesPending' > 0 /\ UNCHANGED <<reader, received>>
         \/ /\ bytesPending' = 0
            /\ received' = IF Req!Parses(buffer') THEN Append(received, Head(buffer').req)
                                                  ELSE received
            /\ reader' = IF Req!Parses(buffer') THEN "size" ELSE "done"
  BY DEF Req!ReaderData
<1>2. /\ sent \in Seq(Request) /\ received \in Seq(Request) /\ pipe \in Seq(U)
      /\ dataPending \in Seq(U) /\ buffer \in Seq(U) /\ reqSize \in Nat
      /\ Len(pipe) <= PipeCap /\ PipeCap \in Nat /\ bytesPending \in 0..reqSize /\ k \in Nat
      /\ Len(buffer) + bytesPending = reqSize
  BY <1>1, ConstantsAssumption DEF ReqInv, Req!TypeOK
<1>3. k < Len(sent) /\ reqSize = Len(w) /\ buffer \o (pipe \o dataPending) = w \o a
  BY <1>1 DEF ReqInv, RequestInv
<1>4. requestTexts' = requestTexts
  BY <1>1 DEF requestTexts
<1>5. /\ requestTexts \in Seq(Seq(U)) /\ Len(requestTexts) = Len(sent) /\ Len(sent) \in Nat
      /\ k + 1 \in 1..Len(sent) /\ k + 1 \in 0..Len(requestTexts)
  BY <1>2, <1>3, RequestTextsType, SMTT(30)
<1>6. sent[k + 1] \in Request /\ w = Tail(Req!requestToBytes(sent[k + 1]))
  BY <1>2, <1>5, RequestTextsType
<1>7. w \in Seq(U) /\ a \in Seq(U)
  <2>1. w \in Seq(U)
    BY <1>6, RequestBytes
  <2>2. a \in Seq(U)
    BY <1>5, AheadType
  <2> QED
    BY <2>1, <2>2
<1>8. n \in 0..Len(pipe) /\ n <= bytesPending
  BY <1>2
<1>9. /\ pipe' \in Seq(U) /\ buffer' \in Seq(U) /\ Len(buffer') = Len(buffer) + n
      /\ Len(pipe') = Len(pipe) - n /\ buffer' \o (pipe' \o dataPending) = w \o a
      /\ Len(buffer) + n = Len(w) => buffer' = w /\ pipe' \o dataPending = a
  <2> HIDE DEF U, w, a, n
  <2>1. Reading(U, buffer, pipe, dataPending, w, a, n)
    BY <1>2, <1>3, <1>7, <1>8 DEF Reading
  <2>2. PieceTaken(U, buffer, pipe, dataPending, w, a, n)
    BY <2>1, ReadPiece, Zenon
  <2> QED
    BY <1>1, <2>2 DEF PieceTaken
<1> HIDE DEF w, a, n
<1>10. /\ bytesPending' \in 0..reqSize /\ Len(buffer') + bytesPending' = reqSize
       /\ Len(pipe') <= PipeCap
       /\ bytesPending' = 0 <=> Len(buffer) + n = Len(w)
  <2>1. /\ n \in Int /\ 0 <= n /\ n <= bytesPending /\ n <= Len(pipe) /\ Len(pipe) \in Nat
        /\ Len(buffer) \in Nat /\ bytesPending \in Nat
    BY <1>2, <1>8
  <2>2. Len(buffer') = Len(buffer) + n /\ Len(pipe') = Len(pipe) - n
    BY <1>9
  <2>3. bytesPending' = bytesPending - n /\ Len(w) = Len(buffer) + bytesPending /\ reqSize = Len(w)
    BY <1>1, <1>2, <1>3
  <2>4. bytesPending' = 0 <=> Len(buffer) + n = Len(w)
    BY <2>1, <2>3
  <2> QED
    BY <1>2, <2>1, <2>2, <2>3, <2>4
<1>11. CASE bytesPending' > 0 /\ UNCHANGED <<reader, received>>
  <2>1. Req!TypeOK'
    BY <1>1, <1>2, <1>9, <1>10, <1>11 DEF ReqInv, Req!TypeOK
  <2>2. RequestInv'
    BY <1>1, <1>3, <1>4, <1>9, <1>11 DEF ReqInv, RequestInv, w, a
  <2> QED
    BY <1>1, <1>11, <2>1, <2>2 DEF ReqInv, Keeps
<1>12. CASE bytesPending' = 0
  <2>1. buffer' = w /\ pipe' \o dataPending = a
    BY <1>9, <1>10, <1>12
  <2>2. Req!Parses(buffer') /\ Head(buffer').req = sent[k + 1]
    BY <1>6, <2>1, TextParses
  <2>3. received' = Append(received, sent[k + 1]) /\ reader' = "size"
    <3>1. ~(bytesPending' > 0)
      BY <1>12
    <3>2. /\ received' = IF Req!Parses(buffer') THEN Append(received, Head(buffer').req)
                                                ELSE received
          /\ reader' = IF Req!Parses(buffer') THEN "size" ELSE "done"
      BY <1>1, <3>1, Zenon
    <3> QED
      BY <2>2, <3>2, Zenon
  <2>4. received' \in Seq(Request) /\ Len(received') = k + 1
    BY <1>2, <1>6, <2>3
  <2>5. Req!TypeOK'
    BY <1>1, <1>2, <1>9, <1>10, <2>3, <2>4 DEF ReqInv, Req!TypeOK
  <2>6. RequestInv'
    <3>1. Len(received') <= Len(sent') /\ sent' = sent /\ dataPending' = dataPending
      BY <1>1, <1>5, <2>4
    <3>2. pipe' \o dataPending' = Ahead(requestTexts', Len(received'))
      BY <1>4, <2>1, <2>4, <3>1 DEF a
    <3> QED
      BY <1>12, <2>3, <3>1, <3>2 DEF RequestInv
  <2> QED
    BY <1>3, <2>3, <2>5, <2>6 DEF ReqInv, Queues
<1> QED
  BY <1>1, <1>11, <1>12

\* requestReader meets the end of the pipe when the client has gone, and never else.
LEMMA ReaderEofStep ==
  ASSUME ReqInv, Req!ReaderEof
  PROVE  ReqInv' /\ Keeps /\ client = "closed"
<1>1. /\ reader = "data" /\ Req!EndOfPipe /\ reader' = "done"
      /\ UNCHANGED <<sent, dataPending, pipe, client, reqSize, bytesPending, buffer, received>>
  BY DEF Req!ReaderEof
<1>2. client = "closed"
  <2>1. client = "closed" \/ bytesPending > 0
    BY <1>1 DEF ReqInv, RequestInv
  <2> QED
    BY <1>1, <2>1 DEF Req!EndOfPipe
<1> QED
  BY <1>1, <1>2 DEF ReqInv, Req!TypeOK, RequestInv, Keeps

-----------------------------------------------------------------------------
(* The response pipe *)

RespInv == Resp!TypeOK /\ ResponseInv

\* The size and the text of a response.
responseText(r) == <<Resp!Unit(r, Size[r])>> \o Resp!text(r)

\* A response is a size and as many units, which name it.
LEMMA ResponseBytes ==
  ASSUME NEW r \in Request
  PROVE  /\ responseText(r) \in Seq(Resp!UnitOf) /\ responseText(r) # <<>>
         /\ Resp!Unit(r, Size[r]) \in Resp!UnitOf /\ Head(responseText(r)).n = Size[r]
         /\ Tail(responseText(r)) = Resp!text(r) /\ Resp!text(r) \in Seq(Resp!UnitOf)
         /\ Len(Resp!text(r)) = Size[r] /\ Size[r] \in Nat \ {0}
         /\ Head(Resp!text(r)).resp = r
<1> DEFINE n == Size[r]
           z == Resp!Unit(r, n)
           t == Resp!text(r)
<1>1. n \in Nat \ {0}
  BY ConstantsAssumption
<1> HIDE DEF n
<1>2. z \in Resp!UnitOf /\ z.n = n
  BY <1>1 DEF Resp!UnitOf, Resp!Unit
<1>3. t = [i \in 1..n |-> Resp!Unit(r, i)]
  BY DEF Resp!text, n
<1>4. \A i \in 1..n : t[i] \in Resp!UnitOf /\ t[i].resp = r
  BY <1>1, <1>3 DEF Resp!UnitOf, Resp!Unit
<1> HIDE DEF z, t
<1>5. t \in Seq(Resp!UnitOf) /\ Len(t) = n
  <2>1. t \in [1..n -> Resp!UnitOf] /\ n \in Nat
    BY <1>1, <1>3, <1>4
  <2> QED
    BY <2>1
<1>6. /\ <<z>> \o t \in Seq(Resp!UnitOf) /\ <<z>> \o t # <<>>
      /\ Head(<<z>> \o t) = z /\ Tail(<<z>> \o t) = t
  <2> DEFINE U == Resp!UnitOf
  <2>1. z \in U /\ t \in Seq(U)
    BY <1>2, <1>5
  <2> HIDE DEF U
  <2>2. <<z>> \o t \in Seq(U) /\ <<z>> \o t # <<>> /\ Head(<<z>> \o t) = z
    BY <2>1
  <2>3. Tail(<<z>> \o t) = t
    BY <2>1
  <2> QED
    BY <2>2, <2>3 DEF U
<1>7. Head(t).resp = r
  BY <1>1, <1>4, <1>5
<1>8. responseText(r) = <<z>> \o t
  BY DEF responseText, z, n, t
<1> QED
  BY <1>1, <1>2, <1>5, <1>6, <1>7, <1>8 DEF n, t, z

\* The text of a response decodes to that response.
LEMMA TextDecodes ==
  ASSUME NEW r \in Request, NEW b, b = Resp!text(r)
  PROVE  Resp!Decodes(b) /\ Head(b).resp = r
<1>1. b \in Seq(Resp!UnitOf) /\ Len(b) # 0 /\ Head(b).resp = r
  BY ResponseBytes
<1>2. b # <<>>
  BY <1>1
<1> QED
  BY <1>1, <1>2 DEF Resp!Decodes

\* The texts of what was taken from responseQueue.
LEMMA ResponseTextsType ==
  ASSUME answered \in Seq(Request)
  PROVE  /\ responseTexts \in Seq(Seq(Resp!UnitOf)) /\ Len(responseTexts) = Len(answered)
         /\ Len(answered) \in Nat
         /\ \A i \in 1..Len(answered) : /\ answered[i] \in Request
                                        /\ responseTexts[i] = responseText(answered[i])
<1>1. \A i \in 1..Len(answered) : answered[i] \in Request
  OBVIOUS
<1> DEFINE T == Seq(Resp!UnitOf)
           F(i) == responseText(answered[i])
<1>2. \A i \in 1..Len(answered) : F(i) \in T
  BY <1>1, ResponseBytes
<1>3. responseTexts = [i \in 1..Len(answered) |-> F(i)]
  BY DEF responseTexts, responseText
<1> HIDE DEF T, F
<1>4. Len(answered) \in Nat
  OBVIOUS
<1>5. /\ [i \in 1..Len(answered) |-> F(i)] \in Seq(T)
      /\ Len([i \in 1..Len(answered) |-> F(i)]) = Len(answered)
  BY <1>2, <1>4, IsASeq
<1> QED
  BY <1>1, <1>3, <1>4, <1>5 DEF T, F

\* A response more is a text more.
LEMMA ResponseTextsAppend ==
  ASSUME answered \in Seq(Request), NEW r \in Request, answered' = Append(answered, r)
  PROVE  responseTexts' = Append(responseTexts, responseText(r))
<1>1. /\ Len(answered) \in Nat /\ Len(answered') = Len(answered) + 1
      /\ answered'[Len(answered) + 1] = r
      /\ \A i \in 1..Len(answered) : answered'[i] = answered[i]
  OBVIOUS
<1> DEFINE t == responseText(r)
           T == Seq(Resp!UnitOf)
<1>2. responseTexts' = [i \in 1..Len(answered) + 1 |-> responseText(answered'[i])]
  BY <1>1 DEF responseTexts, responseText
<1>3. t \in T
  BY ResponseBytes
<1>4. /\ responseTexts \in Seq(T) /\ Len(responseTexts) = Len(answered)
      /\ \A i \in 1..Len(answered) : responseTexts[i] = responseText(answered[i])
  BY ResponseTextsType
<1> HIDE DEF t, T
<1>5. /\ Append(responseTexts, t) \in Seq(T)
      /\ Len(Append(responseTexts, t)) = Len(answered) + 1
      /\ Append(responseTexts, t)[Len(answered) + 1] = t
      /\ \A i \in 1..Len(answered) : Append(responseTexts, t)[i] = responseTexts[i]
  BY <1>3, <1>4, AppendProperties
<1>6. \A i \in 1..Len(answered) + 1 : Append(responseTexts, t)[i] = responseTexts'[i]
  <2> TAKE i \in 1..Len(answered) + 1
  <2>1. responseTexts'[i] = responseText(answered'[i])
    BY <1>2
  <2>2. CASE i = Len(answered) + 1
    BY <1>1, <1>5, <2>1, <2>2 DEF t
  <2>3. CASE i # Len(answered) + 1
    <3>1. i \in 1..Len(answered)
      BY <1>1, <2>3
    <3> QED
      BY <1>1, <1>4, <1>5, <2>1, <3>1
  <2> QED
    BY <2>2, <2>3
<1>7. Append(responseTexts, t) = [i \in 1..Len(answered) + 1 |-> Append(responseTexts, t)[i]]
  BY <1>1, <1>5, ByElement
<1>8. responseTexts' = [i \in 1..Len(answered) + 1 |-> responseTexts'[i]]
  BY <1>2
<1> QED
  BY <1>6, <1>7, <1>8 DEF t

\* What the response pipe and its ends hold, by its type.
LEMMA ResponseTypes ==
  ASSUME RespInv
  PROVE  /\ answered \in Seq(Request) /\ results \in Seq(Request)
         /\ Len(answered) \in Nat /\ Len(results) \in Nat /\ Len(results) <= Len(answered)
         /\ respPipe \in Seq(Resp!UnitOf) /\ dataBuffer \in Seq(Resp!UnitOf)
         /\ Len(respPipe) \in Nat /\ Len(dataBuffer) \in Nat /\ PipeCap \in Nat
         /\ Len(respPipe) <= PipeCap
         /\ bufflen \in Nat /\ bytesWritten \in Nat /\ dataRemaining \in Nat
BY ConstantsAssumption DEF RespInv, Resp!TypeOK, ResponseInv

\* What is not written is the end of the last response, once its size is written.
LEMMA Unwritten ==
  ASSUME RespInv
  PROVE  /\ unwritten \in Seq(Resp!UnitOf)
         /\ sizeSent = "yes" /\ bytesWritten < bufflen =>
              /\ answered # <<>> /\ answered[Len(answered)] \in Request
              /\ unwritten = SubSeq(Resp!text(answered[Len(answered)]), bytesWritten + 1, bufflen)
              /\ Len(Resp!text(answered[Len(answered)])) = bufflen
         /\ sizeSent = "no" =>
              /\ answered # <<>> /\ answered[Len(answered)] \in Request
              /\ unwritten = responseText(answered[Len(answered)])
<1> DEFINE r == answered[Len(answered)]
<1>1. /\ answered \in Seq(Request) /\ bufflen \in Nat /\ bytesWritten \in Nat
      /\ sizeSent \in {"yes", "no"} /\ (sizeSent = "yes" => bytesWritten <= bufflen)
      /\ answered = <<>> => sizeSent = "yes" /\ bytesWritten = 0 /\ bufflen = 0
      /\ answered # <<>> => bufflen = Size[r]
  BY DEF RespInv, Resp!TypeOK, ResponseInv
<1>2. answered # <<>> => r \in Request /\ Len(answered) \in 1..Len(answered)
  BY <1>1
<1>3. answered # <<>> => Resp!text(r) \in Seq(Resp!UnitOf) /\ Len(Resp!text(r)) = bufflen
  BY <1>1, <1>2, ResponseBytes
<1>4. CASE sizeSent = "no"
  <2>1. answered # <<>>
    BY <1>1, <1>4
  <2>2. unwritten = responseText(r)
    BY <1>1, <1>2, <1>4, <2>1, ResponseTextsType DEF unwritten
  <2> QED
    BY <1>2, <1>4, <2>1, <2>2, ResponseBytes
<1>5. CASE sizeSent = "yes" /\ bytesWritten = bufflen
  <2>1. unwritten = <<>> /\ <<>> \in Seq(Resp!UnitOf)
    BY <1>5 DEF unwritten
  <2> QED
    BY <1>1, <1>5, <2>1
<1>6. CASE sizeSent = "yes" /\ bytesWritten < bufflen
  <2>1. answered # <<>>
    BY <1>1, <1>6
  <2>2. unwritten = SubSeq(Resp!text(r), bytesWritten + 1, bufflen)
    <3>1. sizeSent # "no" /\ bytesWritten # bufflen
      BY <1>1, <1>6
    <3> QED
      BY <3>1, Zenon DEF unwritten
  <2>3. SubSeq(Resp!text(r), bytesWritten + 1, bufflen) \in Seq(Resp!UnitOf)
    <3> DEFINE U == Resp!UnitOf
               t == Resp!text(r)
    <3>1. t \in Seq(U) /\ Len(t) = bufflen
      BY <1>3, <2>1
    <3> HIDE DEF U, t
    <3>2. bytesWritten \in 0..Len(t)
      <4>1. bytesWritten \in Nat /\ bufflen \in Nat /\ bytesWritten < bufflen
        BY <1>1, <1>6
      <4>2. bytesWritten \in 0..bufflen
        BY <4>1
      <4> QED
        BY <3>1, <4>2
    <3>3. SubSeq(t, bytesWritten + 1, Len(t)) \in Seq(U)
      BY <3>1, <3>2, TextsAfter
    <3> QED
      BY <3>1, <3>3 DEF U, t
  <2> QED
    BY <1>2, <1>3, <1>6, <2>1, <2>2, <2>3
<1> QED
  BY <1>1, <1>4, <1>5, <1>6

\* responseWriter writes: what moves from it to the pipe stays ahead of the client.
LEMMA Refilled ==
  ASSUME RespInv, respPipe' \o unwritten' = respPipe \o unwritten, answered # <<>>,
         UNCHANGED <<answered, bufflen, comm, dataRemaining, dataBuffer, results>>
  PROVE  ResponseInv'
<1>1. responseTexts' = responseTexts
  BY DEF responseTexts
<1> DEFINE x == respPipe \o unwritten
<1>2. respPipe' \o unwritten' = x
  OBVIOUS
<1>3. /\ Len(results) <= Len(answered) /\ bufflen = Size[answered[Len(answered)]]
      /\ comm # "failed" =>
           \/ /\ comm = "poll" /\ dataRemaining = 0 /\ dataBuffer = <<>>
              /\ x = Ahead(responseTexts, Len(results))
           \/ /\ Len(results) < Len(answered) /\ dataRemaining > 0
              /\ Len(dataBuffer) + dataRemaining = Len(Tail(responseTexts[Len(results) + 1]))
              /\ dataBuffer \o x = Tail(responseTexts[Len(results) + 1])
                                     \o Ahead(responseTexts, Len(results) + 1)
  BY DEF RespInv, ResponseInv
<1> HIDE DEF x
<1> QED
  BY <1>1, <1>2, <1>3 DEF ResponseInv

\* The size is written: the text is what is left.
LEMMA WriterSizeStep ==
  ASSUME RespInv, Resp!WriterSize
  PROVE  RespInv'
<1> DEFINE U == Resp!UnitOf
           r == answered[Len(answered)]
           z == Resp!Unit(r, Size[r])
           t == Resp!text(r)
<1>1. /\ sizeSent = "no" /\ Len(respPipe) < PipeCap
      /\ respPipe' = Append(respPipe, Resp!Unit(Last(answered), bufflen))
      /\ sizeSent' = "yes" /\ bytesWritten' = 0
      /\ UNCHANGED <<server, answered, bufflen, comm, dataRemaining, dataBuffer, results>>
  BY DEF Resp!WriterSize, Resp!SizeField, Resp!Last, Last
<1>2. /\ answered # <<>> /\ r \in Request /\ unwritten = responseText(r)
      /\ Last(answered) = r /\ bufflen = Size[r]
  BY <1>1, Unwritten DEF Last, RespInv, ResponseInv
<1>3. z \in U /\ t \in Seq(U) /\ Len(t) = Size[r] /\ Size[r] \in Nat \ {0} /\ respPipe \in Seq(U)
  BY <1>2, ResponseBytes, ResponseTypes
<1>4. respPipe' = Append(respPipe, z) /\ unwritten = <<z>> \o t
  BY <1>1, <1>2 DEF responseText
<1>5. unwritten' = SubSeq(t, 0 + 1, Len(t))
  <2>1. sizeSent' # "no" /\ bytesWritten' # bufflen' /\ bytesWritten' = 0 /\ bufflen' = Len(t)
    BY <1>1, <1>2, <1>3
  <2> QED
    BY <1>1, <2>1 DEF unwritten
<1> HIDE DEF U, r, z, t
<1>6. unwritten' = t
  BY <1>3, <1>5, SubSeqFull
<1>7. /\ respPipe' \in Seq(U) /\ Len(respPipe') = Len(respPipe) + 1
      /\ respPipe' = respPipe \o <<z>> /\ <<z>> \in Seq(U)
  BY <1>3, <1>4
<1>8. respPipe' \o unwritten' = respPipe \o unwritten
  <2>1. respPipe \in Seq(U) /\ <<z>> \in Seq(U) /\ t \in Seq(U)
    BY <1>3, <1>7
  <2>2. (respPipe \o <<z>>) \o t = respPipe \o (<<z>> \o t)
    BY <2>1, ConcatAssociative, SMTT(90)
  <2> QED
    BY <1>4, <1>6, <1>7, <2>2
<1>9. ResponseInv'
  BY <1>1, <1>2, <1>8, Refilled
<1>10. Len(respPipe') <= PipeCap
  BY <1>1, <1>7, ResponseTypes
<1>11. bytesWritten' \in Nat /\ bytesWritten' <= bufflen'
  BY <1>1, ResponseTypes
<1>12. Resp!TypeOK'
  BY <1>1, <1>7, <1>10, <1>11 DEF RespInv, Resp!TypeOK, U
<1> QED
  BY <1>9, <1>12 DEF RespInv

\* A piece of the text is written.
LEMMA WriterDataStep ==
  ASSUME RespInv, Resp!WriterData
  PROVE  RespInv'
<1> DEFINE U == Resp!UnitOf
           r == answered[Len(answered)]
           t == Resp!text(r)
           w == bytesWritten
<1>1. /\ sizeSent = "yes" /\ w < bufflen
      /\ UNCHANGED <<server, answered, sizeSent, bufflen, comm, dataRemaining, dataBuffer, results>>
  BY DEF Resp!WriterData
<1>2. PICK n \in 1..(bufflen - w) :
        /\ n <= PipeCap - Len(respPipe)
        /\ respPipe' = respPipe \o SubSeq(Resp!text(Last(answered)), w + 1, w + n)
        /\ bytesWritten' = w + n
  BY DEF Resp!WriterData, Resp!Last, Last
<1>3. /\ answered # <<>> /\ r \in Request /\ Last(answered) = r /\ Len(t) = bufflen
      /\ unwritten = SubSeq(t, w + 1, bufflen)
  BY <1>1, Unwritten DEF Last
<1>4. /\ t \in Seq(U) /\ respPipe \in Seq(U) /\ w \in Nat /\ bufflen \in Nat
      /\ Len(respPipe) \in Nat /\ PipeCap \in Nat
  BY <1>3, ResponseBytes, ResponseTypes
<1>5. respPipe' = respPipe \o SubSeq(t, w + 1, w + n)
  BY <1>2, <1>3
<1> HIDE DEF U, r, t, w
<1>6. w + n \in 0..bufflen /\ w + 1 \in 1..bufflen /\ w + n \in Nat
  BY <1>1, <1>2, <1>4
<1>7. unwritten' = SubSeq(t, w + n + 1, bufflen)
  <2>1. CASE w + n = bufflen
    <3>1. bytesWritten' = bufflen' /\ sizeSent' # "no"
      BY <1>1, <1>2, <2>1
    <3>2. unwritten' = <<>>
      BY <3>1, Zenon DEF unwritten
    <3>3. SubSeq(t, bufflen + 1, bufflen) = <<>>
      BY <1>4, SubSeqEmpty
    <3> QED
      BY <2>1, <3>2, <3>3
  <2>2. CASE w + n # bufflen
    <3>1. bytesWritten' # bufflen' /\ sizeSent' # "no"
      BY <1>1, <1>2, <2>2
    <3>2. unwritten' = SubSeq(Resp!text(answered'[Len(answered')]), bytesWritten' + 1, bufflen')
      BY <3>1, Zenon DEF unwritten
    <3> QED
      BY <1>1, <1>2, <3>2 DEF t, r
  <2> QED
    BY <2>1, <2>2
<1>8. /\ SubSeq(t, w + 1, w + n) \in Seq(U) /\ Len(SubSeq(t, w + 1, w + n)) = n
      /\ SubSeq(t, w + n + 1, bufflen) \in Seq(U)
      /\ SubSeq(t, w + 1, w + n) \o SubSeq(t, w + n + 1, bufflen) = SubSeq(t, w + 1, bufflen)
  <2>1. Len(t) = bufflen
    BY <1>3
  <2>2. SubSeq(t, w + n + 1, Len(t)) \in Seq(U)
    BY <1>4, <1>6, <2>1, TextsAfter
  <2>3. SubSeq(t, w + 1, w + n) \in Seq(U) /\ Len(SubSeq(t, w + 1, w + n)) = n
    BY <1>2, <1>4, <1>6, <2>1
  <2>4. /\ w + 1 \in 1..Len(t) + 1 /\ w + n \in (w + 1) - 1..Len(t)
        /\ bufflen \in w + n..Len(t)
    BY <1>2, <1>4, <1>6, <2>1
  <2>5. SubSeq(t, w + 1, w + n) \o SubSeq(t, w + n + 1, bufflen) = SubSeq(t, w + 1, bufflen)
    BY <1>4, <2>4, ConcatAdjacentSubSeq
  <2> QED
    BY <2>1, <2>2, <2>3, <2>5
<1> DEFINE x == SubSeq(t, w + 1, w + n)
           y == SubSeq(t, w + n + 1, bufflen)
<1>9. /\ x \in Seq(U) /\ Len(x) = n /\ y \in Seq(U) /\ respPipe' = respPipe \o x
      /\ unwritten' = y /\ unwritten = x \o y
  BY <1>3, <1>5, <1>7, <1>8
<1> HIDE DEF x, y
<1>10. respPipe' \o unwritten' = respPipe \o unwritten
  <2>1. respPipe \in Seq(U) /\ x \in Seq(U) /\ y \in Seq(U)
    BY <1>4, <1>9
  <2>2. (respPipe \o x) \o y = respPipe \o (x \o y)
    BY <2>1, ConcatAssociative, SMTT(90)
  <2> QED
    BY <1>9, <2>2
<1>11. ResponseInv'
  BY <1>1, <1>3, <1>10, Refilled
<1>12. respPipe' \in Seq(U) /\ Len(respPipe') = Len(respPipe) + n
  BY <1>4, <1>9, ConcatProperties
<1>13. Len(respPipe') <= PipeCap
  BY <1>2, <1>4, <1>12
<1>14. bytesWritten' \in Nat /\ bytesWritten' <= bufflen'
  BY <1>1, <1>2, <1>4, <1>6
<1>15. Resp!TypeOK'
  BY <1>1, <1>12, <1>13, <1>14 DEF RespInv, Resp!TypeOK, U
<1> QED
  BY <1>11, <1>15 DEF RespInv

\* The next response: it is ahead, behind everything else.
LEMMA WriterPopStep ==
  ASSUME RespInv, NEW r \in Request, Resp!WriterPop(r)
  PROVE  RespInv'
<1> DEFINE t == responseText(r)
           U == Resp!UnitOf
           k == Len(results)
<1>1. /\ sizeSent = "yes" /\ bytesWritten = bufflen /\ answered' = Append(answered, r)
      /\ bufflen' = Size[r] /\ sizeSent' = "no"
      /\ UNCHANGED <<server, bytesWritten, respPipe, comm, dataRemaining, dataBuffer, results>>
  BY DEF Resp!WriterPop
<1>2. t \in Seq(U) /\ answered \in Seq(Request) /\ respPipe \in Seq(U) /\ dataBuffer \in Seq(U)
  BY ResponseBytes, ResponseTypes
<1>3. /\ answered' \in Seq(Request) /\ Len(answered') = Len(answered) + 1 /\ Len(answered) \in Nat
      /\ answered'[Len(answered')] = r /\ answered' # <<>> /\ bufflen' \in Nat
  <2>1. bufflen' \in Nat
    BY <1>1, ResponseBytes
  <2>2. answered' = Append(answered, r) /\ answered \in Seq(Request)
    BY <1>1, <1>2
  <2>3. /\ answered' \in Seq(Request) /\ Len(answered') = Len(answered) + 1
        /\ Len(answered) \in Nat /\ answered'[Len(answered) + 1] = r
    BY <2>2, AppendProperties
  <2>4. answered' # <<>>
    BY <2>3
  <2> QED
    BY <2>1, <2>3, <2>4
<1>4. Resp!TypeOK'
  BY <1>1, <1>3 DEF RespInv, Resp!TypeOK
<1>5. responseTexts' = Append(responseTexts, t)
  BY <1>1, <1>2, ResponseTextsAppend
<1>6. /\ responseTexts \in Seq(Seq(U)) /\ Len(responseTexts) = Len(answered)
      /\ k \in Nat /\ k <= Len(answered)
  BY <1>2, ResponseTextsType, ResponseTypes
<1>7. ASSUME NEW j \in 0..Len(answered)
      PROVE  Ahead(responseTexts', j) = Ahead(responseTexts, j) \o t
  <2>1. j \in 0..Len(responseTexts)
    BY <1>6
  <2> HIDE DEF t, U
  <2>2. Ahead(Append(responseTexts, t), j) = Ahead(responseTexts, j) \o t
    BY <1>2, <1>6, <2>1, AheadAppend
  <2> QED
    BY <1>5, <2>2
<1>8. respPipe \o unwritten = respPipe
  <2>1. unwritten = <<>>
    <3>1. sizeSent # "no"
      BY <1>1
    <3> QED
      BY <1>1, <3>1, Zenon DEF unwritten
  <2> QED
    BY <1>2, <2>1, ConcatEmptySeq
<1>9. unwritten' = t
  <2>1. unwritten' = responseTexts'[Len(answered')]
    BY <1>1, Zenon DEF unwritten
  <2>2. answered' \in Seq(Request) /\ Len(answered') \in 1..Len(answered')
    BY <1>3
  <2>3. responseTexts'[Len(answered')] = responseText(answered'[Len(answered')])
    <3>1. \A i \in 1..Len(answered') : responseTexts'[i] = responseText(answered'[i])
      BY DEF responseTexts, responseText
    <3> QED
      BY <2>2, <3>1, Zenon
  <2> QED
    BY <1>3, <2>1, <2>3
<1>10. Len(results') < Len(answered') /\ Len(results') <= Len(answered')
  BY <1>1, <1>3, <1>6
<1>11. CASE comm = "poll" /\ dataRemaining = 0 /\ dataBuffer = <<>>
            /\ respPipe \o unwritten = Ahead(responseTexts, k)
  <2>1. k \in 0..Len(answered)
    BY <1>2, <1>3, <1>6
  <2>2. Ahead(responseTexts', k) = Ahead(responseTexts, k) \o t
    BY <1>7, <2>1
  <2>3. respPipe' \o unwritten' = Ahead(responseTexts', Len(results'))
    BY <1>1, <1>8, <1>9, <1>11, <2>2
  <2> QED
    BY <1>1, <1>3, <1>4, <1>10, <1>11, <2>3 DEF RespInv, ResponseInv
<1>12. CASE /\ k < Len(answered) /\ dataRemaining > 0
            /\ Len(dataBuffer) + dataRemaining = Len(Tail(responseTexts[k + 1]))
            /\ dataBuffer \o (respPipe \o unwritten)
                 = Tail(responseTexts[k + 1]) \o Ahead(responseTexts, k + 1)
  <2> DEFINE w == Tail(responseTexts[k + 1])
             a == Ahead(responseTexts, k + 1)
  <2>1. k + 1 \in 0..Len(answered) /\ k + 1 \in 1..Len(answered)
    BY <1>3, <1>6, <1>12
  <2>2. responseTexts'[k + 1] = responseTexts[k + 1]
    <3>1. k + 1 \in 1..Len(responseTexts)
      BY <1>6, <2>1
    <3> HIDE DEF t, U
    <3>2. \A i \in 1..Len(responseTexts) : Append(responseTexts, t)[i] = responseTexts[i]
      BY <1>2, <1>6, AppendProperties
    <3> QED
      BY <1>5, <3>1, <3>2
  <2>3. Ahead(responseTexts', k + 1) = a \o t
    BY <1>7, <2>1
  <2>4. w \in Seq(U) /\ a \in Seq(U)
    <3>1. w \in Seq(U)
      BY <1>2, <2>1, ResponseTextsType, ResponseBytes, SMTT(30)
    <3>2. k + 1 \in 0..Len(responseTexts)
      BY <1>6, <2>1
    <3> QED
      BY <1>6, <3>1, <3>2, AheadType
  <2>5. dataBuffer \o (respPipe \o t) = w \o (a \o t)
    <3>1. dataBuffer \o respPipe = w \o a
      BY <1>8, <1>12
    <3>2. /\ dataBuffer \in Seq(U) /\ respPipe \in Seq(U) /\ t \in Seq(U) /\ w \in Seq(U)
          /\ a \in Seq(U)
      BY <1>2, <2>4
    <3> HIDE DEF t, U, w, a
    <3>3. dataBuffer \o (respPipe \o t) = (dataBuffer \o respPipe) \o t
      BY <3>2, ConcatAssociative, SMTT(90)
    <3>4. w \o (a \o t) = (w \o a) \o t
      BY <3>2, ConcatAssociative, SMTT(90)
    <3> QED
      BY <3>1, <3>3, <3>4
  <2>6. /\ dataRemaining' > 0
        /\ Len(dataBuffer') + dataRemaining' = Len(Tail(responseTexts'[Len(results') + 1]))
    BY <1>1, <1>12, <2>2
  <2>7. dataBuffer' \o (respPipe' \o unwritten')
          = Tail(responseTexts'[Len(results') + 1]) \o Ahead(responseTexts', Len(results') + 1)
    BY <1>1, <1>9, <2>2, <2>3, <2>5
  <2>8. ResponseInv'
    <3>1. bufflen' = Size[answered'[Len(answered')]] /\ answered' # <<>>
      BY <1>1, <1>3
    <3> QED
      BY <1>10, <2>6, <2>7, <3>1 DEF ResponseInv
  <2> QED
    BY <1>4, <2>8 DEF RespInv
<1>13. CASE comm = "failed"
  BY <1>1, <1>3, <1>4, <1>10, <1>13 DEF RespInv, ResponseInv
<1> QED
  BY <1>11, <1>12, <1>13 DEF RespInv, ResponseInv

\* What a step of the communication thread may do with its results.
KeepsResults == results' = results
Returns == /\ Len(results) < Len(answered)
           /\ results' = Append(results, answered[Len(results) + 1])

\* When the server dies, what is in the pipe is what it was.
LEMMA ServerDieStep ==
  ASSUME RespInv, Resp!ServerDie
  PROVE  RespInv'
<1>1. /\ server' = "dead"
      /\ UNCHANGED <<answered, sizeSent, bytesWritten, bufflen, respPipe, comm, dataRemaining,
                     dataBuffer, results>>
  BY DEF Resp!ServerDie
<1>2. responseTexts' = responseTexts
  BY <1>1 DEF responseTexts
<1>3. unwritten' = unwritten
  BY <1>1, <1>2 DEF unwritten
<1> QED
  BY <1>1, <1>2, <1>3 DEF RespInv, Resp!TypeOK, ResponseInv

\* The communication thread stops over a closed pipe when the server has died.
LEMMA CommHangupStep ==
  ASSUME RespInv, Resp!CommHangup
  PROVE  RespInv' /\ KeepsResults /\ server = "dead"
<1>1. /\ server = "dead" /\ comm' = "failed"
      /\ UNCHANGED <<server, answered, sizeSent, bytesWritten, bufflen, respPipe, dataRemaining,
                     dataBuffer, results>>
  BY DEF Resp!CommHangup
<1> QED
  BY <1>1 DEF RespInv, Resp!TypeOK, ResponseInv, KeepsResults

\* The size that is read is that of the next response; a response that is half read goes on.
LEMMA CommReadableStep ==
  ASSUME RespInv, Resp!CommReadable
  PROVE  RespInv' /\ KeepsResults /\ comm' # "failed"
<1> DEFINE U == Resp!UnitOf
           k == Len(results)
           w == responseTexts[k + 1]
           a == Ahead(responseTexts, k + 1)
<1>1. /\ comm = "poll" /\ respPipe # <<>> /\ comm' = "process"
      /\ \/ /\ dataRemaining = 0 /\ dataRemaining' = Head(respPipe).n /\ respPipe' = Tail(respPipe)
         \/ dataRemaining # 0 /\ UNCHANGED <<dataRemaining, respPipe>>
      /\ UNCHANGED <<server, answered, sizeSent, bytesWritten, bufflen, dataBuffer, results>>
  BY DEF Resp!CommReadable
<1>2. responseTexts' = responseTexts
  BY <1>1 DEF responseTexts
<1>3. unwritten' = unwritten
  BY <1>1, <1>2 DEF unwritten
<1>4. CASE dataRemaining # 0 /\ UNCHANGED <<dataRemaining, respPipe>>
  <2>1. Resp!TypeOK'
    BY <1>1, <1>4 DEF RespInv, Resp!TypeOK
  <2>2. ResponseInv'
    BY <1>1, <1>2, <1>3, <1>4 DEF RespInv, ResponseInv
  <2> QED
    BY <1>1, <2>1, <2>2 DEF RespInv, KeepsResults
<1>5. CASE /\ dataRemaining = 0 /\ dataRemaining' = Head(respPipe).n
           /\ respPipe' = Tail(respPipe)
  <2>1. /\ answered \in Seq(Request) /\ Len(answered) \in Nat /\ k \in Nat /\ k <= Len(answered)
        /\ respPipe \in Seq(U) /\ unwritten \in Seq(U) /\ Len(respPipe) <= PipeCap
        /\ Len(respPipe) \in Nat /\ PipeCap \in Nat
    BY ResponseTypes, Unwritten
  <2>2. dataBuffer = <<>> /\ respPipe \o unwritten = Ahead(responseTexts, k)
    BY <1>1, <1>5 DEF RespInv, ResponseInv
  <2>3. responseTexts \in Seq(Seq(U)) /\ Len(responseTexts) = Len(answered)
    BY <2>1, ResponseTextsType
  <2>4. k < Len(answered)
    <3> SUFFICES ASSUME k = Len(answered) PROVE FALSE
      BY <2>1
    <3>1. Ahead(responseTexts, k) = <<>>
      BY <2>3, AheadNothing
    <3>2. respPipe \o unwritten # <<>>
      <4> HIDE DEF U
      <4>1. Len(respPipe \o unwritten) = Len(respPipe) + Len(unwritten)
        BY <2>1, ConcatProperties
      <4>2. Len(respPipe) # 0 /\ Len(unwritten) \in Nat
        BY <1>1, <2>1
      <4>3. Len(respPipe \o unwritten) # 0
        BY <2>1, <4>1, <4>2
      <4> QED
        BY <4>3
    <3> QED
      BY <2>2, <3>1, <3>2
  <2>5. /\ k + 1 \in 1..Len(answered) /\ k \in 0..Len(responseTexts) - 1
        /\ k + 1 \in 0..Len(responseTexts)
    BY <2>1, <2>3, <2>4
  <2>6. /\ answered[k + 1] \in Request /\ w = responseText(answered[k + 1])
    BY <2>1, <2>5, ResponseTextsType
  <2>7. /\ w \in Seq(U) /\ w # <<>> /\ Tail(w) \in Seq(U) /\ Head(w).n = Size[answered[k + 1]]
        /\ Len(Tail(w)) = Size[answered[k + 1]] /\ Size[answered[k + 1]] \in Nat \ {0}
    BY <2>6, ResponseBytes
  <2>8. respPipe \o unwritten = w \o a
    BY <2>2, <2>3, <2>5, AheadFirst
  <2>9. a \in Seq(U)
    BY <2>3, <2>5, AheadType
  <2> HIDE DEF U, w, a
  <2>10. /\ Head(respPipe) = Head(w) /\ Tail(respPipe) \in Seq(U)
         /\ Len(Tail(respPipe)) = Len(respPipe) - 1
         /\ Tail(respPipe) \o unwritten = Tail(w) \o a
    <3>1. Ready(U, respPipe, unwritten, w, a)
      BY <1>1, <2>1, <2>7, <2>8, <2>9 DEF Ready
    <3>2. FirstTaken(U, respPipe, unwritten, w, a)
      BY <3>1, ReadFirst, Zenon
    <3> QED
      BY <3>2 DEF FirstTaken
  <2>11. dataRemaining' = Len(Tail(w)) /\ dataRemaining' \in Nat /\ dataRemaining' > 0
    <3>1. dataRemaining' = Size[answered[k + 1]]
      BY <1>5, <2>7, <2>10
    <3> QED
      BY <2>7, <3>1
  <2>12. Len(dataBuffer') + dataRemaining' = Len(Tail(w)) /\ Len(Tail(w)) = Size[answered[k + 1]]
    <3>1. Len(dataBuffer') = 0
      BY <1>1, <2>2
    <3>2. \A x, y, z : x = 0 /\ y = z /\ z \in Nat => x + y = z
      OBVIOUS
    <3>3. /\ dataRemaining' = Len(Tail(w)) /\ Len(Tail(w)) \in Nat
          /\ Len(Tail(w)) = Size[answered[k + 1]]
      BY <2>7, <2>11
    <3> QED
      BY <3>1, <3>2, <3>3, Zenon
  <2>13. Resp!TypeOK'
    <3>1. Len(respPipe') <= PipeCap /\ respPipe' \in Seq(U)
      BY <1>5, <2>1, <2>10
    <3>2. \E r \in Request : Len(dataBuffer') + dataRemaining' = Size[r]
      BY <2>6, <2>12
    <3> QED
      BY <1>1, <2>11, <3>1, <3>2 DEF RespInv, Resp!TypeOK, U
  <2>14. ResponseInv'
    <3>1. dataBuffer' \o (respPipe' \o unwritten') = Tail(w) \o a
      <4>1. respPipe' \o unwritten' = Tail(w) \o a
        BY <1>3, <1>5, <2>10
      <4>2. Tail(w) \o a \in Seq(U)
        BY <2>7, <2>9, ConcatProperties
      <4>3. <<>> \o (Tail(w) \o a) = Tail(w) \o a
        BY <4>2, ConcatEmptySeq
      <4> QED
        BY <1>1, <2>2, <4>1, <4>3
    <3>2. /\ Len(results') < Len(answered') /\ Len(results') <= Len(answered')
          /\ Tail(responseTexts'[Len(results') + 1]) = Tail(w)
          /\ Ahead(responseTexts', Len(results') + 1) = a
      BY <1>1, <1>2, <2>1, <2>4 DEF w, a
    <3>3. IF answered' = <<>> THEN sizeSent' = "yes" /\ bytesWritten' = 0 /\ bufflen' = 0
                              ELSE bufflen' = Size[answered'[Len(answered')]]
      BY <1>1 DEF RespInv, ResponseInv
    <3> QED
      BY <2>11, <2>12, <3>1, <3>2, <3>3 DEF ResponseInv
  <2> QED
    BY <1>1, <2>13, <2>14 DEF RespInv, KeepsResults
<1> QED
  BY <1>1, <1>4, <1>5

\* A read of the text adds a piece of the next response; the piece that completes it is
\* followed by the next one, and the response decodes.
LEMMA CommProcessStep ==
  ASSUME RespInv, Resp!CommProcess
  PROVE  RespInv' /\ (KeepsResults \/ Returns) /\ comm' # "failed"
<1> DEFINE U == Resp!UnitOf
           k == Len(results)
           w == Tail(responseTexts[k + 1])
           a == Ahead(responseTexts, k + 1)
           n == IF Len(respPipe) < dataRemaining THEN Len(respPipe) ELSE dataRemaining
           b == dataBuffer \o SubSeq(respPipe, 1, n)
<1>1. /\ comm = "process" /\ UNCHANGED <<server, answered, sizeSent, bytesWritten, bufflen>>
      /\ respPipe' = SubSeq(respPipe, n + 1, Len(respPipe)) /\ dataRemaining' = dataRemaining - n
      /\ IF n < dataRemaining
         THEN dataBuffer' = b /\ comm' = "poll" /\ UNCHANGED results
         ELSE /\ dataBuffer' = <<>>
              /\ comm' = IF Resp!Decodes(b) THEN "poll" ELSE "failed"
              /\ results' = IF Resp!Decodes(b) THEN Append(results, Head(b).resp) ELSE results
  BY DEF Resp!CommProcess
<1>2. /\ answered \in Seq(Request) /\ results \in Seq(Request) /\ Len(answered) \in Nat
      /\ respPipe \in Seq(U) /\ unwritten \in Seq(U) /\ dataBuffer \in Seq(U) /\ k \in Nat
      /\ Len(respPipe) \in Nat /\ Len(respPipe) <= PipeCap /\ PipeCap \in Nat
      /\ dataRemaining \in Nat /\ Len(dataBuffer) \in Nat
  BY ResponseTypes, Unwritten
<1>3. /\ k < Len(answered) /\ dataRemaining > 0 /\ Len(dataBuffer) + dataRemaining = Len(w)
      /\ dataBuffer \o (respPipe \o unwritten) = w \o a
  BY <1>1 DEF RespInv, ResponseInv
<1>4. responseTexts' = responseTexts
  BY <1>1 DEF responseTexts
<1>5. unwritten' = unwritten
  BY <1>1, <1>4 DEF unwritten
<1>6. /\ responseTexts \in Seq(Seq(U)) /\ Len(responseTexts) = Len(answered)
      /\ k + 1 \in 1..Len(answered) /\ k + 1 \in 0..Len(responseTexts)
  BY <1>2, <1>3, ResponseTextsType
<1>7. answered[k + 1] \in Request /\ responseTexts[k + 1] = responseText(answered[k + 1])
  BY <1>2, <1>6, ResponseTextsType
<1>8. w = Resp!text(answered[k + 1]) /\ w \in Seq(U) /\ Len(w) = Size[answered[k + 1]]
  BY <1>7, ResponseBytes
<1>9. a \in Seq(U)
  BY <1>6, AheadType
<1>10. n \in 0..Len(respPipe) /\ n <= dataRemaining /\ n \in Nat
  BY <1>2
<1> HIDE DEF U, w, a, n, b
<1>11. /\ respPipe' \in Seq(U) /\ b \in Seq(U) /\ Len(b) = Len(dataBuffer) + n
       /\ Len(respPipe') = Len(respPipe) - n /\ b \o (respPipe' \o unwritten) = w \o a
       /\ Len(dataBuffer) + n = Len(w) => b = w /\ respPipe' \o unwritten = a
  <2>1. Reading(U, dataBuffer, respPipe, unwritten, w, a, n)
    BY <1>2, <1>3, <1>8, <1>9, <1>10 DEF Reading
  <2>2. PieceTaken(U, dataBuffer, respPipe, unwritten, w, a, n)
    BY <2>1, ReadPiece, Zenon
  <2> QED
    BY <1>1, <2>2 DEF PieceTaken, b
<1>12. Len(respPipe') <= PipeCap /\ dataRemaining' \in Nat
  <2>1. Len(respPipe') = Len(respPipe) - n /\ dataRemaining' = dataRemaining - n
    BY <1>1, <1>11
  <2> QED
    BY <1>2, <1>10, <2>1
<1>13. IF answered' = <<>> THEN sizeSent' = "yes" /\ bytesWritten' = 0 /\ bufflen' = 0
                           ELSE bufflen' = Size[answered'[Len(answered')]]
  BY <1>1 DEF RespInv, ResponseInv
<1>14. CASE n < dataRemaining
  <2>1. dataBuffer' = b /\ comm' = "poll" /\ results' = results
    BY <1>1, <1>14
  <2>2. dataRemaining' > 0 /\ Len(dataBuffer') + dataRemaining' = Len(w)
    <3>1. dataRemaining' = dataRemaining - n /\ Len(dataBuffer') = Len(dataBuffer) + n
      BY <1>1, <1>11, <2>1
    <3>2. /\ dataRemaining \in Nat /\ Len(dataBuffer) \in Nat /\ n \in Nat /\ n < dataRemaining
          /\ Len(w) = Len(dataBuffer) + dataRemaining
      BY <1>2, <1>3, <1>10, <1>14
    <3>3. Len(dataBuffer') + dataRemaining' = (Len(dataBuffer) + n) + (dataRemaining - n)
      BY <3>1, Zenon
    <3>4. Len(dataBuffer') + dataRemaining' = Len(w)
      <4>1. (Len(dataBuffer) + n) + (dataRemaining - n) = Len(dataBuffer) + dataRemaining
        BY <3>2
      <4> QED
        BY <3>2, <3>3, <4>1, Zenon
    <3>5. dataRemaining' > 0
      BY <3>1, <3>2
    <3> QED
      BY <3>4, <3>5
  <2>3. Resp!TypeOK'
    <3>1. \E r \in Request : Len(dataBuffer') + dataRemaining' = Size[r]
      BY <1>7, <1>8, <2>2
    <3> QED
      BY <1>1, <1>11, <1>12, <2>1, <3>1 DEF RespInv, Resp!TypeOK, U
  <2>4. ResponseInv'
    <3>1. /\ Len(results') < Len(answered') /\ Len(results') <= Len(answered')
          /\ Tail(responseTexts'[Len(results') + 1]) = w
          /\ Ahead(responseTexts', Len(results') + 1) = a
      BY <1>1, <1>2, <1>3, <1>4, <2>1 DEF w, a
    <3>2. dataBuffer' \o (respPipe' \o unwritten') = w \o a
      BY <1>5, <1>11, <2>1
    <3> QED
      BY <1>13, <2>2, <3>1, <3>2 DEF ResponseInv
  <2> QED
    BY <2>1, <2>3, <2>4 DEF RespInv, KeepsResults
<1>15. CASE ~(n < dataRemaining)
  <2>1. n = dataRemaining
    BY <1>2, <1>10, <1>15
  <2>2. b = w /\ respPipe' \o unwritten = a
    BY <1>3, <1>11, <2>1
  <2>3. Resp!Decodes(b) /\ Head(b).resp = answered[k + 1]
    BY <1>7, <1>8, <2>2, TextDecodes
  <2>4. dataBuffer' = <<>> /\ comm' = "poll" /\ results' = Append(results, answered[k + 1])
    BY <1>1, <1>15, <2>3
  <2>5. dataRemaining' = 0
    BY <1>1, <1>2, <2>1
  <2>6. results' \in Seq(Request) /\ Len(results') = k + 1
    BY <1>2, <1>7, <2>4, AppendProperties
  <2>7. Resp!TypeOK'
    BY <1>1, <1>11, <1>12, <2>4, <2>5, <2>6 DEF RespInv, Resp!TypeOK, U
  <2>8. ResponseInv'
    <3>1. Len(results') <= Len(answered')
      BY <1>1, <1>2, <1>3, <2>6
    <3>2. respPipe' \o unwritten' = Ahead(responseTexts', Len(results'))
      BY <1>4, <1>5, <2>2, <2>6 DEF a
    <3> QED
      BY <1>13, <2>4, <2>5, <3>1, <3>2 DEF ResponseInv
  <2> QED
    BY <1>3, <2>4, <2>7, <2>8 DEF RespInv, Returns
<1> QED
  BY <1>14, <1>15

-----------------------------------------------------------------------------
(* Both pipes *)

\* A step of one pipe leaves what is known of the other.
LEMMA RequestsApart ==
  ASSUME ReqInv, UNCHANGED reqVars
  PROVE  ReqInv'
<1>1. requestTexts' = requestTexts
  BY DEF requestTexts, reqVars
<1> QED
  BY <1>1 DEF ReqInv, RequestInv, Req!TypeOK, reqVars

\* The same of the responses.
LEMMA ResponsesApart ==
  ASSUME RespInv, UNCHANGED respVars
  PROVE  RespInv'
<1>1. UNCHANGED <<server, answered, sizeSent, bytesWritten, bufflen, respPipe, comm, dataRemaining,
                  dataBuffer, results>>
  BY DEF respVars
<1>2. responseTexts' = responseTexts
  BY <1>1 DEF responseTexts
<1>3. unwritten' = unwritten
  BY <1>1, <1>2 DEF unwritten
<1>4. Resp!TypeOK'
  BY <1>1 DEF RespInv, Resp!TypeOK
<1>5. ResponseInv'
  BY <1>1, <1>2, <1>3 DEF RespInv, ResponseInv
<1> QED
  BY <1>4, <1>5 DEF RespInv

\* What a step does to the request pipe, as its two ends see it.
RequestStep ==
  /\ ReqInv'
  /\ \/ sent' = sent /\ (Keeps \/ Queues)
     \/ Keeps /\ \E r \in Request : sent' = Append(sent, r)
  /\ reader' = reader \/ reader' # "done" \/ client = "closed"
  /\ client' = client \/ client' = "closed"

\* The same of the response pipe.
ResponseStep ==
  /\ RespInv'
  /\ \/ answered' = answered /\ (KeepsResults \/ Returns)
     \/ KeepsResults /\ \E r \in Request : answered' = Append(answered, r)
  /\ comm' = comm \/ comm' # "failed" \/ server = "dead"
  /\ server' = server \/ server' = "dead"

\* A step that leaves a pipe alone is such a step.
LEMMA RequestsStand ==
  ASSUME ReqInv, UNCHANGED reqVars
  PROVE  RequestStep
BY RequestsApart DEF RequestStep, reqVars, Keeps

\* The same of the responses.
LEMMA ResponsesStand ==
  ASSUME RespInv, UNCHANGED respVars
  PROVE  ResponseStep
BY ResponsesApart DEF ResponseStep, respVars, KeepsResults

\* Every step of requestReader.
LEMMA ReaderStep ==
  ASSUME ReqInv, Req!Reader
  PROVE  RequestStep
<1>1. CASE Req!ReaderSize
  BY <1>1, ReaderSizeStep DEF RequestStep, Req!ReaderSize
<1>2. CASE Req!ReaderData
  BY <1>2, ReaderDataStep DEF RequestStep, Req!ReaderData
<1>3. CASE Req!ReaderEof
  BY <1>3, ReaderEofStep DEF RequestStep, Req!ReaderEof
<1> QED
  BY <1>1, <1>2, <1>3 DEF Req!Reader

\* Every step of the communication thread over a response.
LEMMA CommStep ==
  ASSUME RespInv, Resp!Comm
  PROVE  ResponseStep
<1>1. CASE Resp!CommReadable
  BY <1>1, CommReadableStep DEF ResponseStep, Resp!CommReadable
<1>2. CASE Resp!CommHangup
  BY <1>2, CommHangupStep DEF ResponseStep, Resp!CommHangup
<1>3. CASE Resp!CommProcess
  BY <1>3, CommProcessStep DEF ResponseStep, Resp!CommProcess
<1> QED
  BY <1>1, <1>2, <1>3 DEF Resp!Comm

\* Every step of the two processes is a step of each pipe.
LEMMA EveryStep ==
  ASSUME ReqInv, RespInv, [Next]_vars
  PROVE  RequestStep /\ ResponseStep
<1>1. CASE SenderBegin
  <2>1. PICK r \in Request : Req!SenderBegin(r)
    BY <1>1 DEF SenderBegin
  <2>2. RequestStep
    BY <2>1, SenderBeginStep DEF RequestStep, Req!SenderBegin, Keeps
  <2> QED
    BY <1>1, <2>2, ResponsesStand DEF SenderBegin
<1>2. CASE SenderWrite
  <2>1. RequestStep
    BY <1>2, SenderWriteStep DEF SenderWrite, RequestStep, Req!SenderWrite, Keeps
  <2> QED
    BY <1>2, <2>1, ResponsesStand DEF SenderWrite
<1>3. CASE Comm
  BY <1>3, CommStep, RequestsStand DEF Comm
<1>4. CASE ClientClose
  <2>1. RequestStep
    BY <1>4, SenderCloseStep DEF ClientClose, RequestStep, Req!SenderClose, Keeps
  <2> QED
    BY <1>4, <2>1, ResponsesStand DEF ClientClose
<1>5. CASE Reader
  BY <1>5, ReaderStep, ResponsesStand DEF Reader
<1>6. CASE Answer
  <2>1. PICK r \in Request : Resp!WriterPop(r)
    BY <1>6 DEF Answer
  <2>2. ResponseStep
    BY <2>1, WriterPopStep DEF ResponseStep, Resp!WriterPop, KeepsResults
  <2> QED
    BY <1>6, <2>2, RequestsStand DEF Answer
<1>7. CASE Writer
  <2>1. CASE Resp!WriterSize
    <3>1. ResponseStep
      BY <2>1, WriterSizeStep DEF ResponseStep, Resp!WriterSize, KeepsResults
    <3> QED
      BY <1>7, <3>1, RequestsStand DEF Writer
  <2>2. CASE Resp!WriterData
    <3>1. ResponseStep
      BY <2>2, WriterDataStep DEF ResponseStep, Resp!WriterData, KeepsResults
    <3> QED
      BY <1>7, <3>1, RequestsStand DEF Writer
  <2> QED
    BY <1>7, <2>1, <2>2 DEF Writer
<1>8. CASE ServerDie
  <2>1. ResponseStep
    BY <1>8, ServerDieStep DEF ServerDie, ResponseStep, Resp!ServerDie, KeepsResults
  <2> QED
    BY <1>8, <2>1, RequestsStand DEF ServerDie
<1>9. CASE UNCHANGED vars
  <2>1. UNCHANGED reqVars /\ UNCHANGED respVars
    BY <1>9 DEF vars
  <2> QED
    BY <2>1, RequestsStand, ResponsesStand
<1> QED
  BY <1>1, <1>2, <1>3, <1>4, <1>5, <1>6, <1>7, <1>8, <1>9 DEF Next, Quiet

\* Both pipes are empty at the start.
LEMMA AtStart ==
  ASSUME Init
  PROVE  ReqInv /\ RespInv
<1>1. /\ sent = <<>> /\ dataPending = <<>> /\ pipe = <<>> /\ client = "open" /\ reader = "size"
      /\ reqSize = 0 /\ bytesPending = 0 /\ buffer = <<>> /\ received = <<>>
  BY DEF Init, Req!Init
<1>2. /\ server = "up" /\ answered = <<>> /\ sizeSent = "yes" /\ bytesWritten = 0 /\ bufflen = 0
      /\ respPipe = <<>> /\ comm = "poll" /\ dataRemaining = 0 /\ dataBuffer = <<>>
      /\ results = <<>>
  BY DEF Init, Resp!Init
<1>3. \A U : <<>> \in Seq(U)
  OBVIOUS
<1>4. Len(<<>>) = 0 /\ 0 <= PipeCap
  BY ConstantsAssumption
<1>5. <<>> \o <<>> = <<>>
  OBVIOUS
<1>6. Ahead(requestTexts, 0) = <<>>
  <2>1. requestTexts \in Seq(Seq(Req!UnitOf)) /\ Len(requestTexts) = 0
    BY <1>1, <1>3, <1>4, RequestTextsType
  <2> QED
    BY <2>1, AheadNothing
<1>7. Ahead(responseTexts, 0) = <<>>
  <2>1. responseTexts \in Seq(Seq(Resp!UnitOf)) /\ Len(responseTexts) = 0
    BY <1>2, <1>3, <1>4, ResponseTextsType
  <2> QED
    BY <2>1, AheadNothing
<1>8. Req!TypeOK
  BY <1>1, <1>3, <1>4 DEF Req!TypeOK
<1>9. RequestInv
  BY <1>1, <1>4, <1>5, <1>6 DEF RequestInv
<1>10. Resp!TypeOK
  BY <1>2, <1>3, <1>4 DEF Resp!TypeOK
<1>11. unwritten = <<>>
  BY <1>2 DEF unwritten
<1>12. ResponseInv
  BY <1>2, <1>4, <1>5, <1>7, <1>11 DEF ResponseInv
<1> QED
  BY <1>8, <1>9, <1>10, <1>12 DEF ReqInv, RespInv

\* requestReader ends its loop only when the client has closed the pipe, and the communication
\* thread fails only when the server has died: no cut or mixed-up message makes either give up.
THEOREM GivesUpWithPeerOnly == Spec => []FailsOnlyWithPeer
<1>1. Init => FailsOnlyWithPeer
  <2> SUFFICES ASSUME Init PROVE FailsOnlyWithPeer
    OBVIOUS
  <2>1. reader = "size" /\ comm = "poll"
    BY DEF Init, Req!Init, Resp!Init
  <2> QED
    BY <2>1, AtStart DEF FailsOnlyWithPeer, FramingInv, TypeOK, ReqInv, RespInv,
                         Req!StopsWithClient, Resp!FailsWithServer
<1>2. FailsOnlyWithPeer /\ [Next]_vars => FailsOnlyWithPeer'
  <2> SUFFICES ASSUME FailsOnlyWithPeer, [Next]_vars PROVE FailsOnlyWithPeer'
    OBVIOUS
  <2>1. ReqInv /\ RespInv /\ (reader = "done" => client = "closed")
        /\ (comm = "failed" => server = "dead")
    BY DEF FailsOnlyWithPeer, FramingInv, TypeOK, ReqInv, RespInv,
           Req!StopsWithClient, Resp!FailsWithServer
  <2>2. RequestStep /\ ResponseStep
    BY <2>1, EveryStep
  <2>3. Req!StopsWithClient' /\ Resp!FailsWithServer'
    BY <2>1, <2>2 DEF RequestStep, ResponseStep, Req!StopsWithClient, Resp!FailsWithServer
  <2> QED
    BY <2>2, <2>3 DEF FailsOnlyWithPeer, FramingInv, TypeOK, RequestStep, ResponseStep,
                      ReqInv, RespInv
<1> QED
  BY <1>1, <1>2, PTL DEF Spec

\* Requests and responses arrive whole, once and in order, however writes and reads cut them
\* and wherever either process stops: each pipe implements Channel.
THEOREM MessagesCross == Spec => ImplementsChannels
<1>1. Init => Req!Pipe!Init /\ Resp!Pipe!Init
  BY DEF Init, Req!Init, Resp!Init, Req!Pipe!Init, Resp!Pipe!Init
<1>2. FailsOnlyWithPeer /\ [Next]_vars =>
        [Req!Pipe!Next]_Req!Pipe!vars /\ [Resp!Pipe!Next]_Resp!Pipe!vars
  <2> SUFFICES ASSUME FailsOnlyWithPeer, [Next]_vars
               PROVE  [Req!Pipe!Next]_Req!Pipe!vars /\ [Resp!Pipe!Next]_Resp!Pipe!vars
    OBVIOUS
  <2>1. RequestStep /\ ResponseStep
    BY EveryStep DEF FailsOnlyWithPeer, FramingInv, TypeOK, ReqInv, RespInv
  <2>2. [Req!Pipe!Next]_Req!Pipe!vars
    BY <2>1 DEF RequestStep, Keeps, Queues, Req!Pipe!Next, Req!Pipe!Send, Req!Pipe!Deliver,
                Req!Pipe!vars
  <2>3. [Resp!Pipe!Next]_Resp!Pipe!vars
    BY <2>1 DEF ResponseStep, KeepsResults, Returns, Resp!Pipe!Next, Resp!Pipe!Send,
                Resp!Pipe!Deliver, Resp!Pipe!vars
  <2> QED
    BY <2>2, <2>3
<1> QED
  BY <1>1, <1>2, GivesUpWithPeerOnly, PTL
     DEF Spec, ImplementsChannels, Req!ImplementsChannel, Resp!ImplementsChannel,
         Req!Pipe!Spec, Resp!Pipe!Spec
=============================================================================
