---------------------------- MODULE FileOpsProofs ---------------------------
(***************************************************************************)
(* Theorems about the file operations, for any number of threads, calls,   *)
(* names and files, any block size and any width of an int: what readfile  *)
(* returns, what writefile leaves, and what no call leaves behind.         *)
(***************************************************************************)
EXTENDS FileOps, StreamLemmas

-----------------------------------------------------------------------------
(* Base64: what the groups of a text decode to *)

\* A text of no groups decodes to nothing.
LEMMA DecodeEmpty == Decode(<<>>) = <<>>
BY FlattenEmpty DEF Decode

\* A text decodes to bytes.
LEMMA DecodeType ==
  ASSUME NEW t \in Seq(Seq(Nat))
  PROVE  Decode(t) \in Seq(Nat)
BY FlattenType DEF Decode

\* One more group adds its bytes at the end.
LEMMA DecodeMore ==
  ASSUME NEW t \in Seq(Seq(Nat)), NEW g \in Seq(Nat)
  PROVE  Decode(Append(t, g)) = Decode(t) \o g
BY FlattenAppend DEF Decode

\* The order in which bytes are joined makes no difference.
LEMMA JoinBytes == \A a, b, c \in Seq(Nat) : (a \o b) \o c = a \o (b \o c)
BY ConcatAssociative, SMTT(30)

\* The groups s fills hold three bytes each, and less than a group is left.
LEMMA GroupsType ==
  ASSUME NEW s \in Seq(Nat)
  PROVE  /\ Len(s) \div 3 \in Nat /\ 3 * (Len(s) \div 3) <= Len(s)
         /\ Len(s) < 3 * (Len(s) \div 3) + 3
         /\ FullGroups(s) \in Seq(Seq(Nat)) /\ Len(FullGroups(s)) = Len(s) \div 3
         /\ \A g \in 1..Len(s) \div 3 : /\ FullGroups(s)[g] = SubSeq(s, 3 * g - 2, 3 * g)
                                        /\ Len(FullGroups(s)[g]) = 3
         /\ Rest(s) \in Seq(Nat) /\ Len(Rest(s)) < 3
         /\ Len(Rest(s)) = Len(s) - 3 * (Len(s) \div 3)
<1> DEFINE q == Len(s) \div 3
<1>1. q \in Nat /\ 3 * q <= Len(s) /\ Len(s) < 3 * q + 3
  OBVIOUS
<1> HIDE DEF q
<1>2. \A g \in 1..q : /\ SubSeq(s, 3 * g - 2, 3 * g) \in Seq(Nat)
                      /\ Len(SubSeq(s, 3 * g - 2, 3 * g)) = 3
  <2> TAKE g \in 1..q
  <2>1. 3 * g - 2 \in 1..Len(s) /\ 3 * g \in 1..Len(s) /\ 3 * g - 2 <= 3 * g
    BY <1>1
  <2>2. \A i \in 3 * g - 2..3 * g : s[i] \in Nat
    BY <2>1
  <2>3. 3 * g - (3 * g - 2) + 1 = 3
    OBVIOUS
  <2> QED BY <2>1, <2>2, <2>3, SubSeqProperties
<1>3. FullGroups(s) = [g \in 1..q |-> SubSeq(s, 3 * g - 2, 3 * g)]
  BY DEF FullGroups, q
<1>4. FullGroups(s) \in Seq(Seq(Nat)) /\ Len(FullGroups(s)) = q
  BY <1>1, <1>2, <1>3
<1>5. Rest(s) = SubSeq(s, 3 * q + 1, Len(s))
  BY DEF Rest, q
<1>6. Rest(s) \in Seq(Nat) /\ Len(Rest(s)) = Len(s) - 3 * q
  <2>1. \A i \in 3 * q + 1..Len(s) : s[i] \in Nat
    BY <1>1
  <2>2. 3 * q + 1 \in Int /\ Len(s) \in Int
    BY <1>1
  <2> DEFINE v == SubSeq(s, 3 * q + 1, Len(s))
  <2>3. /\ v \in Seq(Nat)
        /\ Len(v) = IF 3 * q + 1 <= Len(s) THEN Len(s) - (3 * q + 1) + 1 ELSE 0
    BY <2>1, <2>2, SubSeqProperties, SMTT(30)
  <2>4. Len(s) \in Nat
    OBVIOUS
  <2>5. Rest(s) = v
    BY <1>5
  <2> HIDE DEF v
  <2> QED BY <1>1, <2>3, <2>4, <2>5
<1> QED BY <1>1, <1>2, <1>3, <1>4, <1>6 DEF q

\* What encode_step() appends, with what it holds back, stands for the bytes it was given.
LEMMA EncodeKeeps ==
  ASSUME NEW t \in Seq(Seq(Nat)), NEW s \in Seq(Nat)
  PROVE  Decode(t \o FullGroups(s)) \o Rest(s) = Decode(t) \o s
<1> DEFINE q == Len(s) \div 3
           F == FullGroups(s)
           D == Decode(t)
           S == {k \in Nat : k <= q => Decode(t \o SubSeq(F, 1, k)) = D \o SubSeq(s, 1, 3 * k)}
<1>1. /\ q \in Nat /\ 3 * q <= Len(s) /\ F \in Seq(Seq(Nat)) /\ Len(F) = q
      /\ \A g \in 1..q : F[g] = SubSeq(s, 3 * g - 2, 3 * g) /\ Len(F[g]) = 3
      /\ Rest(s) \in Seq(Nat) /\ Rest(s) = SubSeq(s, 3 * q + 1, Len(s))
  BY GroupsType DEF Rest
<1>2. D \in Seq(Nat)
  BY DecodeType
<1> HIDE DEF q, F, D
<1>3. 0 \in S
  <2>1. SubSeq(F, 1, 0) = <<>> /\ SubSeq(s, 1, 3 * 0) = <<>>
    BY SubSeqEmpty
  <2>2. t \o <<>> = t /\ D \o <<>> = D
    BY <1>2, ConcatEmptySeq
  <2> QED BY <2>1, <2>2 DEF D
<1>4. ASSUME NEW k \in Nat, k \in S PROVE k + 1 \in S
  <2>1. SUFFICES ASSUME k + 1 <= q
                 PROVE  Decode(t \o SubSeq(F, 1, k + 1)) = D \o SubSeq(s, 1, 3 * (k + 1))
    OBVIOUS
  <2>n. q \in Nat /\ k + 1 <= q
    BY <1>1, <2>1
  <2>2. Decode(t \o SubSeq(F, 1, k)) = D \o SubSeq(s, 1, 3 * k)
    <3>1. k <= q
      BY <2>n
    <3>2. k <= q => Decode(t \o SubSeq(F, 1, k)) = D \o SubSeq(s, 1, 3 * k)
      BY <1>4, Zenon
    <3> QED BY <3>1, <3>2, Zenon
  <2>3. k + 1 \in 1..q /\ F[k + 1] \in Seq(Nat) /\ F[k + 1] = SubSeq(s, 3 * k + 1, 3 * k + 3)
    <3>1. k + 1 \in 1..q /\ 3 * (k + 1) - 2 = 3 * k + 1 /\ 3 * (k + 1) = 3 * k + 3
      BY <2>n
    <3>2. F[k + 1] = SubSeq(s, 3 * (k + 1) - 2, 3 * (k + 1))
      BY <1>1, <3>1, Zenon
    <3>3. F[k + 1] \in Seq(Nat)
      <4> DEFINE T == Seq(Nat)
      <4>1. F \in Seq(T) /\ k + 1 \in 1..Len(F)
        BY <1>1, <3>1, Zenon
      <4> HIDE DEF T
      <4>2. F[k + 1] \in T
        BY <4>1, ElementOfSeq
      <4> QED BY <4>2 DEF T
    <3> QED BY <3>1, <3>2, <3>3
  <2>4. SubSeq(F, 1, k) \in Seq(Seq(Nat))
    BY <1>1, <2>1
  <2>5. t \o SubSeq(F, 1, k + 1) = Append(t \o SubSeq(F, 1, k), F[k + 1])
    <3>1. SubSeq(F, 1, k + 1) = SubSeq(F, 1, k) \o <<F[k + 1]>>
      <4>1. 1 \in 1..Len(F) /\ k + 1 \in 1..Len(F) /\ k + 1 - 1 = k
        BY <1>1, <2>3
      <4>2. F \in Seq(Seq(Nat))
        BY <1>1
      <4>3. SubSeq(F, 1, k + 1) = SubSeq(F, 1, k + 1 - 1) \o <<F[k + 1]>>
        BY <4>1, <4>2, SubSeqRecursiveSecond, SMTT(30)
      <4> QED BY <4>1, <4>3
    <3>2. t \o (SubSeq(F, 1, k) \o <<F[k + 1]>>) = (t \o SubSeq(F, 1, k)) \o <<F[k + 1]>>
      <4> DEFINE T == Seq(Nat)
                 a == SubSeq(F, 1, k)
                 b == <<F[k + 1]>>
      <4>1. a \in Seq(T) /\ F[k + 1] \in T /\ t \in Seq(T)
        BY <2>3, <2>4
      <4> HIDE DEF T, a
      <4>2. b \in Seq(T)
        BY <4>1
      <4> HIDE DEF b
      <4>3. t \o (a \o b) = (t \o a) \o b
        BY <4>1, <4>2, ConcatAssociative, SMTT(30)
      <4> QED BY <4>3 DEF a, b
    <3>3. t \o SubSeq(F, 1, k) \in Seq(Seq(Nat))
      BY <2>4
    <3> QED BY <2>3, <3>1, <3>2, <3>3, AppendIsConcat
  <2>6. Decode(t \o SubSeq(F, 1, k + 1)) = (D \o SubSeq(s, 1, 3 * k)) \o F[k + 1]
    <3>1. t \o SubSeq(F, 1, k) \in Seq(Seq(Nat))
      BY <2>4
    <3> QED BY <2>2, <2>3, <2>5, <3>1, DecodeMore
  <2>7. SubSeq(s, 1, 3 * k) \in Seq(Nat)
    <3>1. 3 * k \in Int /\ 3 * k <= Len(s)
      BY <1>1, <2>1
    <3>2. \A i \in 1..3 * k : s[i] \in Nat
      BY <3>1
    <3> QED BY <3>1, <3>2, SubSeqProperties
  <2>8. SubSeq(s, 1, 3 * k) \o SubSeq(s, 3 * k + 1, 3 * k + 3) = SubSeq(s, 1, 3 * k + 3)
    <3>1. /\ 1 \in 1..Len(s) + 1 /\ 3 * k \in 1 - 1..Len(s) /\ 3 * k + 3 \in 3 * k..Len(s)
      BY <1>1, <2>1, SMTT(30)
    <3> QED BY <3>1, ConcatAdjacentSubSeq
  <2>9. (D \o SubSeq(s, 1, 3 * k)) \o F[k + 1] = D \o (SubSeq(s, 1, 3 * k) \o F[k + 1])
    <3>1. F[k + 1] \in Seq(Nat)
      BY <2>3
    <3> QED BY <1>2, <2>7, <3>1, JoinBytes, ZenonT(30)
  <2>10. 3 * (k + 1) = 3 * k + 3
    OBVIOUS
  <2> QED BY <2>3, <2>6, <2>8, <2>9, <2>10
<1>5. Decode(t \o F) = D \o SubSeq(s, 1, 3 * q)
  <2>1. Nat \subseteq S
    <3> HIDE DEF S
    <3> QED BY <1>3, <1>4, Induction
  <2>2. SubSeq(F, 1, q) = F
    BY <1>1, SubSeqFull
  <2>3. q \in S
    BY <1>1, <2>1
  <2>4. q <= q
    BY <1>1
  <2> QED BY <2>2, <2>3, <2>4
<1>6. SubSeq(s, 1, 3 * q) \o SubSeq(s, 3 * q + 1, Len(s)) = s
  <2>1. 1 \in 1..Len(s) + 1 /\ 3 * q \in 1 - 1..Len(s) /\ Len(s) \in 3 * q..Len(s)
    BY <1>1
  <2>2. SubSeq(s, 1, Len(s)) = s
    BY SubSeqFull
  <2> QED BY <2>1, <2>2, ConcatAdjacentSubSeq
<1>7. SubSeq(s, 1, 3 * q) \in Seq(Nat)
  <2>1. 3 * q \in Int /\ 3 * q <= Len(s)
    BY <1>1
  <2>2. \A i \in 1..3 * q : s[i] \in Nat
    BY <2>1
  <2> QED BY <2>1, <2>2, SubSeqProperties
<1>8. (D \o SubSeq(s, 1, 3 * q)) \o Rest(s) = D \o (SubSeq(s, 1, 3 * q) \o Rest(s))
  <2>1. Rest(s) \in Seq(Nat)
    BY <1>1
  <2> QED BY <1>2, <1>7, <2>1, JoinBytes, ZenonT(30)
<1> QED BY <1>1, <1>5, <1>6, <1>8 DEF F, D

\* A remainder is less than the divisor and no more than the number.
LEMMA Remainder ==
  ASSUME NEW m \in Nat, NEW w \in Nat, w > 0
  PROVE  m % w \in 0..w - 1 /\ m % w <= m /\ (m < w => m % w = m)
<1>1. m % w \in 0..w - 1
  OBVIOUS
<1>2. m < w => m % w = m
  OBVIOUS
<1> QED BY <1>1, <1>2

\* A sum that fits an int is kept, and one that does not becomes smaller.
LEMMA AsIntBound ==
  ASSUME NEW k \in Int, k >= -(IntMax + 1)
  PROVE  /\ AsInt(k) \in -(IntMax + 1)..IntMax
         /\ AsInt(k) <= k
         /\ k <= IntMax => AsInt(k) = k
<1> DEFINE m == k + IntMax + 1
           w == 2 * (IntMax + 1)
<1>1. IntMax \in Nat /\ m \in Nat /\ w \in Nat /\ w > 0
  BY ConstantsAssumption
<1>2. AsInt(k) = (m % w) - (IntMax + 1)
  BY DEF AsInt
<1>3. m % w \in 0..w - 1 /\ m % w <= m /\ (m < w => m % w = m)
  <2> HIDE DEF m, w
  <2> QED BY <1>1, Remainder
<1> DEFINE p == m % w
<1>4. p \in 0..w - 1 /\ p <= m /\ (m < w => p = m) /\ AsInt(k) = p - (IntMax + 1)
  BY <1>2, <1>3
<1> HIDE DEF p
<1> QED BY <1>1, <1>4
-----------------------------------------------------------------------------
(* One thread at a time: what a step of another leaves of a call *)

\* A step leaves the variables of q's call alone, and its file too unless it marks it.
RowKept(q) ==
  /\ call'[q] = call[q] /\ pc'[q] = pc[q] /\ fd'[q] = fd[q] /\ n'[q] = n[q]
  /\ st_size'[q] = st_size[q] /\ b64str'[q] = b64str[q] /\ b64Save'[q] = b64Save[q]
  /\ res'[q] = res[q] /\ probe'[q] = probe[q]
  /\ disturbed'[q] = disturbed[q] \/ (disturbed'[q] = TRUE /\ fd[q] # 0)
  /\ disturbed'[q] \/ fd[q] = 0 \/ data'[fd[q]] = data[fd[q]]

\* The loop of readfile is where it was.
LEMMA LoopKept ==
  ASSUME NEW q, RowKept(q), LoopInv(q), fd[q] # 0
  PROVE  LoopInv(q)'
<1>1. Offset(q)' = Offset(q) /\ ReadSoFar(q)' = ReadSoFar(q) /\ Direct(q)' = Direct(q)
  BY DEF Offset, ReadSoFar, Direct, RowKept
<1>2. ~disturbed'[q] => ~disturbed[q] /\ data'[fd'[q]] = data[fd[q]]
  BY DEF RowKept
<1>3. /\ n'[q] = n[q] /\ st_size'[q] = st_size[q] /\ b64str'[q] = b64str[q]
      /\ b64Save'[q] = b64Save[q]
  BY DEF RowKept
<1> QED BY <1>1, <1>2, <1>3 DEF LoopInv

\* A call whose row is kept stays as the invariant says.
LEMMA CallKept ==
  ASSUME NEW q, CallInv(q), RowKept(q)
  PROVE  CallInv(q)'
<1>1. StageInv(q) /\ ProbeInv(q) /\ ReadInv(q) /\ WriteInv(q)
  BY DEF CallInv
<1>2. StageInv(q)'
  BY <1>1 DEF StageInv, RowKept
<1>3. ProbeInv(q)'
  <2>1. Takes(q)' = Takes(q)
    BY DEF Takes, RowKept
  <2> QED BY <1>1, <2>1 DEF ProbeInv, Refused, RowKept
<1>4. ReadInv(q)'
  <2>1. pc[q] = "read" => LoopInv(q)'
    BY <1>1, LoopKept DEF ReadInv, StageInv
  <2>2. /\ pc'[q] = pc[q] /\ b64str'[q] = b64str[q] /\ b64Save'[q] = b64Save[q]
        /\ st_size'[q] = st_size[q] /\ call'[q] = call[q] /\ res'[q] = res[q]
        /\ disturbed[q] => disturbed'[q]
    BY DEF RowKept
  <2> QED BY <1>1, <2>1, <2>2 DEF ReadInv
<1>5. WriteInv(q)'
  <2>1. /\ pc'[q] = pc[q] /\ fd'[q] = fd[q] /\ n'[q] = n[q] /\ Payload(q)' = Payload(q)
        /\ ~disturbed'[q] => ~disturbed[q] /\ (fd[q] = 0 \/ data'[fd[q]] = data[fd[q]])
    BY DEF RowKept, Payload
  <2>2. pc[q] \in {"prepare", "write"} => fd[q] # 0
    BY <1>1 DEF StageInv
  <2> QED BY <1>1, <2>1, <2>2 DEF WriteInv
<1> QED BY <1>2, <1>3, <1>4, <1>5 DEF CallInv

\* A call that returns an error, or any result of a function that neither reads nor probes.
LEMMA CallReturned ==
  ASSUME NEW o \in Op, pc'[o] = "returned", fd'[o] = 0, call'[o] # NoCall,
         NEW r \in {"ok", "error", "EINVAL", "EIO"}, res'[o] = r, probe'[o] # "made",
         \/ r \in {"error", "EIO"}
         \/ call'[o].fn \notin {"readfile", "probe_block_size"}
         \/ call'[o].fn = "probe_block_size" /\ r = "EINVAL" /\ Takes(o)' = {}
  PROVE  CallInv(o)'
<1>1. StageInv(o)'
  BY DEF StageInv
<1>2. ProbeInv(o)' /\ ReadInv(o)' /\ WriteInv(o)'
  BY DEF ProbeInv, ReadInv, WriteInv
<1> QED BY <1>1, <1>2 DEF CallInv

\* The arguments of the call a thread serves.
LEMMA CallTypes ==
  ASSUME TypeOK, NEW o \in Op, CallInv(o), pc[o] # "idle"
  PROVE  /\ call[o] \in Calls /\ call[o] # NoCall
         /\ call[o].fn # "probe_block_size" => call[o].path \in Names
         /\ call[o].fn = "writefile" => Payload(o) \in Seq(Nat) /\ Direct(o) \in BOOLEAN
         /\ call[o].fn = "readfile" => Direct(o) \in BOOLEAN
         /\ call[o].fn = "truncate" => call[o].size \in Nat
         /\ call[o].fn \in {"rename", "link"} => call[o].newpath \in Names
<1>1. call[o] \in Calls /\ call[o] # NoCall
  BY DEF TypeOK, CallInv, StageInv
<1>2. call[o].fn = "writefile" => Payload(o) \in Seq(Nat)
  BY <1>1, CallsAssumption, DecodeType DEF Payload
<1> QED BY <1>1, <1>2, CallsAssumption DEF Direct

\* A change of a file is seen by the calls that have it open, and by nobody else.
LEMMA ModifyFacts ==
  ASSUME TypeOK, NEW o \in Op, NEW i \in 1..Len(data), NEW d \in Seq(Nat), Modify(o, i, d)
  PROVE  /\ data' \in Seq(Seq(Nat)) /\ Len(data') = Len(data) /\ data'[i] = d
         /\ disturbed' \in [Op -> BOOLEAN] /\ disturbed'[o] = disturbed[o]
         /\ \A q \in Op \ {o} :
              /\ disturbed'[q] = disturbed[q] \/ (disturbed'[q] = TRUE /\ fd[q] # 0)
              /\ disturbed'[q] \/ fd[q] = 0 \/ data'[fd[q]] = data[fd[q]]
<1>1. data \in Seq(Seq(Nat)) /\ disturbed \in [Op -> BOOLEAN]
  BY DEF TypeOK
<1>2. /\ data' = [data EXCEPT ![i] = d]
      /\ disturbed' = [q \in Op |-> disturbed[q] \/ (q # o /\ fd[q] = i)]
  BY DEF Modify
<1>3. /\ data' \in Seq(Seq(Nat)) /\ Len(data') = Len(data) /\ data'[i] = d
      /\ \A j \in 1..Len(data) : j # i => data'[j] = data[j]
  BY <1>1, <1>2
<1>4. /\ disturbed' \in [Op -> BOOLEAN]
      /\ \A q \in Op : disturbed'[q] = (disturbed[q] \/ (q # o /\ fd[q] = i))
  BY <1>1, <1>2, Zenon
<1>5. disturbed'[o] = disturbed[o]
  BY <1>1, <1>4, Zenon
<1>6. ASSUME NEW q \in Op \ {o}
      PROVE  /\ disturbed'[q] = disturbed[q] \/ (disturbed'[q] = TRUE /\ fd[q] # 0)
             /\ disturbed'[q] \/ fd[q] = 0 \/ data'[fd[q]] = data[fd[q]]
  <2>1. fd[q] \in 1..Len(data) \cup {0} /\ i # 0
    BY SMTT(30) DEF TypeOK, Inodes
  <2>2. CASE fd[q] = i
    <3>1. disturbed'[q] = TRUE
      BY <1>1, <1>4, <2>2, Zenon
    <3> QED BY <2>1, <2>2, <3>1
  <2>3. CASE fd[q] # i
    <3>1. disturbed'[q] = disturbed[q]
      BY <1>1, <1>4, <2>3, Zenon
    <3>2. fd[q] = 0 \/ data'[fd[q]] = data[fd[q]]
      BY <1>3, <2>1, <2>3
    <3> QED BY <3>1, <3>2
  <2> QED BY <2>2, <2>3
<1> QED BY <1>3, <1>4, <1>5, <1>6

-----------------------------------------------------------------------------
(* The steps, one function after the other. Each lemma has three parts: types, the call of *)
(* the thread that makes the step, and the calls of the others.                            *)

\* What a step of o is shown to do.
Good(o) == TypeOK' /\ CallInv(o)' /\ \A q \in Op \ {o} : RowKept(q)

\* open() of any function that uses it.
LEMMA OpenStep ==
  ASSUME TypeOK, NEW o \in Op, CallInv(o), pc[o] = "open", NEW flags,
         NEW next \in {"fstat", "prepare", "ftruncate", "futimens", "fsync"},
         call[o].fn = StageOf(next), next = "prepare" => "trunc" \in flags,
         Open(o, flags, next), call[o].fn # "probe_block_size"
  PROVE  Good(o)
<1> DEFINE p == call[o].path
<1>1. p \in Names /\ call[o] # NoCall /\ call[o] \in Calls
  BY CallTypes
<1>2. StageInv(o) /\ ReadInv(o)
  BY DEF CallInv
<1>3. fd[o] = 0 /\ n[o] = 0 /\ res[o] = "none" /\ probe[o] # "made" /\ ~disturbed[o]
  BY <1>2 DEF StageInv
<1>4. UNCHANGED <<probe, call, n, st_size, b64str, b64Save>>
  BY DEF Open, readVars
<1>5. ASSUME NEW i, fd' = [fd EXCEPT ![o] = i], i # 0, pc' = [pc EXCEPT ![o] = next],
             UNCHANGED res, ~disturbed'[o], next = "prepare" => data'[i] = <<>>
      PROVE  CallInv(o)'
  <2>1. fd'[o] = i /\ pc'[o] = next /\ res'[o] = "none"
    BY <1>3, <1>5 DEF TypeOK
  <2>2. StageInv(o)'
    BY <1>1, <1>3, <1>4, <1>5, <2>1 DEF StageInv
  <2>3. ProbeInv(o)'
    BY <2>1 DEF ProbeInv
  <2>4. ReadInv(o)'
    BY <1>2, <1>4, <2>1 DEF ReadInv
  <2>5. WriteInv(o)'
    BY <1>5, <2>1 DEF WriteInv
  <2> QED BY <2>2, <2>3, <2>4, <2>5 DEF CallInv
<1>6. ASSUME fd' = [fd EXCEPT ![o] = fd'[o]], pc' = [pc EXCEPT ![o] = pc'[o]],
             res' = [res EXCEPT ![o] = res'[o]], fd'[o] \in DOMAIN data' \cup {0},
             pc'[o] \in {"fstat", "prepare", "ftruncate", "futimens", "fsync", "returned"},
             res'[o] \in {"none", "error", "EIO"}, disturbed' \in [Op -> BOOLEAN],
             data' \in Seq(Seq(Nat)), disk' \in Seq(Seq(Nat)), Len(disk') = Len(data'),
             DOMAIN data \subseteq DOMAIN data', dir' \in [Names -> DOMAIN data' \cup {0}]
      PROVE  TypeOK'
  <2>1. fd' \in [Op -> Inodes' \cup {0}]
    BY <1>6 DEF TypeOK, Inodes
  <2>2. /\ pc' \in [Op -> {"idle", "open", "fstat", "read", "prepare", "write", "ftruncate",
                           "futimens", "fsync", "memalign", "pwrite", "delete", "returned"}]
        /\ res' \in [Op -> {"none", "ok", "error", "EINVAL", "EIO"}]
    <3>1. /\ pc'[o] \in {"idle", "open", "fstat", "read", "prepare", "write", "ftruncate",
                          "futimens", "fsync", "memalign", "pwrite", "delete", "returned"}
          /\ res'[o] \in {"none", "ok", "error", "EINVAL", "EIO"}
      BY <1>6, Zenon
    <3>2. /\ pc \in [Op -> {"idle", "open", "fstat", "read", "prepare", "write", "ftruncate",
                            "futimens", "fsync", "memalign", "pwrite", "delete", "returned"}]
          /\ res \in [Op -> {"none", "ok", "error", "EINVAL", "EIO"}]
      BY DEF TypeOK
    <3>3. pc' = [pc EXCEPT ![o] = pc'[o]] /\ res' = [res EXCEPT ![o] = res'[o]]
      BY <1>6
    <3> QED BY <3>1, <3>2, <3>3
  <2> QED BY <1>4, <1>6, <2>1, <2>2 DEF TypeOK, Inodes
<1>7. CASE /\ dir[p] # 0 /\ "excl" \notin flags
           /\ fd' = [fd EXCEPT ![o] = dir[p]] /\ pc' = [pc EXCEPT ![o] = next] /\ UNCHANGED res
           /\ IF "trunc" \in flags THEN Modify(o, dir[p], <<>>) ELSE UNCHANGED <<data, disturbed>>
           /\ UNCHANGED <<dir, disk>>
  <2> DEFINE i == dir[p]
  <2>1. i \in 1..Len(data) /\ i # 0
    BY <1>1, <1>7 DEF TypeOK, Inodes
  <2>2. /\ data' \in Seq(Seq(Nat)) /\ Len(data') = Len(data)
        /\ disturbed' \in [Op -> BOOLEAN]
        /\ "trunc" \in flags => data'[i] = <<>>
        /\ \A q \in Op \ {o} :
             /\ disturbed'[q] = disturbed[q] \/ (disturbed'[q] = TRUE /\ fd[q] # 0)
             /\ disturbed'[q] \/ fd[q] = 0 \/ data'[fd[q]] = data[fd[q]]
        /\ disturbed'[o] = disturbed[o]
    <3>1. CASE "trunc" \in flags
      <4>1. Modify(o, i, <<>>) /\ <<>> \in Seq(Nat)
        BY <1>7, <3>1
      <4> HIDE DEF i
      <4> QED BY <2>1, <4>1, ModifyFacts, ZenonT(30)
    <3>2. CASE "trunc" \notin flags
      <4>1. data' = data /\ disturbed' = disturbed
        BY <1>7, <3>2
      <4> QED BY <3>2, <4>1 DEF TypeOK
    <3> QED BY <3>1, <3>2
  <2>3. ~disturbed'[o]
    BY <1>3, <2>2
  <2>4. TypeOK'
    <3>1. disk' \in Seq(Seq(Nat)) /\ Len(disk') = Len(data')
      BY <1>7, <2>2 DEF TypeOK
    <3>2. DOMAIN data' = DOMAIN data
      BY <2>2 DEF TypeOK
    <3>3. dir' \in [Names -> DOMAIN data' \cup {0}]
      BY <1>7, <3>2 DEF TypeOK, Inodes
    <3>4. fd'[o] = i /\ pc'[o] = next /\ res'[o] = "none" /\ res' = [res EXCEPT ![o] = res'[o]]
      BY <1>3, <1>7 DEF TypeOK
    <3>5. i \in DOMAIN data'
      BY <2>1, <2>2
    <3> QED BY <1>6, <1>7, <2>2, <3>1, <3>2, <3>3, <3>4, <3>5
  <2>5. CallInv(o)'
    BY <1>5, <1>7, <2>1, <2>2, <2>3
  <2>6. ASSUME NEW q \in Op \ {o} PROVE RowKept(q)
    <3>1. pc'[q] = pc[q] /\ fd'[q] = fd[q] /\ res'[q] = res[q]
      BY <1>7 DEF TypeOK
    <3> QED BY <1>4, <2>2, <3>1 DEF RowKept
  <2> QED BY <2>4, <2>5, <2>6 DEF Good
<1>8. CASE /\ dir[p] = 0 /\ "creat" \in flags
           /\ data' = Append(data, <<>>) /\ disk' = Append(disk, <<>>)
           /\ dir' = [dir EXCEPT ![p] = Len(data')]
           /\ fd' = [fd EXCEPT ![o] = Len(data')] /\ pc' = [pc EXCEPT ![o] = next]
           /\ UNCHANGED res
           /\ UNCHANGED disturbed
  <2>1. /\ data' \in Seq(Seq(Nat)) /\ Len(data') = Len(data) + 1 /\ data'[Len(data')] = <<>>
        /\ disk' \in Seq(Seq(Nat)) /\ Len(disk') = Len(data')
        /\ \A j \in 1..Len(data) : data'[j] = data[j]
    BY <1>8 DEF TypeOK
  <2>2. Len(data) \in Nat /\ DOMAIN data = 1..Len(data) /\ DOMAIN data' = 1..Len(data) + 1
    BY <2>1 DEF TypeOK
  <2>3. TypeOK'
    <3>1. dir' \in [Names -> DOMAIN data' \cup {0}]
      <4>1. dir \in [Names -> DOMAIN data \cup {0}]
        BY DEF TypeOK, Inodes
      <4>2. Len(data') \in DOMAIN data' /\ DOMAIN data \subseteq DOMAIN data'
        BY <2>1, <2>2
      <4>3. dir' = [dir EXCEPT ![p] = Len(data')]
        BY <1>8
      <4> QED BY <4>1, <4>2, <4>3
    <3>2. /\ fd'[o] = Len(data') /\ pc'[o] = next /\ res'[o] = "none"
          /\ res' = [res EXCEPT ![o] = res'[o]] /\ disturbed' \in [Op -> BOOLEAN]
      BY <1>3, <1>8 DEF TypeOK
    <3>3. Len(data') \in DOMAIN data' /\ DOMAIN data \subseteq DOMAIN data'
      BY <2>1, <2>2
    <3> QED BY <1>6, <1>8, <2>1, <3>1, <3>2, <3>3
  <2>4. CallInv(o)'
    <3>1. Len(data') # 0 /\ ~disturbed'[o]
      BY <1>3, <1>8, <2>1, <2>2
    <3> QED BY <1>5, <1>8, <2>1, <3>1
  <2>5. ASSUME NEW q \in Op \ {o} PROVE RowKept(q)
    <3>1. fd[q] \in 1..Len(data) \cup {0}
      BY DEF TypeOK, Inodes
    <3>2. pc'[q] = pc[q] /\ fd'[q] = fd[q] /\ res'[q] = res[q] /\ disturbed'[q] = disturbed[q]
      BY <1>8 DEF TypeOK
    <3> QED BY <1>4, <2>1, <3>1, <3>2 DEF RowKept
  <2> QED BY <2>3, <2>4, <2>5 DEF Good
<1>9. ASSUME NEW r \in {"error", "EIO"}, Return(o, r), UNCHANGED <<dir, data, disk, disturbed>>
      PROVE  Good(o)
  <2>1. pc'[o] = "returned" /\ res'[o] = r /\ fd'[o] = 0
    BY <1>9 DEF Return, TypeOK
  <2>2. TypeOK'
    <3>1. /\ fd' = [fd EXCEPT ![o] = fd'[o]] /\ pc' = [pc EXCEPT ![o] = pc'[o]]
          /\ res' = [res EXCEPT ![o] = res'[o]]
      BY <1>9, <2>1 DEF Return
    <3>2. /\ data' \in Seq(Seq(Nat)) /\ disk' \in Seq(Seq(Nat)) /\ Len(disk') = Len(data')
          /\ DOMAIN data \subseteq DOMAIN data' /\ dir' \in [Names -> DOMAIN data' \cup {0}]
          /\ disturbed' \in [Op -> BOOLEAN]
      BY <1>9 DEF TypeOK, Inodes
    <3> QED BY <1>6, <1>9, <2>1, <3>1, <3>2
  <2>3. CallInv(o)'
    BY <1>1, <1>3, <1>4, <1>9, <2>1, CallReturned
  <2>4. ASSUME NEW q \in Op \ {o} PROVE RowKept(q)
    BY <1>4, <1>9 DEF RowKept, Return, TypeOK
  <2> QED BY <2>2, <2>3, <2>4 DEF Good
<1> QED BY <1>7, <1>8, <1>9 DEF Open

\* A step of o changes no row but o's, in a way that keeps the types, and opens nothing.
RowChange(o) ==
  /\ call' = [call EXCEPT ![o] = call'[o]] /\ call'[o] \in Calls \cup {NoCall}
  /\ pc' = [pc EXCEPT ![o] = pc'[o]]
  /\ pc'[o] \in {"idle", "open", "fstat", "read", "prepare", "write", "ftruncate",
                 "futimens", "fsync", "memalign", "pwrite", "delete", "returned"}
  /\ res' = [res EXCEPT ![o] = res'[o]] /\ res'[o] \in {"none", "ok", "error", "EINVAL", "EIO"}
  /\ fd' = [fd EXCEPT ![o] = fd'[o]] /\ fd'[o] \in {0, fd[o]}
  /\ n' = [n EXCEPT ![o] = n'[o]] /\ n'[o] \in Int
  /\ probe' = [probe EXCEPT ![o] = probe'[o]] /\ probe'[o] \in {"none", "made", "stuck"}

\* The same of the variables of readfile.
ReadChange(o) ==
  /\ st_size' = [st_size EXCEPT ![o] = st_size'[o]] /\ st_size'[o] \in Nat
  /\ b64str' = [b64str EXCEPT ![o] = b64str'[o]] /\ b64str'[o] \in Seq(Seq(Nat))
  /\ b64Save' = [b64Save EXCEPT ![o] = b64Save'[o]] /\ b64Save'[o] \in Seq(Nat)
  /\ Len(b64Save'[o]) < 3 /\ WellFormed(b64str'[o])

\* The files change as a call of o may change them.
FilesChange(o) ==
  /\ dir' \in [Names -> Inodes \cup {0}]
  /\ data' \in Seq(Seq(Nat)) /\ disk' \in Seq(Seq(Nat))
  /\ Len(data') = Len(data) /\ Len(disk') = Len(data)
  /\ disturbed' \in [Op -> BOOLEAN]
  /\ \A q \in Op \ {o} :
       /\ disturbed'[q] = disturbed[q] \/ (disturbed'[q] = TRUE /\ fd[q] # 0)
       /\ disturbed'[q] \/ fd[q] = 0 \/ data'[fd[q]] = data[fd[q]]

\* Such a step keeps the types and the rows of the others.
LEMMA StepFrame ==
  ASSUME TypeOK, NEW o \in Op, RowChange(o), ReadChange(o), FilesChange(o), CallInv(o)'
  PROVE  Good(o)
<1>1. Inodes' = Inodes
  BY DEF TypeOK, Inodes, FilesChange
<1>2. /\ call' \in [Op -> Calls \cup {NoCall}]
      /\ probe' \in [Op -> {"none", "made", "stuck"}]
      /\ n' \in [Op -> Int]
  BY DEF TypeOK, RowChange
<1>3. fd' \in [Op -> Inodes' \cup {0}]
  <2>1. fd' = [fd EXCEPT ![o] = fd'[o]] /\ fd'[o] \in {0, fd[o]}
    BY DEF RowChange
  <2>2. fd \in [Op -> Inodes \cup {0}]
    BY DEF TypeOK
  <2> QED BY <1>1, <2>1, <2>2
<1>4. pc' \in [Op -> {"idle", "open", "fstat", "read", "prepare", "write", "ftruncate",
                      "futimens", "fsync", "memalign", "pwrite", "delete", "returned"}]
  BY DEF TypeOK, RowChange
<1>5. res' \in [Op -> {"none", "ok", "error", "EINVAL", "EIO"}]
  BY DEF TypeOK, RowChange
<1>6. st_size' \in [Op -> Nat] /\ b64str' \in [Op -> Seq(Seq(Nat))] /\ b64Save' \in [Op -> Seq(Nat)]
  BY DEF TypeOK, ReadChange
<1>7. ASSUME NEW q \in Op PROVE Len(b64Save'[q]) < 3 /\ WellFormed(b64str'[q])
  <2>1. CASE q = o
    BY <2>1 DEF ReadChange
  <2>2. CASE q # o
    <3>1. b64Save'[q] = b64Save[q] /\ b64str'[q] = b64str[q]
      BY <2>2 DEF ReadChange, TypeOK
    <3> QED BY <3>1 DEF TypeOK
  <2> QED BY <2>1, <2>2
<1>8. TypeOK'
  <2>1. /\ data' \in Seq(Seq(Nat)) /\ disk' \in Seq(Seq(Nat)) /\ Len(disk') = Len(data')
        /\ dir' \in [Names -> Inodes' \cup {0}] /\ disturbed' \in [Op -> BOOLEAN]
    BY <1>1 DEF FilesChange
  <2> QED BY <1>2, <1>3, <1>4, <1>5, <1>6, <1>7, <2>1 DEF TypeOK
<1>9. ASSUME NEW q \in Op \ {o} PROVE RowKept(q)
  <2>1. /\ call'[q] = call[q] /\ pc'[q] = pc[q] /\ fd'[q] = fd[q] /\ n'[q] = n[q]
        /\ res'[q] = res[q] /\ probe'[q] = probe[q]
    BY DEF RowChange, TypeOK
  <2>2. st_size'[q] = st_size[q] /\ b64str'[q] = b64str[q] /\ b64Save'[q] = b64Save[q]
    BY DEF ReadChange, TypeOK
  <2> QED BY <2>1, <2>2 DEF FilesChange, RowKept
<1> QED BY <1>8, <1>9 DEF Good

\* Most steps leave some of the three alone.
LEMMA ReadUnchanged ==
  ASSUME TypeOK, NEW o \in Op, UNCHANGED readVars
  PROVE  ReadChange(o)
BY DEF TypeOK, ReadChange, readVars

\* The same of the files.
LEMMA FilesUnchanged ==
  ASSUME TypeOK, NEW o \in Op, UNCHANGED <<dir, data, disk, disturbed>>
  PROVE  FilesChange(o)
BY DEF TypeOK, FilesChange

\* close() and the response.
LEMMA ReturnChange ==
  ASSUME TypeOK, NEW o \in Op, NEW r \in {"ok", "error", "EINVAL", "EIO"}, Return(o, r),
         UNCHANGED <<call, n>>,
         probe' = [probe EXCEPT ![o] = probe'[o]], probe'[o] \in {"none", "made", "stuck"}
  PROVE  RowChange(o) /\ pc'[o] = "returned" /\ fd'[o] = 0 /\ res'[o] = r
BY DEF TypeOK, Return, RowChange

\* A step that ends the call of o and changes neither files nor what was read.
LEMMA ReturnStep ==
  ASSUME TypeOK, NEW o \in Op, CallInv(o), NEW r \in {"ok", "error", "EINVAL", "EIO"},
         Return(o, r), UNCHANGED <<fsVars, call, n, readVars, disturbed>>,
         pc[o] \notin {"idle", "memalign", "pwrite", "delete"},
         \/ r \in {"error", "EIO"}
         \/ call[o].fn \notin {"readfile", "probe_block_size"}
         \/ call[o].fn = "probe_block_size" /\ r = "EINVAL" /\ Takes(o) = {}
  PROVE  Good(o)
<1>1. call[o] # NoCall /\ probe[o] # "made"
  BY DEF CallInv, StageInv
<1>2. UNCHANGED <<dir, data, disk, disturbed>> /\ UNCHANGED readVars /\ UNCHANGED <<call, n, probe>>
  BY DEF fsVars
<1>3. probe' = [probe EXCEPT ![o] = probe'[o]] /\ probe'[o] \in {"none", "made", "stuck"}
  BY <1>2 DEF TypeOK
<1>4. RowChange(o) /\ pc'[o] = "returned" /\ fd'[o] = 0 /\ res'[o] = r
  BY <1>2, <1>3, ReturnChange
<1>5. CallInv(o)'
  <2>1. call'[o] = call[o] /\ probe'[o] = probe[o] /\ Takes(o)' = Takes(o)
    BY <1>2 DEF Takes
  <2> QED BY <1>1, <1>4, <2>1, CallReturned
<1> QED BY <1>2, <1>4, <1>5, ReadUnchanged, FilesUnchanged, StepFrame

\* A system call that fails.
LEMMA FailsStep ==
  ASSUME TypeOK, NEW o \in Op, CallInv(o), NEW fault, Fails(o, fault),
         pc[o] \notin {"idle", "memalign", "pwrite", "delete"}
  PROVE  Good(o)
BY ReturnStep DEF Fails

\* A request arrives.
LEMMA StartStep ==
  ASSUME TypeOK, NEW o \in Op, CallInv(o), Start(o)
  PROVE  Good(o)
<1>1. PICK c \in Calls : call' = [call EXCEPT ![o] = c]
  BY DEF Start
<1>2. /\ pc[o] = "idle" /\ Goto(o, "open")
      /\ UNCHANGED <<dir, data, disk, disturbed>> /\ UNCHANGED readVars /\ UNCHANGED <<n, probe>>
  BY DEF Start, fsVars
<1>3. pc'[o] = "open" /\ fd'[o] = fd[o] /\ res'[o] = res[o] /\ call'[o] = c
  BY <1>1, <1>2 DEF Goto, TypeOK
<1>4. c # NoCall
  BY CallsAssumption DEF NoCall
<1>5. RowChange(o)
  BY <1>1, <1>2, <1>3 DEF Goto, TypeOK, RowChange
<1>6. CallInv(o)'
  <2>1. StageInv(o)'
    BY <1>2, <1>3, <1>4 DEF CallInv, StageInv
  <2>2. ProbeInv(o)' /\ WriteInv(o)'
    BY <1>3 DEF ProbeInv, WriteInv
  <2>3. ReadInv(o)'
    BY <1>2, <1>3 DEF CallInv, ReadInv, readVars
  <2> QED BY <2>1, <2>2, <2>3 DEF CallInv
<1> QED BY <1>2, <1>5, <1>6, ReadUnchanged, FilesUnchanged, StepFrame

-----------------------------------------------------------------------------
(* readfile *)

\* fstat(), before anything was read.
LEMMA ReadStatStep ==
  ASSUME TypeOK, NEW o \in Op, CallInv(o), ReadStat(o)
  PROVE  Good(o)
<1>1. call[o].fn = "readfile" /\ pc[o] = "fstat"
  BY DEF ReadStat, At
<1>2. CASE Fails(o, "setup")
  BY <1>1, <1>2, FailsStep
<1>3. CASE /\ st_size' = [st_size EXCEPT ![o] = Len(data[fd[o]])]
           /\ Goto(o, "read")
           /\ UNCHANGED <<fsVars, call, n, b64str, b64Save, disturbed>>
  <2> DEFINE d == data[fd[o]]
  <2>1. fd[o] \in 1..Len(data) /\ d \in Seq(Nat) /\ Len(d) \in Nat
    BY <1>1 DEF CallInv, StageInv, TypeOK, Inodes
  <2>2. /\ UNCHANGED <<dir, data, disk, disturbed>> /\ UNCHANGED <<call, n, probe>>
        /\ UNCHANGED <<b64str, b64Save>>
    BY <1>3 DEF fsVars
  <2>3. pc'[o] = "read" /\ fd'[o] = fd[o] /\ res'[o] = res[o] /\ st_size'[o] = Len(d)
    BY <1>3 DEF Goto, TypeOK
  <2>4. RowChange(o)
    BY <1>3, <2>2, <2>3 DEF Goto, TypeOK, RowChange
  <2>5. ReadChange(o)
    BY <1>3, <2>1, <2>2, <2>3 DEF TypeOK, ReadChange
  <2>6. b64str[o] = <<>> /\ b64Save[o] = <<>> /\ n[o] = 0
    BY <1>1 DEF CallInv, ReadInv, StageInv
  <2>7. Offset(o)' = 0 /\ ReadSoFar(o)' = <<>>
    BY <2>2, <2>6, DecodeEmpty DEF Offset, ReadSoFar
  <2>8. SubSeq(d, 1, 0) = <<>> /\ 0 % BlockSize = 0 /\ BlockSize \in Nat /\ BlockSize > 0
    BY SubSeqEmpty, ConstantsAssumption
  <2>9. LoopInv(o)'
    <3>1. /\ \A g \in DOMAIN b64str'[o] : Len(b64str'[o][g]) = 3
          /\ b64Save'[o] = <<>> /\ n'[o] = 0 /\ data'[fd'[o]] = d
      BY <2>2, <2>3, <2>6
    <3>2. 0 \in -(IntMax + 1)..IntMax
      BY ConstantsAssumption
    <3> HIDE DEF d
    <3> QED BY <2>1, <2>3, <2>7, <2>8, <3>1, <3>2 DEF LoopInv
  <2>10. StageInv(o)'
    BY <1>1, <2>2, <2>3 DEF CallInv, StageInv, StageOf
  <2>11. CallInv(o)'
    BY <2>3, <2>9, <2>10 DEF CallInv, ProbeInv, WriteInv, ReadInv
  <2> QED BY <2>2, <2>4, <2>5, <2>11, FilesUnchanged, StepFrame
<1> QED BY <1>2, <1>3 DEF ReadStat

\* The multiples of a block follow each other at its distance.
LEMMA NextBlock ==
  ASSUME NEW k \in Nat, k % BlockSize = 0
  PROVE  (k + BlockSize) % BlockSize = 0
<1>1. BlockSize \in Nat /\ BlockSize > 0
  BY ConstantsAssumption
<1> DEFINE q == k \div BlockSize
<1>2. q \in Nat /\ k = BlockSize * q
  BY <1>1
<1> HIDE DEF q
<1>3. k + BlockSize = BlockSize * (q + 1)
  BY <1>1, <1>2
<1>4. (BlockSize * (q + 1)) % BlockSize = 0
  BY <1>1, <1>2
<1> QED BY <1>3, <1>4

\* How much of a file of len bytes a read at offset k returns.
Amounts(len, k, direct) ==
  LET left == len - k
      most == IF left < BlockSize THEN left ELSE BlockSize
  IN IF left <= 0 THEN {0} ELSE IF direct THEN {most} ELSE 1..most

\* It is no more than a block, and a direct read stops short of one at the end only.
LEMMA ReadAmount ==
  ASSUME NEW len \in Nat, NEW k \in Nat, NEW direct \in BOOLEAN, NEW rd \in Amounts(len, k, direct)
  PROVE  /\ rd \in Nat /\ rd <= BlockSize /\ (rd = 0 \/ k + rd <= len)
         /\ k <= len => k + rd <= len
         /\ direct /\ k <= len => rd = BlockSize \/ k + rd = len
<1>1. BlockSize \in Nat /\ BlockSize > 0
  BY ConstantsAssumption
<1>2. CASE len - k <= 0
  <2>1. rd = 0
    BY <1>2 DEF Amounts
  <2> QED BY <1>1, <1>2, <2>1
<1>3. CASE ~(len - k <= 0)
  <2> DEFINE most == IF len - k < BlockSize THEN len - k ELSE BlockSize
  <2>1. /\ most \in 1..len - k /\ most <= BlockSize
        /\ most = BlockSize \/ k + most = len
    BY <1>1, <1>3
  <2>2. rd \in IF direct THEN {most} ELSE 1..most
    BY <1>3 DEF Amounts
  <2> HIDE DEF most
  <2>3. direct = TRUE => rd = most
    BY <2>2
  <2>4. direct = FALSE => rd \in 1..most
    BY <2>2
  <2>5. rd \in 1..most
    BY <2>1, <2>3, <2>4
  <2>6. rd \in Nat /\ rd <= BlockSize /\ k + rd <= len
    BY <1>1, <2>1, <2>5
  <2>7. direct => rd = BlockSize \/ k + rd = len
    BY <2>1, <2>3
  <2> QED BY <2>6, <2>7
<1> QED BY <1>2, <1>3

\* The bytes of one read, and where the loop is after it.
LEMMA ReadBytes ==
  ASSUME NEW d \in Seq(Nat), NEW k \in Nat, NEW rd \in Nat, rd = 0 \/ k + rd <= Len(d)
  PROVE  /\ SubSeq(d, k + 1, k + rd) \in Seq(Nat)
         /\ Len(SubSeq(d, k + 1, k + rd)) = rd
         /\ k + rd <= Len(d) => SubSeq(d, 1, k) \o SubSeq(d, k + 1, k + rd) = SubSeq(d, 1, k + rd)
<1>1. k + 1 \in Int /\ k + rd \in Int /\ \A j \in k + 1..k + rd : d[j] \in Nat
  OBVIOUS
<1> DEFINE u == SubSeq(d, k + 1, k + rd)
<1>2. u \in Seq(Nat) /\ Len(u) = IF k + 1 <= k + rd THEN k + rd - (k + 1) + 1 ELSE 0
  BY <1>1, SubSeqProperties
<1>3. k + rd <= Len(d) => SubSeq(d, 1, k) \o u = SubSeq(d, 1, k + rd)
  <2>1. SUFFICES ASSUME k + rd <= Len(d) PROVE SubSeq(d, 1, k) \o u = SubSeq(d, 1, k + rd)
    OBVIOUS
  <2>2. 1 \in 1..Len(d) + 1 /\ k \in 1 - 1..Len(d) /\ k + rd \in k..Len(d)
    BY <2>1
  <2> QED BY <2>2, ConcatAdjacentSubSeq
<1> HIDE DEF u
<1>4. Len(u) = rd
  BY <1>2
<1> QED BY <1>2, <1>3, <1>4 DEF u

\* One turn of the loop of readfile.
LEMMA ReadLoopStep ==
  ASSUME TypeOK, NEW o \in Op, CallInv(o), ReadLoop(o)
  PROVE  Good(o)
<1>1. call[o].fn = "readfile" /\ pc[o] = "read" /\ n[o] < st_size[o]
  BY DEF ReadLoop, At, MoreToRead
<1>2. LoopInv(o) /\ StageInv(o)
  BY <1>1 DEF CallInv, ReadInv
<1> DEFINE d == data[fd[o]]
           k == Offset(o)
           t == b64str[o]
           v == b64Save[o]
<1>3. /\ fd[o] \in 1..Len(data) /\ d \in Seq(Nat) /\ Len(d) \in Nat
      /\ t \in Seq(Seq(Nat)) /\ v \in Seq(Nat) /\ n[o] \in Int /\ st_size[o] \in Nat
      /\ disturbed[o] \in BOOLEAN
  <2>1. data \in Seq(Seq(Nat)) /\ fd[o] \in Inodes \cup {0} /\ fd[o] # 0
    BY <1>1, <1>2 DEF StageInv, TypeOK
  <2>2. fd[o] \in 1..Len(data)
    BY <2>1 DEF Inodes
  <2>3. d \in Seq(Nat) /\ Len(d) \in Nat
    BY <2>1, <2>2
  <2>4. /\ t \in Seq(Seq(Nat)) /\ v \in Seq(Nat) /\ n[o] \in Int /\ st_size[o] \in Nat
        /\ disturbed[o] \in BOOLEAN
    BY DEF TypeOK
  <2> QED BY <2>2, <2>3, <2>4
<1>4. Decode(t) \in Seq(Nat) /\ k = Len(Decode(t)) + Len(v) /\ k \in Nat
  <2>1. Decode(t) \in Seq(Nat)
    BY <1>3, DecodeType, Zenon
  <2>2. k = Len(Decode(t)) + Len(v)
    BY DEF Offset
  <2>3. Len(Decode(t)) \in Nat /\ Len(v) \in Nat
    BY <1>3, <2>1
  <2> HIDE DEF k, t, v
  <2> QED BY <2>1, <2>2, <2>3
<1>5. BlockSize \in Nat /\ BlockSize > 0 /\ IntMax \in Nat
  BY ConstantsAssumption
<1>6. call[o] # NoCall /\ Direct(o) \in BOOLEAN
  <2>1. pc[o] # "idle"
    BY <1>1
  <2> QED BY <1>1, <2>1, CallTypes, Zenon
<1>7. CASE Fails(o, "read")
  BY <1>1, <1>7, FailsStep
<1>8. CASE /\ Direct(o) /\ Offset(o) % BlockSize # 0
           /\ Return(o, "EINVAL")
           /\ UNCHANGED <<fsVars, call, n, readVars, disturbed>>
  <2>1. /\ UNCHANGED <<dir, data, disk, disturbed>> /\ UNCHANGED readVars
        /\ UNCHANGED <<call, n, probe>>
    BY <1>8 DEF fsVars
  <2>2. probe' = [probe EXCEPT ![o] = probe'[o]] /\ probe'[o] \in {"none", "made", "stuck"}
    BY <2>1 DEF TypeOK
  <2>3. RowChange(o) /\ pc'[o] = "returned" /\ fd'[o] = 0 /\ res'[o] = "EINVAL"
    BY <1>8, <2>1, <2>2, ReturnChange
  <2>4. disturbed[o] \/ st_size[o] > IntMax
    <3>1. ~disturbed[o] => /\ st_size[o] <= IntMax => n[o] = k
                           /\ Direct(o) => k % BlockSize = 0 \/ k = st_size[o]
      BY <1>2, Zenon DEF LoopInv
    <3>2. Direct(o) /\ k % BlockSize # 0
      BY <1>8
    <3>3. disturbed[o] \/ ~(st_size[o] <= IntMax) \/ n[o] = st_size[o]
      BY <3>1, <3>2, Zenon
    <3> QED BY <1>1, <1>3, <1>5, <3>3
  <2>5. StageInv(o)'
    BY <1>1, <1>2, <1>6, <2>1, <2>3 DEF StageInv
  <2>6. disturbed'[o] \/ st_size'[o] > IntMax
    BY <2>1, <2>4 DEF readVars
  <2>7. ProbeInv(o)' /\ ReadInv(o)' /\ WriteInv(o)'
    BY <1>1, <2>1, <2>3, <2>6 DEF ProbeInv, ReadInv, WriteInv
  <2>8. CallInv(o)'
    BY <2>5, <2>7 DEF CallInv
  <2> QED BY <2>1, <2>3, <2>8, ReadUnchanged, FilesUnchanged, StepFrame
<1>9. ASSUME Direct(o) => k % BlockSize = 0, NEW rd \in Readable(o),
             EncodeStep(o, SubSeq(d, k + 1, k + rd)), CountRead(o, rd),
             UNCHANGED <<fsVars, call, pc, fd, st_size, res, disturbed>>
      PROVE  Good(o)
  <2> DEFINE u == SubSeq(d, k + 1, k + rd)
             all == v \o u
  <2>1. /\ rd \in Nat /\ rd <= BlockSize /\ (rd = 0 \/ k + rd <= Len(d))
        /\ k <= Len(d) => k + rd <= Len(d)
        /\ Direct(o) /\ k <= Len(d) => rd = BlockSize \/ k + rd = Len(d)
    <3>1. rd \in Amounts(Len(d), k, Direct(o))
      BY <1>9 DEF Readable, Amounts
    <3>2. Len(d) \in Nat /\ k \in Nat /\ Direct(o) \in BOOLEAN
      BY <1>3, <1>4, <1>6
    <3> HIDE DEF d, k
    <3> QED BY <3>1, <3>2, ReadAmount, Zenon
  <2>2. /\ u \in Seq(Nat) /\ Len(u) = rd
        /\ k + rd <= Len(d) => SubSeq(d, 1, k) \o u = SubSeq(d, 1, k + rd)
    <3> HIDE DEF d, k
    <3> QED BY <1>3, <1>4, <2>1, ReadBytes, ZenonT(90)
  <2> HIDE DEF u
  <2>3. all \in Seq(Nat) /\ Len(all) = Len(v) + rd
    <3>1. v \in Seq(Nat) /\ u \in Seq(Nat) /\ Len(u) = rd
      BY <1>3, <2>2
    <3> HIDE DEF v
    <3> QED BY <3>1, ConcatProperties
  <2> DEFINE tt == t \o FullGroups(all)
             vv == Rest(all)
  <2>4. /\ FullGroups(all) \in Seq(Seq(Nat)) /\ vv \in Seq(Nat) /\ Len(vv) < 3
        /\ \A g \in DOMAIN FullGroups(all) : Len(FullGroups(all)[g]) = 3
    <3> HIDE DEF all
    <3>1. /\ FullGroups(all) \in Seq(Seq(Nat)) /\ Len(FullGroups(all)) = Len(all) \div 3
          /\ vv \in Seq(Nat) /\ Len(vv) < 3
          /\ \A g \in 1..Len(all) \div 3 : Len(FullGroups(all)[g]) = 3
      BY <2>3, GroupsType
    <3> QED BY <3>1
  <2>5. Decode(tt) \o vv = Decode(t) \o all
    <3> HIDE DEF all, t
    <3> QED BY <1>3, <2>3, EncodeKeeps
  <2>6. Decode(t) \o all = ReadSoFar(o) \o u
    <3>1. (Decode(t) \o v) \o u = Decode(t) \o (v \o u)
      BY <1>3, <1>4, <2>2, JoinBytes, Zenon
    <3> QED BY <3>1 DEF ReadSoFar
  <2>7. tt \in Seq(Seq(Nat)) /\ \A g \in DOMAIN tt : Len(tt[g]) = 3
    <3>1. \A g \in DOMAIN t : Len(t[g]) = 3
      BY <1>2 DEF LoopInv
    <3> DEFINE F == FullGroups(all)
    <3> HIDE DEF F, t
    <3>2. t \in Seq(Seq(Nat)) /\ F \in Seq(Seq(Nat)) /\ \A g \in DOMAIN F : Len(F[g]) = 3
      BY <1>3, <2>4 DEF F
    <3>3. t \o F \in Seq(Seq(Nat)) /\ \A g \in DOMAIN (t \o F) : Len((t \o F)[g]) = 3
      BY <3>1, <3>2
    <3> QED BY <3>3 DEF F
  <2>8. Len(Decode(tt)) + Len(vv) = k + rd
    <3>1. Decode(tt) \in Seq(Nat)
      BY <2>7, DecodeType, Zenon
    <3>2. Len(Decode(tt) \o vv) = Len(Decode(tt)) + Len(vv)
      BY <2>4, <3>1, ConcatProperties
    <3>3. Len(Decode(t) \o all) = Len(Decode(t)) + Len(all)
      BY <1>4, <2>3, ConcatProperties
    <3>4. Len(v) \in Nat /\ Len(Decode(t)) \in Nat
      BY <1>3, <1>4
    <3> HIDE DEF tt, vv, all, k, t, v
    <3> QED BY <1>4, <2>1, <2>3, <2>5, <3>2, <3>3, <3>4
  <2>9. /\ UNCHANGED <<dir, data, disk, disturbed>>
        /\ UNCHANGED <<call, pc, fd, st_size, res, probe>>
        /\ b64str' = [b64str EXCEPT ![o] = tt] /\ b64Save' = [b64Save EXCEPT ![o] = vv]
        /\ n' = [n EXCEPT ![o] = AsInt(n[o] + rd)]
    BY <1>9 DEF fsVars, EncodeStep, CountRead, u
  <2> DEFINE m == AsInt(n[o] + rd)
  <2>10. /\ m \in -(IntMax + 1)..IntMax /\ m <= n[o] + rd
         /\ n[o] + rd <= IntMax => m = n[o] + rd
    <3>1. n[o] \in -(IntMax + 1)..IntMax
      BY <1>2 DEF LoopInv
    <3>2. n[o] + rd \in Int /\ n[o] + rd >= -(IntMax + 1)
      BY <1>5, <2>1, <3>1
    <3> QED BY <3>2, AsIntBound
  <2> HIDE DEF tt, vv, m
  <2>11. b64str'[o] = tt /\ b64Save'[o] = vv /\ n'[o] = m
    BY <2>9 DEF TypeOK, m
  <2>12. Offset(o)' = k + rd /\ ReadSoFar(o)' = ReadSoFar(o) \o u /\ Direct(o)' = Direct(o)
    <3>1. Offset(o)' = Len(Decode(tt)) + Len(vv) /\ ReadSoFar(o)' = Decode(tt) \o vv
      BY <2>11 DEF Offset, ReadSoFar
    <3>2. Direct(o)' = Direct(o)
      BY <2>9 DEF Direct
    <3> QED BY <2>5, <2>6, <2>8, <3>1, <3>2, Zenon
  <2>13. RowChange(o)
    BY <1>5, <2>9, <2>10, <2>11 DEF RowChange, TypeOK
  <2>14. WellFormed(tt)
    <3>1. DOMAIN tt = 1..Len(tt) /\ Len(tt) \in Nat
      BY <2>7
    <3>2. \A g \in 1..Len(tt) - 1 : g \in DOMAIN tt
      BY <3>1
    <3> QED BY <2>7, <3>2, Zenon DEF WellFormed
  <2>15. ReadChange(o)
    <3>1. tt \in Seq(Seq(Nat)) /\ vv \in Seq(Nat) /\ Len(vv) < 3
      BY <2>4, <2>7
    <3>2. st_size' = [st_size EXCEPT ![o] = st_size'[o]] /\ st_size'[o] \in Nat
      BY <1>3, <2>9 DEF TypeOK
    <3>3. /\ b64str' = [b64str EXCEPT ![o] = b64str'[o]]
          /\ b64Save' = [b64Save EXCEPT ![o] = b64Save'[o]]
      BY <2>9, <2>11, Zenon
    <3>4. /\ b64str'[o] \in Seq(Seq(Nat)) /\ b64Save'[o] \in Seq(Nat)
          /\ Len(b64Save'[o]) < 3 /\ WellFormed(b64str'[o])
      BY <2>11, <2>14, <3>1
    <3> QED BY <3>2, <3>3, <3>4 DEF ReadChange
  <2>16. st_size[o] > 0
    BY <1>1, <1>2, <1>3 DEF LoopInv
  <2>17. /\ n[o] <= k
         /\ st_size[o] + BlockSize <= IntMax + 1 => n[o] = k /\ n[o] < st_size[o] + BlockSize
         /\ ~disturbed[o] => /\ st_size[o] = Len(d) /\ ReadSoFar(o) = SubSeq(d, 1, k)
                             /\ k <= st_size[o] /\ (st_size[o] <= IntMax => n[o] = k)
    BY <1>2 DEF LoopInv
  <2>18. /\ m <= k + rd
         /\ st_size[o] + BlockSize <= IntMax + 1 =>
              m = k + rd /\ m < st_size[o] + BlockSize
    <3>1. /\ n[o] <= k /\ n[o] \in Int /\ k \in Nat /\ st_size[o] \in Nat
          /\ st_size[o] + BlockSize <= IntMax + 1 => n[o] = k
          /\ m \in Int /\ m <= n[o] + rd /\ (n[o] + rd <= IntMax => m = n[o] + rd)
          /\ rd \in Nat /\ rd <= BlockSize /\ n[o] < st_size[o]
      <4>1. m \in Int
        <5> DEFINE lo == -(IntMax + 1)
        <5>1. m \in lo..IntMax /\ lo \in Int
          BY <1>5, <2>10
        <5> HIDE DEF lo
        <5> QED BY <1>5, <5>1
      <4> QED BY <1>1, <1>3, <1>4, <2>1, <2>10, <2>17, <4>1, Zenon
    <3> HIDE DEF k
    <3> QED BY <1>5, <3>1
  <2>19. ASSUME ~disturbed[o]
         PROVE  /\ st_size[o] = Len(d) /\ ReadSoFar(o) \o u = SubSeq(d, 1, k + rd)
                /\ k + rd <= st_size[o]
                /\ st_size[o] <= IntMax => m = k + rd
                /\ Direct(o) => (k + rd) % BlockSize = 0 \/ k + rd = st_size[o]
    <3>1. st_size[o] = Len(d) /\ k <= Len(d) /\ k + rd <= Len(d)
      BY <2>1, <2>17, <2>19
    <3>2. ReadSoFar(o) \o u = SubSeq(d, 1, k + rd)
      <4>1. ReadSoFar(o) = SubSeq(d, 1, k)
        BY <2>17, <2>19, Zenon
      <4> QED BY <2>2, <3>1, <4>1, Zenon
    <3>3. st_size[o] <= IntMax => m = k + rd
      <4>1. /\ st_size[o] <= IntMax => n[o] = k
            /\ n[o] + rd <= IntMax => m = n[o] + rd
            /\ k + rd <= st_size[o] /\ st_size[o] \in Nat /\ k \in Nat /\ rd \in Nat
        BY <1>3, <1>4, <2>1, <2>10, <2>17, <2>19, <3>1, Zenon
      <4> HIDE DEF d, k
      <4> QED BY <1>5, <4>1
    <3>4. Direct(o) => (k + rd) % BlockSize = 0 \/ k + rd = st_size[o]
      <4>1. SUFFICES ASSUME Direct(o), k + rd # Len(d) PROVE (k + rd) % BlockSize = 0
        BY <3>1
      <4>2. rd = BlockSize /\ k % BlockSize = 0
        BY <1>9, <2>1, <3>1, <4>1, Zenon
      <4> HIDE DEF k
      <4> QED BY <1>4, <4>2, NextBlock
    <3> QED BY <3>1, <3>2, <3>3, <3>4
  <2>20. LoopInv(o)'
    <3>1. /\ st_size'[o] = st_size[o] /\ disturbed'[o] = disturbed[o]
          /\ data'[fd'[o]] = d
      BY <2>9
    <3>2. \A g \in DOMAIN b64str'[o] : Len(b64str'[o][g]) = 3
      BY <2>7, <2>11
    <3>3. n'[o] \in -(IntMax + 1)..IntMax /\ n'[o] <= Offset(o)'
      BY <2>10, <2>11, <2>12, <2>18
    <3>4. st_size'[o] # 0
      BY <1>3, <2>16, <3>1
    <3>5. st_size'[o] + BlockSize <= IntMax + 1 =>
            n'[o] = Offset(o)' /\ n'[o] < st_size'[o] + BlockSize
      BY <2>11, <2>12, <2>18, <3>1
    <3>6. ~disturbed'[o] =>
            /\ st_size'[o] = Len(data'[fd'[o]])
            /\ ReadSoFar(o)' = SubSeq(data'[fd'[o]], 1, Offset(o)')
            /\ Offset(o)' <= st_size'[o]
            /\ st_size'[o] <= IntMax => n'[o] = Offset(o)'
            /\ Direct(o)' => Offset(o)' % BlockSize = 0 \/ Offset(o)' = st_size'[o]
      BY <2>11, <2>12, <2>19, <3>1, Zenon
    <3> QED BY <3>2, <3>3, <3>4, <3>5, <3>6, Zenon DEF LoopInv
  <2>21. StageInv(o)'
    BY <1>1, <1>2, <2>9 DEF StageInv
  <2>22. pc'[o] = "read"
    BY <1>1, <2>9
  <2>23. CallInv(o)'
    BY <2>20, <2>21, <2>22 DEF CallInv, ProbeInv, WriteInv, ReadInv
  <2> QED BY <2>9, <2>13, <2>15, <2>23, FilesUnchanged, StepFrame
<1> QED BY <1>7, <1>8, <1>9 DEF ReadLoop

\* The text that readfile returns decodes to what it has read.
LEMMA ReadEndFacts ==
  ASSUME TypeOK, NEW o \in Op, CallInv(o), ReadEnd(o)
  PROVE  /\ Decode(b64str'[o]) = ReadSoFar(o) /\ Len(ReadSoFar(o)) = Offset(o)
         /\ b64str'[o] \in Seq(Seq(Nat)) /\ WellFormed(b64str'[o])
         /\ Offset(o) \in Nat /\ st_size[o] <= n[o] /\ n[o] <= Offset(o)
         /\ call[o].fn = "readfile" /\ pc[o] = "read" /\ LoopInv(o)
<1> DEFINE t == b64str[o]
           v == b64Save[o]
<1>1. call[o].fn = "readfile" /\ pc[o] = "read" /\ ~(n[o] < st_size[o])
  BY DEF ReadEnd, At, MoreToRead
<1>2. LoopInv(o)
  BY <1>1 DEF CallInv, ReadInv
<1>3. t \in Seq(Seq(Nat)) /\ v \in Seq(Nat) /\ n[o] \in Int /\ st_size[o] \in Nat
  BY DEF TypeOK
<1>4. Decode(t) \in Seq(Nat)
  BY <1>3, DecodeType, Zenon
<1>5. /\ st_size[o] <= n[o] /\ n[o] <= Offset(o)
      /\ n[o] > 0 \/ v = <<>>
  BY <1>1, <1>2, <1>3 DEF LoopInv
<1>6. Len(ReadSoFar(o)) = Offset(o) /\ Offset(o) \in Nat
  <2>1. Len(Decode(t) \o v) = Len(Decode(t)) + Len(v)
    BY <1>3, <1>4, ConcatProperties
  <2>2. Len(Decode(t)) \in Nat /\ Len(v) \in Nat
    BY <1>3, <1>4
  <2>3. Offset(o) = Len(Decode(t)) + Len(v) /\ ReadSoFar(o) = Decode(t) \o v
    BY DEF Offset, ReadSoFar
  <2> HIDE DEF t, v
  <2> QED BY <2>1, <2>2, <2>3
<1>7. b64str'[o] = IF n[o] > 0 /\ v # <<>> THEN Append(t, v) ELSE t
  BY DEF ReadEnd, TypeOK
<1>8. DOMAIN t = 1..Len(t) /\ Len(t) \in Nat /\ \A g \in 1..Len(t) : Len(t[g]) = 3
  BY <1>2, <1>3 DEF LoopInv
<1>9. CASE n[o] > 0 /\ v # <<>>
  <2> HIDE DEF t, v
  <2>1. b64str'[o] = Append(t, v)
    BY <1>7, <1>9
  <2>2. Decode(Append(t, v)) = Decode(t) \o v
    BY <1>3, DecodeMore, Zenon
  <2>3. /\ Append(t, v) \in Seq(Seq(Nat)) /\ Len(Append(t, v)) = Len(t) + 1
        /\ \A g \in 1..Len(t) : Append(t, v)[g] = t[g]
    BY <1>3, AppendProperties
  <2>4. WellFormed(Append(t, v))
    BY <1>8, <2>3 DEF WellFormed
  <2> QED BY <1>1, <1>2, <1>5, <1>6, <2>1, <2>2, <2>3, <2>4 DEF ReadSoFar, t, v
<1>10. CASE ~(n[o] > 0 /\ v # <<>>)
  <2> HIDE DEF t, v
  <2>1. b64str'[o] = t /\ v = <<>>
    BY <1>5, <1>7, <1>10
  <2>2. Decode(t) \o v = Decode(t)
    BY <1>4, <2>1, ConcatEmptySeq
  <2>3. WellFormed(t)
    BY <1>8 DEF WellFormed
  <2> QED BY <1>1, <1>2, <1>3, <1>5, <1>6, <2>1, <2>2, <2>3 DEF ReadSoFar, t, v
<1> QED BY <1>9, <1>10

\* readfile returns.
LEMMA ReadEndStep ==
  ASSUME TypeOK, NEW o \in Op, CallInv(o), ReadEnd(o)
  PROVE  Good(o)
<1>1. /\ Decode(b64str'[o]) = ReadSoFar(o) /\ Len(ReadSoFar(o)) = Offset(o)
      /\ b64str'[o] \in Seq(Seq(Nat)) /\ WellFormed(b64str'[o])
      /\ Offset(o) \in Nat /\ st_size[o] <= n[o] /\ n[o] <= Offset(o)
      /\ call[o].fn = "readfile" /\ pc[o] = "read" /\ LoopInv(o)
  BY ReadEndFacts
<1>2. /\ Return(o, "ok") /\ UNCHANGED <<dir, data, disk, disturbed>>
      /\ UNCHANGED <<call, n, probe>> /\ UNCHANGED st_size
      /\ b64str' = [b64str EXCEPT ![o] = b64str'[o]]
      /\ b64Save' = [b64Save EXCEPT ![o] = <<>>]
  BY DEF ReadEnd, fsVars, TypeOK
<1>3. probe' = [probe EXCEPT ![o] = probe'[o]] /\ probe'[o] \in {"none", "made", "stuck"}
  BY <1>2 DEF TypeOK
<1>4. RowChange(o) /\ pc'[o] = "returned" /\ fd'[o] = 0 /\ res'[o] = "ok"
  BY <1>2, <1>3, ReturnChange
<1>5. ReadChange(o)
  <2>1. b64Save'[o] = <<>> /\ <<>> \in Seq(Nat) /\ Len(<<>>) < 3
    BY <1>2 DEF TypeOK
  <2>2. st_size' = [st_size EXCEPT ![o] = st_size'[o]] /\ st_size'[o] \in Nat
    BY <1>2 DEF TypeOK
  <2> QED BY <1>1, <1>2, <2>1, <2>2 DEF ReadChange
<1>6. StageInv(o)'
  BY <1>1, <1>2, <1>4 DEF CallInv, StageInv
<1>7. /\ Len(Decode(b64str'[o])) >= st_size'[o]
      /\ st_size'[o] + BlockSize <= IntMax + 1 =>
           Len(Decode(b64str'[o])) < st_size'[o] + BlockSize
  <2>1. Len(Decode(b64str'[o])) = Offset(o) /\ st_size'[o] = st_size[o]
    BY <1>1, <1>2
  <2>2. st_size[o] + BlockSize <= IntMax + 1 => n[o] = Offset(o) /\ n[o] < st_size[o] + BlockSize
    BY <1>1 DEF LoopInv
  <2>3. n[o] \in Int /\ st_size[o] \in Nat
    BY DEF TypeOK
  <2> QED BY <1>1, <2>1, <2>2, <2>3
<1>8. ProbeInv(o)' /\ ReadInv(o)' /\ WriteInv(o)'
  BY <1>1, <1>2, <1>4, <1>7 DEF ProbeInv, ReadInv, WriteInv
<1>9. CallInv(o)'
  BY <1>6, <1>8 DEF CallInv
<1> QED BY <1>2, <1>4, <1>5, <1>9, FilesUnchanged, StepFrame

-----------------------------------------------------------------------------
(* writefile *)

\* The buffer of what is to be written: it is there, or the call ends.
LEMMA WritePrepareStep ==
  ASSUME TypeOK, NEW o \in Op, CallInv(o), WritePrepare(o)
  PROVE  Good(o)
<1>1. /\ call[o].fn = "writefile" /\ pc[o] = "prepare"
      /\ UNCHANGED <<fsVars, call, n, readVars, disturbed>>
  BY DEF WritePrepare, At
<1>2. ASSUME NEW r \in {"ok", "error"}, Return(o, r) PROVE Good(o)
  BY <1>1, <1>2, ReturnStep
<1>3. CASE Goto(o, "write")
  <2>1. /\ UNCHANGED <<dir, data, disk, disturbed>> /\ UNCHANGED readVars
        /\ UNCHANGED <<call, n, probe>>
    BY <1>1 DEF fsVars
  <2>2. pc'[o] = "write" /\ fd'[o] = fd[o] /\ res'[o] = res[o]
    BY <1>3 DEF Goto, TypeOK
  <2>3. RowChange(o)
    BY <1>3, <2>1, <2>2 DEF Goto, TypeOK, RowChange
  <2>4. StageInv(o)'
    BY <1>1, <2>1, <2>2 DEF CallInv, StageInv, StageOf
  <2>5. ProbeInv(o)' /\ ReadInv(o)'
    BY <2>2 DEF ProbeInv, ReadInv
  <2>6. WriteInv(o)'
    <3>1. Payload(o) \in Seq(Nat) /\ Payload(o)' = Payload(o)
      BY <1>1, <2>1, CallTypes DEF Payload
    <3>2. n'[o] = 0 /\ 0 \in 0..Len(Payload(o)) /\ SubSeq(Payload(o), 1, 0) = <<>>
      BY <1>1, <2>1, <3>1, SubSeqEmpty DEF CallInv, StageInv
    <3>3. ~disturbed'[o] => data'[fd'[o]] = <<>>
      BY <1>1, <2>1, <2>2 DEF CallInv, WriteInv
    <3> QED BY <2>2, <3>1, <3>2, <3>3 DEF WriteInv
  <2>7. CallInv(o)'
    BY <2>4, <2>5, <2>6 DEF CallInv
  <2> QED BY <2>1, <2>3, <2>7, ReadUnchanged, FilesUnchanged, StepFrame
<1> QED BY <1>2, <1>3 DEF WritePrepare

\* What a write adds to a file that holds the first k bytes of p.
LEMMA OverlayMore ==
  ASSUME NEW p \in Seq(Nat), NEW k \in Nat, NEW j \in Nat, k + j <= Len(p)
  PROVE  Overlay(SubSeq(p, 1, k), k, SubSeq(p, k + 1, k + j)) = SubSeq(p, 1, k + j)
<1> DEFINE a == SubSeq(p, 1, k)
           b == SubSeq(p, k + 1, k + j)
           c == SubSeq(p, 1, k + j)
<1>1. a \in Seq(Nat) /\ Len(a) = k /\ \A i \in 1..k : a[i] = p[i]
  OBVIOUS
<1>2. b \in Seq(Nat) /\ Len(b) = j /\ \A i \in 1..j : b[i] = p[k + i]
  OBVIOUS
<1>3. c \in Seq(Nat) /\ Len(c) = k + j /\ \A i \in 1..k + j : c[i] = p[i]
  BY SMTT(30)
<1> HIDE DEF a, b, c
<1>4. Overlay(a, k, b) = [i \in 1..k + j |-> IF i \in k + 1..k + j THEN b[i - k]
                                              ELSE IF i <= k THEN a[i] ELSE 0]
  <2>1. (IF Len(a) > k + Len(b) THEN Len(a) ELSE k + Len(b)) = k + j
    BY <1>1, <1>2
  <2> QED BY <1>1, <1>2, <2>1 DEF Overlay
<1>5. \A i \in 1..k + j : Overlay(a, k, b)[i] = p[i]
  BY <1>1, <1>2, <1>4
<1>6. Overlay(a, k, b) \in Seq(Nat) /\ Len(Overlay(a, k, b)) = k + j
  BY <1>1, <1>2, <1>4, SMTT(30)
<1> QED BY <1>3, <1>5, <1>6, SeqEqual DEF a, b, c

\* A write leaves bytes.
LEMMA OverlayType ==
  ASSUME NEW d \in Seq(Nat), NEW k \in Nat, NEW b \in Seq(Nat)
  PROVE  Overlay(d, k, b) \in Seq(Nat)
<1>1. Len(d) \in Nat /\ Len(b) \in Nat
  OBVIOUS
<1>2. ASSUME NEW i \in Nat, i >= 1
      PROVE  (IF i \in k + 1..k + Len(b) THEN b[i - k] ELSE IF i <= Len(d) THEN d[i] ELSE 0) \in Nat
  BY <1>1, <1>2
<1> QED BY <1>1, <1>2 DEF Overlay

\* One turn of the loop of writefile.
LEMMA WriteLoopStep ==
  ASSUME TypeOK, NEW o \in Op, CallInv(o), WriteLoop(o)
  PROVE  Good(o)
<1> DEFINE p == Payload(o)
           d == data[fd[o]]
<1>1. call[o].fn = "writefile" /\ pc[o] = "write" /\ n[o] < Len(p)
  BY DEF WriteLoop, At
<1>2. /\ call[o] # NoCall /\ p \in Seq(Nat) /\ Len(p) \in Nat /\ Direct(o) \in BOOLEAN
  BY <1>1, CallTypes
<1>3. /\ n[o] \in 0..Len(p) /\ StageInv(o)
      /\ ~disturbed[o] => d = SubSeq(p, 1, n[o])
  BY <1>1 DEF CallInv, WriteInv
<1>4. fd[o] \in 1..Len(data) /\ d \in Seq(Nat) /\ fd[o] # 0 /\ disturbed[o] \in BOOLEAN
  BY <1>1, <1>3 DEF StageInv, TypeOK, Inodes
<1>5. CASE Fails(o, "write")
  BY <1>1, <1>5, FailsStep
<1>6. CASE /\ Direct(o) /\ (Len(Payload(o)) - n[o]) % BlockSize # 0
           /\ Return(o, "EINVAL")
           /\ UNCHANGED <<fsVars, call, n, readVars, disturbed>>
  BY <1>1, <1>6, ReturnStep
<1>7. ASSUME NEW rv \in Writable(o),
             Modify(o, fd[o], Overlay(d, n[o], SubSeq(p, n[o] + 1, n[o] + rv))),
             CountWritten(o, rv), UNCHANGED <<dir, disk, probe, call, pc, fd, readVars, res>>
      PROVE  Good(o)
  <2> DEFINE k == n[o]
             b == SubSeq(p, k + 1, k + rv)
             e == Overlay(d, k, b)
  <2>1. rv \in Nat /\ k \in Nat /\ k + rv <= Len(p)
    <3>1. rv \in 1..(Len(p) - n[o])
      BY <1>2, <1>7 DEF Writable
    <3> HIDE DEF p
    <3> QED BY <1>1, <1>2, <1>3, <3>1
  <2>2. b \in Seq(Nat)
    <3> HIDE DEF p, k
    <3> QED BY <1>2, <2>1, ReadBytes
  <2>3. e \in Seq(Nat)
    <3> HIDE DEF d, k, b
    <3> QED BY <1>4, <2>1, <2>2, OverlayType
  <2>4. d = SubSeq(p, 1, k) => e = SubSeq(p, 1, k + rv)
    <3> HIDE DEF p, k, d
    <3> QED BY <1>2, <2>1, OverlayMore
  <2>5. Modify(o, fd[o], e)
    BY <1>7
  <2> HIDE DEF e
  <2>6. /\ data' \in Seq(Seq(Nat)) /\ Len(data') = Len(data) /\ data'[fd[o]] = e
        /\ disturbed' \in [Op -> BOOLEAN] /\ disturbed'[o] = disturbed[o]
        /\ \A q \in Op \ {o} :
             /\ disturbed'[q] = disturbed[q] \/ (disturbed'[q] = TRUE /\ fd[q] # 0)
             /\ disturbed'[q] \/ fd[q] = 0 \/ data'[fd[q]] = data[fd[q]]
    BY <1>4, <2>3, <2>5, ModifyFacts
  <2>7. /\ UNCHANGED <<dir, disk>> /\ UNCHANGED <<probe, call, pc, fd, res>> /\ UNCHANGED readVars
        /\ n' = [n EXCEPT ![o] = k + rv]
    BY <1>7 DEF CountWritten
  <2>8. FilesChange(o)
    <3>1. disk' \in Seq(Seq(Nat)) /\ Len(disk') = Len(data) /\ dir' \in [Names -> Inodes \cup {0}]
      BY <2>7 DEF TypeOK
    <3> QED BY <2>6, <3>1 DEF FilesChange
  <2>9. n'[o] = k + rv
    BY <2>7 DEF TypeOK
  <2>10. RowChange(o)
    BY <2>1, <2>7, <2>9 DEF TypeOK, RowChange
  <2>11. pc'[o] = "write"
    BY <1>1, <2>7
  <2>12. StageInv(o)'
    BY <1>1, <1>3, <2>7 DEF StageInv
  <2>13. WriteInv(o)'
    <3>1. Payload(o)' = p /\ fd'[o] = fd[o]
      BY <2>7 DEF Payload
    <3>2. k + rv \in 0..Len(p)
      BY <1>2, <2>1
    <3>3. ~disturbed'[o] => data'[fd[o]] = SubSeq(p, 1, k + rv)
      BY <1>3, <2>4, <2>6, Zenon
    <3> QED BY <2>9, <2>11, <3>1, <3>2, <3>3 DEF WriteInv
  <2>14. CallInv(o)'
    BY <2>11, <2>12, <2>13 DEF CallInv, ProbeInv, ReadInv
  <2> QED BY <2>7, <2>8, <2>10, <2>14, ReadUnchanged, StepFrame
<1> QED BY <1>5, <1>6, <1>7 DEF WriteLoop

\* fsync(), for writefile and for fsyncPath.
LEMMA SyncStep ==
  ASSUME TypeOK, NEW o \in Op, CallInv(o), Sync(o), pc[o] \in {"write", "fsync"},
         call[o].fn \in {"writefile", "fsyncPath"}
  PROVE  Good(o)
<1>1. CASE Fails(o, "fsync")
  BY <1>1, FailsStep
<1>2. CASE /\ disk' = [disk EXCEPT ![fd[o]] = data[fd[o]]]
           /\ Return(o, "ok")
           /\ UNCHANGED <<dir, data, probe, call, n, readVars, disturbed>>
  <2>1. StageInv(o)
    BY DEF CallInv
  <2>2. fd[o] \in 1..Len(disk) /\ data[fd[o]] \in Seq(Nat)
    BY <2>1 DEF StageInv, TypeOK, Inodes
  <2>3. disk' \in Seq(Seq(Nat)) /\ Len(disk') = Len(data)
    BY <1>2, <2>2 DEF TypeOK
  <2>4. FilesChange(o)
    BY <1>2, <2>3 DEF FilesChange, TypeOK
  <2>5. call[o] # NoCall /\ probe[o] # "made"
    BY <2>1 DEF StageInv
  <2>6. probe' = [probe EXCEPT ![o] = probe'[o]] /\ probe'[o] \in {"none", "made", "stuck"}
    BY <1>2 DEF TypeOK
  <2>7. RowChange(o) /\ pc'[o] = "returned" /\ fd'[o] = 0 /\ res'[o] = "ok"
    BY <1>2, <2>6, ReturnChange
  <2>8. CallInv(o)'
    BY <1>2, <2>5, <2>7, CallReturned
  <2> QED BY <1>2, <2>4, <2>7, <2>8, ReadUnchanged, StepFrame
<1> QED BY <1>1, <1>2 DEF Sync

-----------------------------------------------------------------------------
(* truncate, and the functions of one call on the names *)

\* ftruncate() changes the file, or the call ends.
LEMMA FtruncateStep ==
  ASSUME TypeOK, NEW o \in Op, CallInv(o), Ftruncate(o)
  PROVE  Good(o)
<1>1. call[o].fn = "truncate" /\ pc[o] = "ftruncate"
  BY DEF Ftruncate, At
<1>2. CASE Fails(o, "ftruncate")
  BY <1>1, <1>2, FailsStep
<1>3. CASE /\ Modify(o, fd[o], SetLength(data[fd[o]], call[o].size))
           /\ Return(o, "ok")
           /\ UNCHANGED <<dir, disk, probe, call, n, readVars>>
  <2> DEFINE d == data[fd[o]]
             e == SetLength(d, call[o].size)
  <2>1. StageInv(o) /\ call[o] # NoCall /\ call[o].size \in Nat
    BY <1>1, CallTypes DEF CallInv
  <2>2. fd[o] \in 1..Len(data) /\ d \in Seq(Nat) /\ probe[o] # "made"
    BY <1>1, <2>1 DEF StageInv, TypeOK, Inodes
  <2>3. e \in Seq(Nat)
    <3> HIDE DEF d
    <3> QED BY <2>1, <2>2, SMTT(30) DEF SetLength
  <2>4. Modify(o, fd[o], e)
    BY <1>3
  <2> HIDE DEF e
  <2>5. /\ data' \in Seq(Seq(Nat)) /\ Len(data') = Len(data)
        /\ disturbed' \in [Op -> BOOLEAN]
        /\ \A q \in Op \ {o} :
             /\ disturbed'[q] = disturbed[q] \/ (disturbed'[q] = TRUE /\ fd[q] # 0)
             /\ disturbed'[q] \/ fd[q] = 0 \/ data'[fd[q]] = data[fd[q]]
    BY <2>2, <2>3, <2>4, ModifyFacts
  <2>6. FilesChange(o)
    <3>1. disk' \in Seq(Seq(Nat)) /\ Len(disk') = Len(data) /\ dir' \in [Names -> Inodes \cup {0}]
      BY <1>3 DEF TypeOK
    <3> QED BY <2>5, <3>1 DEF FilesChange
  <2>7. probe' = [probe EXCEPT ![o] = probe'[o]] /\ probe'[o] \in {"none", "made", "stuck"}
    BY <1>3 DEF TypeOK
  <2>8. RowChange(o) /\ pc'[o] = "returned" /\ fd'[o] = 0 /\ res'[o] = "ok"
    BY <1>3, <2>7, ReturnChange
  <2>9. CallInv(o)'
    BY <1>1, <1>3, <2>1, <2>2, <2>8, CallReturned
  <2> QED BY <1>3, <2>6, <2>8, <2>9, ReadUnchanged, StepFrame
<1> QED BY <1>2, <1>3 DEF Ftruncate

\* A call on the names, whatever it makes of them.
LEMMA NameStep ==
  ASSUME TypeOK, NEW o \in Op, CallInv(o), pc[o] = "open",
         call[o].fn \in {"rename", "link", "unlink"}, NEW ok \in BOOLEAN, NEW d, NameCall(o, ok, d),
         ok => d \in [Names -> Inodes \cup {0}]
  PROVE  Good(o)
<1>1. PICK r \in {"ok", "error", "EIO"} : Return(o, r)
  BY DEF NameCall, Fails
<1>2. UNCHANGED <<data, disk, disturbed>> /\ UNCHANGED <<call, n, probe>> /\ UNCHANGED readVars
  BY DEF NameCall, Fails, fsVars
<1>3. dir' \in [Names -> Inodes \cup {0}]
  <2>1. dir \in [Names -> Inodes \cup {0}] /\ Inodes' = Inodes
    BY <1>2 DEF TypeOK, Inodes
  <2>2. dir' = dir \/ (ok /\ dir' = d)
    BY DEF NameCall, Fails, fsVars
  <2> QED BY <2>1, <2>2
<1>4. FilesChange(o)
  BY <1>2, <1>3 DEF FilesChange, TypeOK
<1>5. call[o] # NoCall /\ probe[o] # "made"
  BY DEF CallInv, StageInv
<1>6. probe' = [probe EXCEPT ![o] = probe'[o]] /\ probe'[o] \in {"none", "made", "stuck"}
  BY <1>2 DEF TypeOK
<1>7. RowChange(o) /\ pc'[o] = "returned" /\ fd'[o] = 0 /\ res'[o] = r
  BY <1>1, <1>2, <1>6, ReturnChange
<1>8. CallInv(o)'
  BY <1>2, <1>5, <1>7, CallReturned
<1> QED BY <1>2, <1>4, <1>7, <1>8, ReadUnchanged, StepFrame

\* rename(), link() and unlink() change the names alone.
LEMMA NamesStep ==
  ASSUME TypeOK, NEW o \in Op, CallInv(o), RenameCall(o) \/ LinkCall(o) \/ UnlinkCall(o)
  PROVE  Good(o)
<1>1. dir \in [Names -> Inodes \cup {0}]
  BY DEF TypeOK
<1> DEFINE old == call[o].path
           new == call[o].newpath
<1>2. CASE RenameCall(o)
  <2>1. call[o].fn = "rename" /\ pc[o] = "open"
    BY <1>2 DEF RenameCall, At
  <2>2. old \in Names /\ new \in Names
    BY <2>1, CallTypes
  <2> DEFINE d == IF dir[old] = dir[new] THEN dir ELSE [dir EXCEPT ![new] = dir[old], ![old] = 0]
  <2>3. d \in [Names -> Inodes \cup {0}]
    <3> HIDE DEF old, new
    <3> QED BY <1>1, <2>2
  <2>4. NameCall(o, dir[old] # 0, d)
    BY <1>2 DEF RenameCall
  <2> HIDE DEF d
  <2> QED BY <2>1, <2>3, <2>4, NameStep
<1>3. CASE LinkCall(o)
  <2>1. call[o].fn = "link" /\ pc[o] = "open"
    BY <1>3 DEF LinkCall, At
  <2>2. old \in Names /\ new \in Names
    BY <2>1, CallTypes
  <2> DEFINE d == [dir EXCEPT ![new] = dir[old]]
  <2>3. d \in [Names -> Inodes \cup {0}]
    <3> HIDE DEF old, new
    <3> QED BY <1>1, <2>2
  <2>4. NameCall(o, dir[old] # 0 /\ dir[new] = 0, d)
    BY <1>3 DEF LinkCall
  <2> HIDE DEF d
  <2> QED BY <2>1, <2>3, <2>4, NameStep
<1>4. CASE UnlinkCall(o)
  <2>1. call[o].fn = "unlink" /\ pc[o] = "open"
    BY <1>4 DEF UnlinkCall, At
  <2> DEFINE d == [dir EXCEPT ![old] = 0]
  <2>2. d \in [Names -> Inodes \cup {0}]
    BY <1>1
  <2>3. NameCall(o, dir[old] # 0, d)
    BY <1>4 DEF UnlinkCall
  <2> HIDE DEF d
  <2> QED BY <2>1, <2>2, <2>3, NameStep
<1> QED BY <1>2, <1>3, <1>4

-----------------------------------------------------------------------------
(* probe_block_size *)

\* A probe that goes on, with the size whose index is n.
LEMMA ProbeGoesOn ==
  ASSUME TypeOK, NEW o \in Op, CallInv(o), call[o].fn = "probe_block_size",
         pc[o] \in {"open", "memalign", "pwrite"}, NEW where \in {"memalign", "pwrite", "delete"},
         pc' = [pc EXCEPT ![o] = where], NEW k \in Int, n' = [n EXCEPT ![o] = k],
         UNCHANGED <<dir, data, disk, call, readVars, disturbed, res, fd>>,
         probe' = [probe EXCEPT ![o] = "made"], where = "memalign" => k = 0,
         where = "pwrite" => k \in 1..Len(Sizes) + 1 /\ Refused(o, k),
         where = "delete" => /\ k \in 0..Len(Sizes) + 1 /\ Refused(o, k)
                             /\ k \in 1..Len(Sizes) => Sizes[k] \in Takes(o)
  PROVE  Good(o)
<1>1. /\ UNCHANGED <<dir, data, disk, disturbed>> /\ UNCHANGED readVars
      /\ UNCHANGED <<call, res, fd>>
  OBVIOUS
<1>2. pc'[o] = where /\ n'[o] = k /\ probe'[o] = "made"
  BY DEF TypeOK
<1>3. RowChange(o)
  BY <1>1, <1>2 DEF RowChange, TypeOK
<1>4. StageInv(o)'
  BY <1>1, <1>2 DEF CallInv, StageInv, StageOf
<1>5. ProbeInv(o)' /\ ReadInv(o)' /\ WriteInv(o)'
  <2>1. Takes(o)' = Takes(o) /\ call'[o] = call[o]
    BY <1>1 DEF Takes
  <2> QED BY <1>2, <2>1 DEF ProbeInv, ReadInv, WriteInv, Refused
<1>6. CallInv(o)'
  BY <1>4, <1>5 DEF CallInv
<1> QED BY <1>1, <1>3, <1>6, ReadUnchanged, FilesUnchanged, StepFrame

\* The probe file is made and written to, one block size after the other.
LEMMA ProbeStep ==
  ASSUME TypeOK, NEW o \in Op, CallInv(o), CreateProbe(o) \/ ProbeBuffer(o) \/ ProbeWrite(o)
  PROVE  Good(o)
<1>1. Refused(o, 0) /\ Refused(o, 1) /\ Len(Sizes) \in Nat
  BY ConstantsAssumption DEF Refused
<1>2. StageInv(o) /\ ProbeInv(o) /\ n \in [Op -> Int] /\ pc \in [Op -> {"idle", "open", "fstat",
          "read", "prepare", "write", "ftruncate", "futimens", "fsync", "memalign", "pwrite",
          "delete", "returned"}] /\ probe \in [Op -> {"none", "made", "stuck"}]
  BY DEF CallInv, TypeOK
<1>3. CASE CreateProbe(o)
  <2>1. call[o].fn = "probe_block_size" /\ pc[o] = "open" /\ n[o] = 0
    BY <1>2, <1>3 DEF CreateProbe, At, StageInv
  <2>2. CASE Fails(o, "open")
    BY <2>1, <2>2, FailsStep
  <2>3. CASE /\ probe' = [probe EXCEPT ![o] = "made"]
             /\ Goto(o, "memalign")
             /\ UNCHANGED <<dir, data, disk, call, n, readVars, disturbed>>
    <3>1. pc' = [pc EXCEPT ![o] = "memalign"] /\ UNCHANGED <<res, fd>> /\ n' = [n EXCEPT ![o] = 0]
      BY <1>2, <2>1, <2>3 DEF Goto
    <3>2. "memalign" # "pwrite" /\ "memalign" # "delete" /\ 0 \in Int
      OBVIOUS
    <3>3. UNCHANGED <<dir, data, disk, call, readVars, disturbed, res, fd>>
      BY <2>3, <3>1
    <3> QED BY <1>1, <2>1, <2>3, <3>1, <3>2, <3>3, ProbeGoesOn
  <2>4. CASE /\ Takes(o) = {}
             /\ Return(o, "EINVAL")
             /\ UNCHANGED <<fsVars, call, n, readVars, disturbed>>
    BY <2>1, <2>4, ReturnStep
  <2> QED BY <1>3, <2>2, <2>3, <2>4 DEF CreateProbe
<1>4. CASE ProbeBuffer(o)
  <2>1. /\ call[o].fn = "probe_block_size" /\ pc[o] = "memalign" /\ n[o] = 0
        /\ UNCHANGED <<fsVars, call, readVars, disturbed>>
    BY <1>2, <1>4 DEF ProbeBuffer, At, StageInv
  <2>2. probe' = [probe EXCEPT ![o] = "made"]
    BY <1>2, <2>1 DEF fsVars, StageInv
  <2>3. ASSUME n' = [n EXCEPT ![o] = 1], Goto(o, "pwrite") PROVE Good(o)
    <3>1. UNCHANGED <<dir, data, disk, call, readVars, disturbed, res, fd>>
      BY <2>1, <2>3 DEF fsVars, Goto
    <3>2. 1 \in 1..Len(Sizes) + 1 /\ "pwrite" # "memalign" /\ "pwrite" # "delete" /\ 1 \in Int
      BY <1>1
    <3> QED BY <1>1, <2>1, <2>2, <2>3, <3>1, <3>2, ProbeGoesOn DEF Goto
  <2>4. ASSUME Goto(o, "delete"), UNCHANGED n PROVE Good(o)
    <3>1. UNCHANGED <<dir, data, disk, call, readVars, disturbed, res, fd>>
      BY <2>1, <2>4 DEF fsVars, Goto
    <3>2. /\ 0 \in 0..Len(Sizes) + 1 /\ "delete" # "memalign" /\ "delete" # "pwrite" /\ 0 \in Int
          /\ ~(0 \in 1..Len(Sizes)) /\ n' = [n EXCEPT ![o] = 0]
      BY <1>1, <1>2, <2>1, <2>4
    <3> QED BY <1>1, <2>1, <2>2, <2>4, <3>1, <3>2, ProbeGoesOn DEF Goto
  <2> QED BY <1>4, <2>3, <2>4 DEF ProbeBuffer
<1>5. CASE ProbeWrite(o)
  <2>1. /\ call[o].fn = "probe_block_size" /\ pc[o] = "pwrite"
        /\ n[o] \in 1..Len(Sizes) + 1 /\ Refused(o, n[o])
        /\ UNCHANGED <<fsVars, call, readVars, disturbed>>
    BY <1>2, <1>5 DEF ProbeWrite, At, ProbeInv
  <2>2. probe' = [probe EXCEPT ![o] = "made"]
    BY <1>2, <2>1 DEF fsVars, StageInv
  <2>3. ASSUME Goto(o, "delete"), UNCHANGED n, n[o] \in 1..Len(Sizes) => Sizes[n[o]] \in Takes(o)
        PROVE  Good(o)
    <3>1. UNCHANGED <<dir, data, disk, call, readVars, disturbed, res, fd>>
      BY <2>1, <2>3 DEF fsVars, Goto
    <3>2. /\ n[o] \in 0..Len(Sizes) + 1 /\ n' = [n EXCEPT ![o] = n[o]] /\ n[o] \in Int
          /\ "delete" # "memalign" /\ "delete" # "pwrite"
      BY <1>1, <1>2, <2>1, <2>3
    <3> QED BY <2>1, <2>2, <2>3, <3>1, <3>2, ProbeGoesOn DEF Goto
  <2>4. ASSUME n' = [n EXCEPT ![o] = 0], Goto(o, "delete") PROVE Good(o)
    <3>1. UNCHANGED <<dir, data, disk, call, readVars, disturbed, res, fd>>
      BY <2>1, <2>4 DEF fsVars, Goto
    <3>2. /\ 0 \in 0..Len(Sizes) + 1 /\ "delete" # "memalign" /\ "delete" # "pwrite" /\ 0 \in Int
          /\ ~(0 \in 1..Len(Sizes))
      BY <1>1
    <3> QED BY <1>1, <2>1, <2>2, <2>4, <3>1, <3>2, ProbeGoesOn DEF Goto
  <2>5. ASSUME n[o] <= Len(Sizes), Sizes[n[o]] \notin Takes(o),
               n' = [n EXCEPT ![o] = @ + 1], UNCHANGED <<pc, res, fd>>
        PROVE  Good(o)
    <3> DEFINE k == n[o] + 1
    <3>1. UNCHANGED <<dir, data, disk, call, readVars, disturbed, res, fd>>
      BY <2>1, <2>5 DEF fsVars
    <3>2. k \in 1..Len(Sizes) + 1 /\ k \in Int
      BY <1>1, <2>1, <2>5
    <3>3. Refused(o, k)
      BY <1>1, <2>1, <2>5 DEF Refused
    <3>4. pc' = [pc EXCEPT ![o] = "pwrite"] /\ n' = [n EXCEPT ![o] = k]
      BY <1>2, <2>1, <2>5
    <3>5. "pwrite" # "memalign" /\ "pwrite" # "delete"
      OBVIOUS
    <3> HIDE DEF k
    <3> QED BY <2>1, <2>2, <3>1, <3>2, <3>3, <3>4, <3>5, ProbeGoesOn
  <2>6. n[o] > Len(Sizes) => ~(n[o] \in 1..Len(Sizes))
    BY <1>1, <2>1
  <2> QED BY <1>5, <2>3, <2>4, <2>5, <2>6 DEF ProbeWrite, ProbeError
<1> QED BY <1>3, <1>4, <1>5

\* Whatever the probe found, its file is deleted and its result is what the sizes say.
LEMMA DeleteProbeStep ==
  ASSUME TypeOK, NEW o \in Op, CallInv(o), DeleteProbe(o)
  PROVE  Good(o)
<1>1. /\ call[o].fn = "probe_block_size" /\ pc[o] = "delete" /\ Return(o, ProbeResult(o))
      /\ UNCHANGED <<dir, data, disk, call, n, readVars, disturbed>>
  BY DEF DeleteProbe, At
<1>2. PICK p \in {"none", "stuck"} : probe' = [probe EXCEPT ![o] = p]
  BY DEF DeleteProbe
<1>3. probe'[o] = p /\ probe' = [probe EXCEPT ![o] = probe'[o]] /\ probe'[o] # "made"
  BY <1>2 DEF TypeOK
<1>4. /\ n[o] \in 0..Len(Sizes) + 1 /\ Refused(o, n[o]) /\ StageInv(o)
      /\ n[o] \in 1..Len(Sizes) => Sizes[n[o]] \in Takes(o)
  BY <1>1 DEF CallInv, ProbeInv
<1>5. Len(Sizes) \in Nat /\ Sizes \in Seq(Nat) /\ Takes(o) \subseteq Range(Sizes)
  BY <1>1, ConstantsAssumption, CallsAssumption, CallTypes DEF Takes
<1>6. ProbeResult(o) \in {"ok", "error", "EINVAL"}
  BY DEF ProbeResult
<1>7. RowChange(o) /\ pc'[o] = "returned" /\ fd'[o] = 0 /\ res'[o] = ProbeResult(o)
  <2>1. probe'[o] \in {"none", "made", "stuck"}
    BY <1>3
  <2> QED BY <1>1, <1>3, <1>6, <2>1, ReturnChange
<1>8. ProbeResult(o) = "ok" => n[o] \in 1..Len(Sizes)
  BY <1>4, <1>5 DEF ProbeResult
<1>9. ProbeResult(o) = "EINVAL" => Takes(o) = {}
  <2>1. SUFFICES ASSUME n[o] > Len(Sizes), NEW x \in Takes(o) PROVE FALSE
    BY DEF ProbeResult
  <2>2. PICK i \in 1..Len(Sizes) : x = Sizes[i]
    BY <1>5 DEF Range
  <2>3. i \in 1..n[o] - 1
    BY <1>4, <1>5, <2>1
  <2> QED BY <1>4, <2>2, <2>3 DEF Refused
<1>10. StageInv(o)'
  BY <1>1, <1>3, <1>4, <1>6, <1>7 DEF StageInv
<1>11. ProbeInv(o)'
  <2>1. Takes(o)' = Takes(o) /\ n'[o] = n[o]
    BY <1>1 DEF Takes
  <2> QED BY <1>1, <1>4, <1>7, <1>8, <1>9, <2>1 DEF ProbeInv, Refused
<1>12. ReadInv(o)' /\ WriteInv(o)'
  BY <1>1, <1>7 DEF ReadInv, WriteInv
<1>13. CallInv(o)'
  BY <1>10, <1>11, <1>12 DEF CallInv
<1> QED BY <1>1, <1>7, <1>13, ReadUnchanged, FilesUnchanged, StepFrame

-----------------------------------------------------------------------------
(* All steps *)

\* Each step of a call keeps what is known of all of them.
LEMMA EveryStep ==
  ASSUME TypeOK, NEW o \in Op, CallInv(o), Start(o) \/ Step(o)
  PROVE  Good(o)
<1>1. CASE ReadOpen(o) \/ WriteOpen(o) \/ TruncateOpen(o) \/ TouchOpen(o) \/ FsyncOpen(o)
  <2>1. CASE ReadOpen(o)
    BY <2>1, OpenStep DEF ReadOpen, At, StageOf
  <2>2. CASE WriteOpen(o)
    <3>1. "trunc" \in {"creat", "trunc"}
      OBVIOUS
    <3> QED BY <2>2, <3>1, OpenStep DEF WriteOpen, At, StageOf
  <2>3. CASE TruncateOpen(o)
    BY <2>3, OpenStep DEF TruncateOpen, At, StageOf
  <2>4. CASE TouchOpen(o)
    BY <2>4, OpenStep DEF TouchOpen, At, StageOf
  <2>5. CASE FsyncOpen(o)
    BY <2>5, OpenStep DEF FsyncOpen, At, StageOf
  <2> QED BY <1>1, <2>1, <2>2, <2>3, <2>4, <2>5
<1>2. CASE WriteSync(o) \/ FsyncPath(o)
  BY <1>2, SyncStep DEF WriteSync, FsyncPath, At
<1>3. CASE Futimens(o)
  <2>1. call[o].fn = "touch" /\ pc[o] = "futimens"
    BY <1>3 DEF Futimens, At
  <2>2. CASE Fails(o, "futimens")
    BY <2>1, <2>2, FailsStep
  <2>3. CASE Return(o, "ok") /\ UNCHANGED <<fsVars, call, n, readVars, disturbed>>
    BY <2>1, <2>3, ReturnStep
  <2> QED BY <1>3, <2>2, <2>3 DEF Futimens
<1>4. CASE Start(o)
  BY <1>4, StartStep
<1>5. CASE ReadStat(o) \/ ReadLoop(o) \/ ReadEnd(o)
  BY <1>5, ReadStatStep, ReadLoopStep, ReadEndStep
<1>6. CASE WritePrepare(o) \/ WriteLoop(o) \/ Ftruncate(o)
  BY <1>6, WritePrepareStep, WriteLoopStep, FtruncateStep
<1>7. CASE RenameCall(o) \/ LinkCall(o) \/ UnlinkCall(o)
  BY <1>7, NamesStep
<1>8. CASE CreateProbe(o) \/ ProbeBuffer(o) \/ ProbeWrite(o) \/ DeleteProbe(o)
  BY <1>8, ProbeStep, DeleteProbeStep
<1> QED BY <1>1, <1>2, <1>3, <1>4, <1>5, <1>6, <1>7, <1>8 DEF Step

-----------------------------------------------------------------------------
(* The theorems *)

\* The inductive invariant holds at the start: no call is served, and every file is on disk.
LEMMA FileInit == Init => FileInv
<1> SUFFICES ASSUME Init PROVE FileInv
  OBVIOUS
<1>1. data \in Seq(Seq(Nat)) /\ dir \in [Names -> Inodes \cup {0}]
  <2>1. PICK p \in Names, c \in Contents :
          \/ dir = [q \in Names |-> IF q = p THEN 1 ELSE 0] /\ data = <<c>>
          \/ dir = [q \in Names |-> 0] /\ data = <<>>
    BY DEF Init
  <2>2. c \in Seq(Nat)
    BY ConstantsAssumption
  <2>3. CASE dir = [q \in Names |-> IF q = p THEN 1 ELSE 0] /\ data = <<c>>
    <3>1. <<c>> \in Seq(Seq(Nat)) /\ DOMAIN <<c>> = 1..1
      BY <2>2
    <3> QED BY <2>3, <3>1 DEF Inodes
  <2>4. CASE dir = [q \in Names |-> 0] /\ data = <<>>
    BY <2>4 DEF Inodes
  <2> QED BY <2>1, <2>3, <2>4
<1>2. WellFormed(<<>>)
  BY DEF WellFormed
<1>3. TypeOK
  BY <1>1, <1>2 DEF Init, TypeOK
<1>4. ASSUME NEW o \in Op PROVE CallInv(o)
  BY DEF Init, CallInv, StageInv, ProbeInv, ReadInv, WriteInv
<1> QED BY <1>3, <1>4 DEF FileInv

\* Every step keeps it.
LEMMA FileStep == FileInv /\ [Next]_vars => FileInv'
<1> SUFFICES ASSUME FileInv, [Next]_vars PROVE FileInv'
  OBVIOUS
<1>1. TypeOK /\ \A o \in Op : CallInv(o)
  BY DEF FileInv
<1>2. ASSUME NEW o \in Op, Start(o) \/ Step(o) PROVE FileInv'
  <2>1. Good(o)
    BY <1>1, <1>2, EveryStep
  <2>2. TypeOK' /\ CallInv(o)' /\ \A q \in Op \ {o} : RowKept(q)
    BY <2>1 DEF Good
  <2>3. ASSUME NEW q \in Op PROVE CallInv(q)'
    BY <1>1, <2>2, CallKept
  <2> QED BY <2>2, <2>3 DEF FileInv
<1>3. CASE UNCHANGED vars
  <2>1. TypeOK'
    BY <1>1, <1>3 DEF vars, TypeOK, Inodes
  <2>2. ASSUME NEW q \in Op PROVE CallInv(q)'
    <3>1. RowKept(q)
      BY <1>3 DEF vars, RowKept
    <3> QED BY <1>1, <3>1, CallKept
  <2> QED BY <2>1, <2>2 DEF FileInv
<1> QED BY <1>2, <1>3 DEF Next, Quiet

\* The state of every call agrees with the stage it has reached, whatever the others do to the
\* files under it.
THEOREM FileInvariance == Spec => []FileInv
BY FileInit, FileStep, PTL DEF Spec

\* What readfile returns is at least as long as the file was at fstat() and less than a block
\* longer, unless total_rd can wrap, and it fails with EINVAL only over a file that was changed
\* or that an int cannot count.
THEOREM ReadWithinBounds == Spec => []ReadBounded
<1>1. FileInv => ReadBounded
  <2> SUFFICES ASSUME FileInv PROVE ReadBounded
    OBVIOUS
  <2>1. TypeOK /\ \A o \in Op : CallInv(o)
    BY DEF FileInv
  <2>2. ASSUME NEW o \in Op, res[o] # "none" PROVE pc[o] = "returned"
    BY <2>1, <2>2 DEF CallInv, StageInv
  <2>3. ASSUME NEW o \in Op, call[o].fn = "readfile", res[o] = "ok"
        PROVE  /\ WellFormed(b64str[o])
               /\ Len(Decode(b64str[o])) >= st_size[o]
               /\ st_size[o] + BlockSize <= IntMax + 1 =>
                    Len(Decode(b64str[o])) < st_size[o] + BlockSize
    <3>1. pc[o] = "returned" /\ ReadInv(o)
      BY <2>1, <2>2, <2>3 DEF CallInv
    <3> QED BY <2>1, <2>3, <3>1 DEF ReadInv, TypeOK
  <2>4. ASSUME NEW o \in Op, call[o].fn = "readfile", res[o] = "EINVAL"
        PROVE  disturbed[o] \/ st_size[o] > IntMax
    BY <2>1, <2>2, <2>4 DEF CallInv, ReadInv
  <2> QED BY <2>3, <2>4 DEF ReadBounded
<1> QED BY <1>1, FileInvariance, PTL

\* A block size is reported only if the file system takes it and refuses all smaller ones.
THEOREM ProbeIsHonest == Spec => []ProbeHonest
<1>1. FileInv => ProbeHonest
  BY DEF FileInv, CallInv, StageInv, ProbeInv, ProbeHonest, Refused
<1> QED BY <1>1, FileInvariance, PTL

\* No call leaves a probe file behind, unless unlink() failed.
THEOREM NoCallLeavesAnything == Spec => []NothingLeft
<1>1. FileInv => NothingLeft
  BY DEF FileInv, CallInv, StageInv, NothingLeft
<1> QED BY <1>1, FileInvariance, PTL

\* The step in which a call leaves a loop successfully is its own last step.
LEMMA LastStep ==
  ASSUME FileInv, [Next]_vars, NEW o \in Op, res[o] = "none", res'[o] = "ok"
  PROVE  /\ At(o, "readfile", "read") => ReadEnd(o)
         /\ At(o, "writefile", "write") =>
              /\ n[o] = Len(Payload(o))
              /\ disk' = [disk EXCEPT ![fd[o]] = data[fd[o]]] /\ UNCHANGED data
<1>1. TypeOK /\ \A q \in Op : CallInv(q)
  BY DEF FileInv
<1>2. Start(o) \/ Step(o)
  <2>1. ASSUME NEW q \in Op, q # o, Start(q) \/ Step(q) PROVE FALSE
    <3>1. RowKept(o)
      BY <1>1, <2>1, EveryStep DEF Good
    <3> QED BY <3>1 DEF RowKept
  <2>2. ~UNCHANGED vars
    BY DEF vars
  <2> QED BY <2>1, <2>2 DEF Next, Quiet
<1>3. ASSUME NEW r, Return(o, r) PROVE r = "ok"
  BY <1>1, <1>3 DEF Return, TypeOK
<1>4. ASSUME At(o, "readfile", "read") PROVE ReadEnd(o)
  <2>1. ~ReadLoop(o)
    <3>1. SUFFICES ASSUME ReadLoop(o) PROVE FALSE
      OBVIOUS
    <3>2. ~UNCHANGED res
      OBVIOUS
    <3> QED BY <1>3, <3>1, <3>2 DEF ReadLoop, Fails
  <2> QED BY <1>2, <1>4, <2>1
      DEF Step, At, Start, ReadOpen, ReadStat, WriteOpen, WritePrepare, WriteLoop, WriteSync,
          TruncateOpen, Ftruncate, TouchOpen, Futimens, FsyncOpen, FsyncPath, RenameCall,
          LinkCall, UnlinkCall, CreateProbe, ProbeBuffer, ProbeWrite, DeleteProbe
<1>5. ASSUME At(o, "writefile", "write")
      PROVE  /\ n[o] = Len(Payload(o))
             /\ disk' = [disk EXCEPT ![fd[o]] = data[fd[o]]] /\ UNCHANGED data
  <2>1. ~WriteLoop(o)
    <3>1. SUFFICES ASSUME WriteLoop(o) PROVE FALSE
      OBVIOUS
    <3>2. ~UNCHANGED res
      OBVIOUS
    <3> QED BY <1>3, <3>1, <3>2 DEF WriteLoop, Fails
  <2>2. WriteSync(o)
    BY <1>2, <1>5, <2>1
      DEF Step, At, Start, ReadOpen, ReadStat, ReadLoop, ReadEnd, WriteOpen, WritePrepare,
          TruncateOpen, Ftruncate, TouchOpen, Futimens, FsyncOpen, FsyncPath, RenameCall,
          LinkCall, UnlinkCall, CreateProbe, ProbeBuffer, ProbeWrite, DeleteProbe
  <2> QED BY <1>3, <2>2 DEF WriteSync, Sync, Fails
<1> QED BY <1>4, <1>5

\* readfile returns the bytes of the file it opened, complete and in order, unless another
\* thread changed that file; what happened to the name makes no difference.
THEOREM ReadsSnapshot == Spec => ReadIsSnapshot
<1>1. FileInv /\ [Next]_vars =>
        [\A o \in Op : At(o, "readfile", "read") /\ Succeeds(o, "read") /\ ~disturbed[o] =>
           Decode(b64str'[o]) = data[fd[o]]]_vars
  <2> SUFFICES ASSUME FileInv, [Next]_vars, NEW o \in Op, At(o, "readfile", "read"),
                      Succeeds(o, "read"), ~disturbed[o]
               PROVE  Decode(b64str'[o]) = data[fd[o]]
    OBVIOUS
  <2>1. TypeOK /\ CallInv(o)
    BY DEF FileInv
  <2>2. ReadEnd(o)
    BY LastStep DEF Succeeds
  <2>3. /\ Decode(b64str'[o]) = ReadSoFar(o) /\ Offset(o) \in Nat
        /\ st_size[o] <= n[o] /\ n[o] <= Offset(o) /\ LoopInv(o) /\ pc[o] = "read"
    BY <2>1, <2>2, ReadEndFacts
  <2> DEFINE d == data[fd[o]]
  <2>4. /\ st_size[o] = Len(d) /\ ReadSoFar(o) = SubSeq(d, 1, Offset(o))
        /\ Offset(o) <= st_size[o]
    BY <2>3 DEF LoopInv
  <2>5. d \in Seq(Nat) /\ st_size[o] \in Nat /\ n[o] \in Int
    BY <2>1, <2>3 DEF TypeOK, Inodes, CallInv, StageInv
  <2> HIDE DEF d
  <2>6. Offset(o) = Len(d)
    BY <2>3, <2>4, <2>5
  <2>7. SubSeq(d, 1, Len(d)) = d
    BY <2>5, SubSeqFull
  <2> QED BY <2>3, <2>4, <2>6, <2>7 DEF d
<1> QED BY <1>1, FileInvariance, PTL DEF Spec, ReadIsSnapshot

\* When writefile succeeds after its loop, the file it opened holds all the data, in memory and
\* on disk, unless another thread changed that file.
THEOREM WritesCompletely == Spec => WriteComplete
<1>1. FileInv /\ [Next]_vars =>
        [\A o \in Op : At(o, "writefile", "write") /\ Succeeds(o, "write") /\ ~disturbed[o] =>
           data'[fd[o]] = Payload(o) /\ disk'[fd[o]] = Payload(o)]_vars
  <2> SUFFICES ASSUME FileInv, [Next]_vars, NEW o \in Op, At(o, "writefile", "write"),
                      Succeeds(o, "write"), ~disturbed[o]
               PROVE  data'[fd[o]] = Payload(o) /\ disk'[fd[o]] = Payload(o)
    OBVIOUS
  <2>1. TypeOK /\ CallInv(o) /\ call[o].fn = "writefile" /\ pc[o] = "write"
    BY DEF FileInv, At
  <2>2. /\ n[o] = Len(Payload(o))
        /\ disk' = [disk EXCEPT ![fd[o]] = data[fd[o]]] /\ UNCHANGED data
    BY LastStep DEF Succeeds
  <2>3. Payload(o) \in Seq(Nat)
    BY <2>1, CallTypes
  <2>4. data[fd[o]] = SubSeq(Payload(o), 1, n[o])
    BY <2>1 DEF CallInv, WriteInv
  <2>5. SubSeq(Payload(o), 1, Len(Payload(o))) = Payload(o)
    BY <2>3, SubSeqFull
  <2>6. fd[o] \in DOMAIN disk
    BY <2>1 DEF CallInv, StageInv, TypeOK, Inodes
  <2> QED BY <2>2, <2>4, <2>5, <2>6
<1> QED BY <1>1, FileInvariance, PTL DEF Spec, WriteComplete
=============================================================================
