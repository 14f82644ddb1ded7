----------------------------- MODULE MainProofs -----------------------------
(***************************************************************************)
(* Theorems about what main() does around communicate(). Of the start of   *)
(* the process, for every number of inherited descriptors, every size of   *)
(* the pieces in which a directory is read and every width of a gint. Of   *)
(* logging, for every set of messages, every number of them and of         *)
(* children, and every size of a read.                                     *)
(***************************************************************************)
EXTENDS Startup, Logging, StreamLemmas, FiniteSetTheorems

-----------------------------------------------------------------------------
(* Smallest and largest descriptors *)

\* Min and Max of a set of descriptors are the elements they are called after.
LEMMA MinMax ==
  ASSUME NEW n \in Nat, NEW S, S \subseteq 0..n, S # {}
  PROVE  /\ Min(S) \in S /\ \A y \in S : Min(S) <= y
         /\ Max(S) \in S /\ \A y \in S : y <= Max(S)
<1>1. \E x \in S : \A y \in S : x <= y
  <2>1. S \subseteq Nat
    OBVIOUS
  <2> QED BY <2>1, NatMin
<1>2. \E x \in S : \A y \in S : x >= y
  <2> DEFINE T == {n - s : s \in S}
  <2>1. \A s \in S : s \in Int /\ s <= n
    OBVIOUS
  <2>2. T \subseteq Nat
    BY <2>1
  <2>3. T # {}
    OBVIOUS
  <2>4. PICK t \in T : \A u \in T : t <= u
    <3> HIDE DEF T
    <3> QED BY <2>2, <2>3, NatMin
  <2>5. PICK x \in S : t = n - x
    OBVIOUS
  <2>6. \A y \in S : n - x <= n - y
    BY <2>4, <2>5
  <2> QED BY <2>1, <2>6
<1>3. Min(S) \in S /\ \A y \in S : Min(S) <= y
  BY <1>1 DEF Min
<1>4. Max(S) \in S /\ \A y \in S : Max(S) >= y
  BY <1>2 DEF Max
<1>5. \A y \in S : Max(S) >= y => y <= Max(S)
  BY <1>4
<1> QED BY <1>3, <1>4, <1>5

\* The entries a batch takes are the lowest ones: it is not empty, and what is below its
\* largest is in it.
LEMMA LowestEntries ==
  ASSUME NEW n \in Nat, NEW U, U \subseteq 0..n, U # {}, NEW b \in Nat, b > 0
  PROVE  LET B == {f \in U : Cardinality({g \in U : g < f}) < b}
         IN  /\ B # {} /\ B \subseteq U
             /\ \A f \in U : f <= Max(B) => f \in B
<1> DEFINE Below(f) == {g \in U : g < f}
           B == {f \in U : Cardinality(Below(f)) < b}
<1>1. IsFiniteSet(U)
  <2>1. IsFiniteSet(0..n)
    BY FS_Interval
  <2> QED BY <2>1, FS_Subset
<1>2. B # {}
  <2>1. PICK m \in U : \A y \in U : m <= y
    BY MinMax
  <2>2. \A y \in U : y \in Int
    OBVIOUS
  <2>3. \A y \in U : ~(y < m)
    BY <2>1, <2>2
  <2>4. Below(m) = {}
    BY <2>3
  <2> QED BY <2>4, FS_EmptySet
<1>3. Max(B) \in B
  <2>1. B \subseteq 0..n
    OBVIOUS
  <2> HIDE DEF B
  <2> QED BY <1>2, <2>1, MinMax
<1>4. ASSUME NEW f \in U, f <= Max(B) PROVE f \in B
  <2>1. Below(f) \subseteq Below(Max(B))
    <3> DEFINE m == Max(B)
    <3>1. m \in U /\ f <= m
      BY <1>3, <1>4
    <3> HIDE DEF m
    <3>2. m \in Int /\ f \in Int /\ \A y \in U : y \in Int
      BY <3>1
    <3>3. \A y \in U : y < f => y < m
      BY <3>1, <3>2
    <3>4. Below(f) \subseteq Below(m)
      BY <3>3
    <3> QED BY <3>4 DEF m
  <2>2. IsFiniteSet(Below(Max(B))) /\ Cardinality(Below(f)) <= Cardinality(Below(Max(B)))
    <3>1. IsFiniteSet(Below(Max(B)))
      BY <1>1, FS_Subset
    <3> QED BY <2>1, <3>1, FS_Subset
  <2>3. Cardinality(Below(f)) \in Nat /\ Cardinality(Below(Max(B))) \in Nat
    <3>1. IsFiniteSet(Below(f)) /\ IsFiniteSet(Below(Max(B)))
      BY <1>1, FS_Subset
    <3> QED BY <3>1, FS_CardinalityType
  <2>4. Cardinality(Below(Max(B))) < b
    BY <1>3
  <2> QED BY <2>2, <2>3, <2>4
<1> QED BY <1>2, <1>4

-----------------------------------------------------------------------------
(* Arithmetic of a gint *)

\* The remainder of a number that is at most one width away from its range.
LEMMA Remainder ==
  ASSUME NEW k \in Nat, k > 0, NEW y \in Int
  PROVE  /\ 0 <= y /\ y < k => y % k = y
         /\ k <= y /\ y < 2 * k => y % k = y - k
<1>1. 0 <= y /\ y < k => y % k = y
  OBVIOUS
<1>2. k <= y /\ y < 2 * k => y % k = y - k
  OBVIOUS
<1> QED BY <1>1, <1>2

\* A gint holds a number that fits and wraps around a sum of two that do not.
LEMMA Wraps ==
  ASSUME NEW x \in Int
  PROVE  /\ -(MaxInt + 1) <= x /\ x <= MaxInt => gint(x) = x
         /\ MaxInt < x /\ x <= 3 * MaxInt + 2 => gint(x) = x - 2 * (MaxInt + 1)
<1>1. MaxInt \in Nat
  BY StartAssumption
<1> DEFINE k == 2 * (MaxInt + 1)
           y == x + MaxInt + 1
<1>2. k \in Nat /\ k > 0 /\ y \in Int /\ gint(x) = (y % k) - MaxInt - 1
  BY <1>1 DEF gint
<1>3. ASSUME -(MaxInt + 1) <= x, x <= MaxInt PROVE gint(x) = x
  <2>1. 0 <= y /\ y < k
    BY <1>1, <1>3
  <2>2. y % k = y
    <3> HIDE DEF y, k
    <3> QED BY <1>2, <2>1, Remainder
  <2> QED BY <1>1, <1>2, <2>2
<1>4. ASSUME MaxInt < x, x <= 3 * MaxInt + 2 PROVE gint(x) = x - 2 * (MaxInt + 1)
  <2>1. k <= y /\ y < 2 * k
    BY <1>1, <1>4
  <2>2. y % k = y - k
    <3> HIDE DEF y, k
    <3> QED BY <1>2, <2>1, Remainder
  <2> QED BY <1>1, <1>2, <2>2
<1> QED BY <1>3, <1>4

\* The counter counts down modulo its width from a sum s of two options, and its successor
\* is zero exactly for the last slot.
LEMMA CountsDown ==
  ASSUME NEW x \in Int, 1 <= x, x <= 2 * MaxInt + 1
  PROVE  /\ gint(x) \in -(MaxInt + 1)..MaxInt
         /\ gint(gint(x) - 1) = gint(x - 1)
         /\ gint(gint(x) - 1) = 0 <=> x = 1
         /\ gint(gint(x - 1) + 1) = gint(x)
<1>1. MaxInt \in Nat
  BY StartAssumption
<1>2. CASE x <= MaxInt
  <2>1. gint(x) = x /\ gint(x - 1) = x - 1
    BY <1>1, <1>2, Wraps
  <2> QED BY <1>1, <1>2, <2>1
<1>3. CASE x = MaxInt + 1
  <2>1. gint(x) = -(MaxInt + 1) /\ gint(x - 1) = MaxInt
    BY <1>1, <1>3, Wraps
  <2>2. gint(-(MaxInt + 1) - 1) = MaxInt
    <3>1. ((-(MaxInt + 1) - 1) + MaxInt + 1) % (2 * (MaxInt + 1)) = 2 * (MaxInt + 1) - 1
      <4>1. (-(MaxInt + 1) - 1) + MaxInt + 1 = -1
        BY <1>1
      <4>2. (-1) % (2 * (MaxInt + 1)) = 2 * (MaxInt + 1) - 1
        BY <1>1
      <4> QED BY <4>1, <4>2
    <3> QED BY <1>1, <3>1 DEF gint
  <2>3. gint(MaxInt + 1) = -(MaxInt + 1)
    BY <1>1, Wraps
  <2> QED BY <1>1, <1>3, <2>1, <2>2, <2>3
<1>4. CASE x > MaxInt + 1
  <2>1. gint(x) = x - 2 * (MaxInt + 1) /\ gint(x - 1) = x - 1 - 2 * (MaxInt + 1)
    BY <1>1, <1>4, Wraps
  <2>2. /\ gint(x - 2 * (MaxInt + 1) - 1) = x - 2 * (MaxInt + 1) - 1
        /\ gint((x - 1 - 2 * (MaxInt + 1)) + 1) = x - 2 * (MaxInt + 1)
    BY <1>1, <1>4, Wraps
  <2> QED BY <1>1, <1>4, <2>1, <2>2
<1> QED BY <1>1, <1>2, <1>3, <1>4

-----------------------------------------------------------------------------
(* The invariant *)

\* The types of the options.
LEMMA OptionTypes ==
  ASSUME opts \in Options
  PROVE  /\ opts.readPipe \in -1..MaxFd /\ opts.writePipe \in -1..MaxFd
         /\ opts.maxThreads \in -1..MaxInt /\ opts.maxQueued \in -1..MaxInt
         /\ opts.keepFds \in BOOLEAN
BY StartAssumption DEF Options

\* The invariant holds when main() is entered.
LEMMA InitStart == StartInit => StartInv
<1> SUFFICES ASSUME StartInit PROVE StartInv
  OBVIOUS
<1>1. opts \in Options
  BY DEF StartInit
<1>2. inherited \subseteq Fds
  <2>1. PICK rest \in SUBSET Fds :
          inherited = (rest \cup {2, opts.readPipe, opts.writePipe}) \ {-1}
    BY DEF StartInit
  <2>2. 2 \in Fds /\ \A p \in -1..MaxFd : p # -1 => p \in Fds
    BY StartAssumption DEF Fds
  <2> QED BY <1>1, <2>1, <2>2, OptionTypes
<1>3. StartTypeOK
  BY <1>1, <1>2, StartAssumption DEF StartInit, StartTypeOK, Fds
<1> QED BY <1>3 DEF StartInit, StartInv, ScanInv, CountInv

\* Every step of main(), of the loop that closes descriptors and of the counter keeps it.
LEMMA StartStep == StartInv /\ [StartNext]_startVars => StartInv'
<1> SUFFICES ASSUME StartInv, [StartNext]_startVars PROVE StartInv'
  OBVIOUS
<1>1. /\ MaxFd \in Nat /\ MaxInt \in Nat /\ BatchSize \in Nat /\ BatchSize > 0
  BY StartAssumption
<1>2. StartTypeOK /\ ScanInv /\ CountInv
  BY DEF StartInv
<1>3. CASE UNCHANGED startVars
  BY <1>2, <1>3
  DEF startVars, StartInv, StartTypeOK, ScanInv, CountInv, OptionsAccepted, Keeps, whitelist,
      Bounded
<1>4. CASE ParseCmdLine
  BY <1>2, <1>4, OptionTypes
  DEF ParseCmdLine, fdVars, StartInv, StartTypeOK, ScanInv, CountInv, OptionsAccepted, Keeps,
      whitelist, Bounded
<1>5. CASE OpenDir
  <2>1. /\ pc = "opendir" /\ open = inherited /\ batch = {} /\ pos = -1 /\ ~opts.keepFds
        /\ OptionsAccepted /\ admitted = 0 /\ open \subseteq 0..MaxFd
        /\ UNCHANGED <<opts, inherited, batch, pos, slots, admitted>>
    BY <1>2, <1>5 DEF OpenDir, StartTypeOK, ScanInv, CountInv, Fds
  <2>2. CASE UNCHANGED <<open, dfd>> /\ pc' = "exit"
    BY <1>2, <2>1, <2>2 DEF StartInv, StartTypeOK, ScanInv, CountInv
  <2>3. CASE dfd' = Min(0..(MaxFd + 1) \ open) /\ open' = open \cup {dfd'}
             /\ pc' \in {"scan", "exit"}
    <3> DEFINE Free == 0..(MaxFd + 1) \ open
    <3>1. MaxFd + 1 \in Free /\ Free \subseteq 0..(MaxFd + 1) /\ MaxFd + 1 \in Nat
      BY <1>1, <2>1
    <3>2. dfd' \in Free
      <4> HIDE DEF Free
      <4>1. Min(Free) \in Free
        BY <3>1, MinMax
      <4> QED BY <2>3, <4>1 DEF Free
    <3>3. StartTypeOK'
      <4>1. dfd' \in -1..(MaxFd + 1) /\ open' \subseteq 0..(MaxFd + 1) /\ dfd' \in open'
        <5>1. dfd' \in 0..(MaxFd + 1) /\ open \subseteq 0..(MaxFd + 1)
          BY <1>1, <2>1, <3>2
        <5>2. dfd' \in -1..(MaxFd + 1)
          BY <1>1, <5>1
        <5> QED BY <2>3, <5>1, <5>2
      <4> QED BY <1>2, <2>1, <2>3, <4>1 DEF StartTypeOK
    <3>4. ScanInv'
      <4>1. \A f \in open' : f = dfd' \/ f > -1
        BY <1>1, <2>1, <2>3
      <4> QED BY <2>1, <2>3, <3>2, <4>1 DEF ScanInv, Keeps
    <3>5. CountInv'
      BY <2>1, <2>3 DEF CountInv, OptionsAccepted
    <3> QED BY <3>3, <3>4, <3>5 DEF StartInv
  <2> QED BY <1>5, <2>2, <2>3 DEF OpenDir
<1>6. CASE ReadBatch
  <2>1. /\ pc = "scan" /\ Unread # {} /\ Unread \subseteq 0..(MaxFd + 1)
        /\ batch' = {f \in Unread : Cardinality({g \in Unread : g < f}) < BatchSize}
        /\ pos' = Max(batch') /\ batch = {}
        /\ UNCHANGED <<opts, inherited, open, dfd, slots, admitted, pc>>
    BY <1>2, <1>6 DEF ReadBatch, Unread, StartTypeOK
  <2>2. /\ batch' # {} /\ batch' \subseteq Unread
        /\ \A f \in Unread : f <= pos' => f \in batch'
    <3>1. MaxFd + 1 \in Nat
      BY <1>1
    <3> QED BY <1>1, <2>1, <3>1, LowestEntries
  <2>3. pos' \in 0..(MaxFd + 1)
    <3>1. Unread \subseteq 0..(MaxFd + 1)
      BY <2>1
    <3>2. MaxFd + 1 \in Nat /\ batch' \subseteq 0..(MaxFd + 1)
      BY <1>1, <2>2, <3>1
    <3>3. Max(batch') \in batch'
      BY <2>2, <3>2, MinMax
    <3>4. pos' = Max(batch')
      BY <2>1
    <3> QED BY <3>2, <3>3, <3>4
  <2>4. StartTypeOK'
    <3>1. /\ pos' \in -1..(MaxFd + 1) /\ batch' \subseteq 0..(MaxFd + 1)
          /\ UNCHANGED <<opts, inherited, open, dfd, slots, admitted, pc>>
      <4>1. Unread \subseteq 0..(MaxFd + 1)
            /\ UNCHANGED <<opts, inherited, open, dfd, slots, admitted, pc>>
        BY <2>1
      <4> QED BY <1>1, <2>2, <2>3, <4>1
    <3> QED BY <1>2, <3>1 DEF StartTypeOK
  <2>5. \A f \in open : f > pos' \/ f \in batch' \/ Keeps(f)
    <3> TAKE f \in open
    <3>1. f \in Int /\ pos \in Int /\ pos' \in Int
      BY <1>1, <1>2, <2>3 DEF StartTypeOK
    <3>2. CASE f > pos
      BY <2>2, <3>1, <3>2 DEF Unread
    <3>3. CASE ~(f > pos)
      BY <1>2, <2>1, <3>3 DEF ScanInv
    <3> QED BY <3>2, <3>3
  <2>6. ScanInv'
    BY <1>2, <2>1, <2>5 DEF ScanInv, Keeps, whitelist
  <2> QED BY <1>2, <2>1, <2>4, <2>6 DEF StartInv, CountInv, OptionsAccepted
<1>7. CASE NextEntry
  <2> DEFINE f == Min(batch)
  <2>1. f \in batch
    <3>1. MaxFd + 1 \in Nat /\ batch \subseteq 0..(MaxFd + 1) /\ batch # {}
      BY <1>1, <1>2, <1>7 DEF StartTypeOK, NextEntry
    <3> QED BY <3>1, MinMax
  <2> HIDE DEF f
  <2>2. /\ pc = "scan" /\ batch' = batch \ {f}
        /\ UNCHANGED <<opts, inherited, dfd, pos, slots, admitted>>
        /\ \/ Keeps(f) /\ UNCHANGED <<open, pc>>
           \/ ~Keeps(f) /\ open' = open \ {f} /\ UNCHANGED pc
           \/ pc' = "exit" /\ UNCHANGED open
    BY <1>7 DEF NextEntry, f
  <2>3. StartTypeOK'
    BY <1>2, <2>2 DEF StartTypeOK, Keeps
  <2>4. ScanInv'
    BY <1>2, <2>2 DEF ScanInv, Keeps, whitelist
  <2> QED BY <1>2, <2>2, <2>3, <2>4 DEF StartInv, CountInv, OptionsAccepted
<1>8. CASE EndOfDir
  <2>1. /\ pc = "scan" /\ batch = {} /\ (dfd \notin open \/ Unread = {})
        /\ open' = open \ {dfd} /\ dfd' = -1 /\ pc' = "handle"
        /\ UNCHANGED <<opts, inherited, batch, pos, slots, admitted>>
    BY <1>8 DEF EndOfDir
  <2>2. StartTypeOK'
    BY <1>1, <1>2, <2>1 DEF StartTypeOK
  <2>3. \A f \in open : Keeps(f)
    BY <1>2, <2>1 DEF ScanInv, Unread
  <2>4. ScanInv'
    BY <1>2, <2>1, <2>3 DEF ScanInv, Keeps, whitelist
  <2> QED BY <1>2, <2>1, <2>2, <2>4 DEF StartInv, CountInv, OptionsAccepted
<1>9. CASE HandlerStart
  <2>1. /\ pc = "handle" /\ pc' = "serve" /\ OptionsAccepted /\ admitted = 0
        /\ UNCHANGED <<opts, inherited, open, dfd, batch, pos, admitted>>
        /\ slots' = gint(gint(opts.maxThreads + opts.maxQueued) + 1)
    BY <1>2, <1>9 DEF HandlerStart, fdVars, CountInv
  <2> DEFINE t == opts.maxThreads
             q == opts.maxQueued
  <2>2. t \in 0..MaxInt /\ q \in -1..MaxInt
    BY <1>1, <1>2, <2>1, OptionTypes DEF StartTypeOK, OptionsAccepted
  <2> HIDE DEF t, q
  <2>3. CASE q >= 0
    <3>1. t + q + 1 \in Int /\ 1 <= t + q + 1 /\ t + q + 1 <= 2 * MaxInt + 1
          /\ (t + q + 1) - 1 = t + q
      BY <1>1, <2>2, <2>3
    <3>2. /\ gint(t + q + 1) \in -(MaxInt + 1)..MaxInt
          /\ gint(gint(t + q) + 1) = gint(t + q + 1)
      BY <3>1, CountsDown
    <3> QED BY <1>2, <2>1, <2>2, <3>1, <3>2
            DEF StartInv, StartTypeOK, ScanInv, CountInv, OptionsAccepted, whitelist, Bounded, t, q
  <2>4. CASE q = -1
    <3>1. gint(t + q) = t - 1
      BY <1>1, <2>2, <2>4, Wraps
    <3>2. gint(gint(t + q) + 1) = t
      BY <1>1, <2>2, <3>1, Wraps
    <3>3. slots' \in -(MaxInt + 1)..MaxInt
      BY <1>1, <2>1, <2>2, <3>2 DEF t, q
    <3> QED BY <1>2, <2>1, <2>4, <3>3
            DEF StartInv, StartTypeOK, ScanInv, CountInv, OptionsAccepted, whitelist, Bounded, q
  <2> QED BY <1>1, <2>2, <2>3, <2>4
<1>10. CASE Admit \/ Release
  <2> DEFINE s == opts.maxThreads + opts.maxQueued
             x == s + 1 - admitted
  <2>1. /\ pc = "serve" /\ Bounded /\ OptionsAccepted
        /\ admitted <= s /\ slots = gint(s + 1 - admitted) /\ admitted \in Nat
        /\ UNCHANGED <<opts, inherited, open, dfd, batch, pos, pc>>
    BY <1>2, <1>10 DEF Admit, Release, fdVars, CountInv, StartTypeOK
  <2>2. s \in Nat /\ s <= 2 * MaxInt
    BY <1>1, <1>2, <2>1, OptionTypes DEF StartTypeOK, OptionsAccepted, Bounded
  <2> HIDE DEF s
  <2>3. x \in Int /\ 1 <= x /\ x <= 2 * MaxInt + 1
    BY <1>1, <2>1, <2>2
  <2>4. CASE Admit
    <3>1. slots' = gint(slots - 1) /\ admitted' = admitted + 1 /\ gint(slots - 1) # 0
      BY <2>4 DEF Admit, Full
    <3>2. x # 1 /\ slots' = gint(x - 1)
      BY <2>1, <2>3, <3>1, CountsDown
    <3>3. x - 1 \in Int /\ 1 <= x - 1 /\ x - 1 <= 2 * MaxInt + 1 /\ x - 1 = s + 1 - admitted'
          /\ admitted' <= s /\ admitted' \in Nat
      BY <1>1, <2>1, <2>2, <2>3, <3>1, <3>2
    <3>4. slots' \in -(MaxInt + 1)..MaxInt /\ slots' = gint(s + 1 - admitted')
      BY <3>2, <3>3, CountsDown
    <3> QED BY <1>2, <2>1, <3>3, <3>4
            DEF StartInv, StartTypeOK, ScanInv, CountInv, OptionsAccepted, whitelist, Bounded, s
  <2>5. CASE Release
    <3>1. slots' = gint(slots + 1) /\ admitted' = admitted - 1 /\ admitted > 0
      BY <2>5 DEF Release
    <3>2. x + 1 \in Int /\ 1 <= x + 1 /\ x + 1 <= 2 * MaxInt + 1 /\ x + 1 = s + 1 - admitted'
          /\ admitted' <= s /\ admitted' \in Nat /\ (x + 1) - 1 = x
      BY <1>1, <2>1, <2>2, <2>3, <3>1
    <3>3. slots' \in -(MaxInt + 1)..MaxInt /\ slots' = gint(s + 1 - admitted')
      BY <2>1, <3>1, <3>2, CountsDown
    <3> QED BY <1>2, <2>1, <3>2, <3>3
            DEF StartInv, StartTypeOK, ScanInv, CountInv, OptionsAccepted, whitelist, Bounded, s
  <2> QED BY <1>10, <2>4, <2>5
<1> QED BY <1>3, <1>4, <1>5, <1>6, <1>7, <1>8, <1>9, <1>10 DEF StartNext

\* The inductive invariant of the start.
LEMMA StartInvariance == StartSpec => []StartInv
BY InitStart, StartStep, PTL DEF StartSpec

\* The threads start with the two pipes, stdout and stderr of what was inherited and nothing
\* else, in however many pieces /proc/self/fd was read while its entries were closed.
THEOREM OnlyNeededDescriptors == StartSpec => []CleanStart
<1>1. StartInv => CleanStart
  BY DEF StartInv, ScanInv, CleanStart, whitelist
<1> QED BY <1>1, StartInvariance, PTL

\* The counter of slots is right although the sum of the two options may not fit a gint.
THEOREM LimitInAnyWidth == StartSpec => []RejectsAtLimit
<1>1. StartInv => RejectsAtLimit
  <2> SUFFICES ASSUME StartInv, pc = "serve", Bounded
               PROVE  Full <=> admitted = opts.maxThreads + opts.maxQueued
    BY DEF RejectsAtLimit
  <2> DEFINE s == opts.maxThreads + opts.maxQueued
             x == s + 1 - admitted
  <2>1. admitted <= s /\ slots = gint(x) /\ admitted \in Nat /\ s \in Nat /\ s <= 2 * MaxInt
    BY StartAssumption, OptionTypes
    DEF StartInv, CountInv, StartTypeOK, OptionsAccepted, Bounded
  <2> HIDE DEF s
  <2>2. x \in Int /\ 1 <= x /\ x <= 2 * MaxInt + 1 /\ (x = 1 <=> admitted = s)
    BY <2>1, StartAssumption
  <2>3. Full <=> x = 1
    BY <2>1, <2>2, CountsDown DEF Full
  <2> QED BY <2>2, <2>3 DEF s
<1> QED BY <1>1, StartInvariance, PTL

-----------------------------------------------------------------------------
(* The places where lines stop *)

\* How many elements of S are not after i.
Rank(S, i) == Cardinality({j \in S : j <= i})

\* The rank grows by one at each element.
LEMMA RankStep ==
  ASSUME NEW n \in Nat, NEW S \in SUBSET (1..n)
  PROVE  /\ Rank(S, 0) = 0 /\ Rank(S, n) = Cardinality(S)
         /\ \A i \in 0..n : Rank(S, i) \in Nat
         /\ \A i \in 1..n : Rank(S, i) = Rank(S, i - 1) + (IF i \in S THEN 1 ELSE 0)
<1>0. \A j \in S : j \in Int /\ ~(j <= 0) /\ j <= n
  OBVIOUS
<1>1. {j \in S : j <= 0} = {} /\ {j \in S : j <= n} = S
  BY <1>0, Zenon
<1>2. \A i \in 0..n : IsFiniteSet({j \in S : j <= i})
  <2>1. IsFiniteSet(1..n)
    BY FS_Interval
  <2> QED BY <2>1, FS_Subset
<1>3. \A i \in 0..n : Rank(S, i) \in Nat
  BY <1>2, FS_CardinalityType DEF Rank
<1>4. ASSUME NEW i \in 1..n
      PROVE  Rank(S, i) = Rank(S, i - 1) + (IF i \in S THEN 1 ELSE 0)
  <2> DEFINE B == {j \in S : j <= i - 1}
  <2>1. i - 1 \in 0..n /\ i \notin B
    BY <1>0
  <2>4. IsFiniteSet(B)
    BY <1>2, <2>1
  <2>5. \A j \in S : j <= i <=> j <= i - 1 \/ j = i
    BY <1>0
  <2>2. {j \in S : j <= i} = IF i \in S THEN B \cup {i} ELSE B
    BY <2>5
  <2>3. Cardinality(B \cup {i}) = Cardinality(B) + 1 /\ Cardinality(B) \in Nat
    BY <2>1, <2>4, FS_AddElement, FS_CardinalityType
  <2> QED BY <2>2, <2>3 DEF Rank
<1> QED BY <1>1, <1>3, <1>4, FS_EmptySet DEF Rank

\* A later place has no smaller rank, and a greater one if it is an element.
LEMMA RankGrows ==
  ASSUME NEW n \in Nat, NEW S \in SUBSET (1..n), NEW i \in 0..n, NEW j \in 0..n, i <= j
  PROVE  /\ Rank(S, i) <= Rank(S, j)
         /\ i < j /\ j \in S => Rank(S, i) < Rank(S, j)
<1> DEFINE T == {k \in Nat : k <= n /\ i <= k => Rank(S, i) <= Rank(S, k)}
<1>0. /\ Rank(S, 0) = 0 /\ \A k \in 0..n : Rank(S, k) \in Nat
      /\ \A k \in 1..n : Rank(S, k) = Rank(S, k - 1) + (IF k \in S THEN 1 ELSE 0)
  BY RankStep
<1>1. 0 \in T
  BY <1>0
<1>2. ASSUME NEW k \in Nat, k \in T PROVE k + 1 \in T
  <2> SUFFICES ASSUME k + 1 <= n, i <= k + 1 PROVE Rank(S, i) <= Rank(S, k + 1)
    OBVIOUS
  <2>1. CASE i = k + 1
    BY <1>0, <2>1
  <2>2. CASE i <= k
    <3>1. Rank(S, i) <= Rank(S, k)
      BY <1>2, <2>2
    <3>2. Rank(S, k + 1) = Rank(S, k) + (IF k + 1 \in S THEN 1 ELSE 0)
      <4>1. k + 1 \in 1..n /\ k + 1 - 1 = k
        OBVIOUS
      <4> QED BY <1>0, <4>1
    <3>3. Rank(S, k) \in Nat /\ Rank(S, i) \in Nat
      BY <1>0
    <3> QED BY <3>1, <3>2, <3>3
  <2> QED BY <2>1, <2>2
<1>3. Nat \subseteq T
  <2> HIDE DEF T
  <2> QED BY <1>1, <1>2, Induction
<1>4. \A k \in 0..n : i <= k => Rank(S, i) <= Rank(S, k)
  BY <1>3
<1>5. ASSUME i < j, j \in S PROVE Rank(S, i) < Rank(S, j)
  <2>1. j - 1 \in 0..n /\ i <= j - 1 /\ j \in 1..n
    BY <1>5
  <2>2. Rank(S, i) <= Rank(S, j - 1)
    BY <1>4, <2>1
  <2>3. Rank(S, j) = Rank(S, j - 1) + 1
    BY <1>0, <1>5, <2>1
  <2> QED BY <1>0, <2>1, <2>2, <2>3
<1> QED BY <1>4, <1>5

\* Every rank up to the number of elements is the rank of an element.
LEMMA RankTaken ==
  ASSUME NEW n \in Nat, NEW S \in SUBSET (1..n), NEW k \in 1..Cardinality(S)
  PROVE  \E i \in S : Rank(S, i) = k
<1>0. /\ Rank(S, 0) = 0 /\ Rank(S, n) = Cardinality(S) /\ \A i \in 0..n : Rank(S, i) \in Nat
      /\ \A i \in 1..n : Rank(S, i) = Rank(S, i - 1) + (IF i \in S THEN 1 ELSE 0)
  BY RankStep
<1> DEFINE T == {i \in 0..n : k <= Rank(S, i)}
<1>1. n \in T
  BY <1>0
<1>2. PICK i \in T : \A j \in T : i <= j
  <2>1. T \subseteq Nat /\ T # {}
    BY <1>1
  <2> HIDE DEF T
  <2> QED BY <2>1, NatMin
<1>3. i \in 1..n
  <2>1. i # 0
    BY <1>0
  <2> QED BY <2>1
<1>4. ~(k <= Rank(S, i - 1))
  <2>1. i - 1 \in 0..n /\ ~(i <= i - 1)
    BY <1>3
  <2> QED BY <1>2, <2>1
<1>5. Rank(S, i - 1) \in Nat /\ Rank(S, i) \in Nat /\ k <= Rank(S, i)
  <2>1. i - 1 \in 0..n /\ i \in 0..n
    BY <1>3
  <2> QED BY <1>0, <2>1
<1>6. Rank(S, i) = Rank(S, i - 1) + (IF i \in S THEN 1 ELSE 0)
  BY <1>0, <1>3
<1>7. i \in S /\ Rank(S, i) = k
  BY <1>4, <1>5, <1>6
<1> QED BY <1>7

\* The stops of a text that is not empty: the last one is its end, each is after the one
\* before it, and no other place between the two is one.
LEMMA StopsInOrder ==
  ASSUME NEW d \in Seq(Bytes), d # <<>>
  PROVE  LET K == Cardinality(Stops(d)) IN
         /\ K \in Nat /\ K >= 1 /\ Stop(d, 0) = 0 /\ Stop(d, K) = Len(d)
         /\ \A k \in 1..K : /\ Stop(d, k) \in Stops(d) /\ Stop(d, k) \in 1..Len(d)
                            /\ Stop(d, k - 1) \in 0..Len(d) /\ Stop(d, k - 1) < Stop(d, k)
                            /\ \A i \in Stops(d) : ~(Stop(d, k - 1) < i /\ i < Stop(d, k))
<1> DEFINE n == Len(d)
           S == Stops(d)
           K == Cardinality(S)
<1>1. n \in Nat /\ n > 0 /\ S \in SUBSET (1..n) /\ n \in S
  BY DEF Stops, Ends
<1>2. IsFiniteSet(S) /\ K \in Nat /\ K >= 1
  <2>1. IsFiniteSet(1..n)
    BY <1>1, FS_Interval
  <2>2. IsFiniteSet(S)
    BY <1>1, <2>1, FS_Subset
  <2>3. K \in Nat /\ K # 0
    BY <1>1, <2>2, FS_CardinalityType, FS_EmptySet
  <2> QED BY <2>2, <2>3
<1>3. Stop(d, 0) = 0
  BY DEF Stop
<1>4. ASSUME NEW k \in 1..K PROVE Stop(d, k) \in S /\ Rank(S, Stop(d, k)) = k
  <2>1. \E i \in S : Rank(S, i) = k
    BY <1>1, RankTaken
  <2>2. k # 0
    OBVIOUS
  <2>3. Stop(d, k) = CHOOSE i \in S : Rank(S, i) = k
    BY <2>2 DEF Stop, Rank
  <2> QED BY <2>1, <2>3
<1> HIDE DEF S, n
<1>5. \A i, j \in S : Rank(S, i) = Rank(S, j) => i = j
  <2>1. ASSUME NEW i \in S, NEW j \in S, i < j PROVE Rank(S, i) < Rank(S, j)
    <3>1. i \in 0..n /\ j \in 0..n /\ i <= j
      BY <1>1, <2>1
    <3> QED BY <1>1, <2>1, <3>1, RankGrows
  <2>2. \A i \in S : i \in Nat /\ Rank(S, i) \in Nat
    BY <1>1, RankStep
  <2> QED BY <2>1, <2>2
<1>6. Stop(d, K) = n
  <2>1. Rank(S, n) = K
    BY <1>1, RankStep
  <2>2. K \in 1..K
    BY <1>2
  <2> QED BY <1>1, <1>4, <1>5, <2>1, <2>2
<1>7. ASSUME NEW k \in 1..K
      PROVE  /\ Stop(d, k - 1) \in 0..n /\ Rank(S, Stop(d, k - 1)) = k - 1
  <2>1. CASE k = 1
    BY <1>1, <1>3, <2>1, RankStep
  <2>2. CASE k # 1
    <3>1. k - 1 \in 1..K
      BY <1>2, <2>2
    <3>2. Stop(d, k - 1) \in S /\ Rank(S, Stop(d, k - 1)) = k - 1
      BY <1>4, <3>1
    <3>3. \A s \in S : s \in 0..n
      BY <1>1
    <3> QED BY <3>2, <3>3, Zenon
  <2> QED BY <2>1, <2>2
<1>8. ASSUME NEW k \in 1..K
      PROVE  /\ Stop(d, k) \in 1..n /\ Stop(d, k - 1) < Stop(d, k)
             /\ \A i \in S : ~(Stop(d, k - 1) < i /\ i < Stop(d, k))
  <2> DEFINE a == Stop(d, k - 1)
             b == Stop(d, k)
  <2>1. a \in 0..n /\ Rank(S, a) = k - 1 /\ b \in S /\ b \in 1..n /\ Rank(S, b) = k
    BY <1>1, <1>4, <1>7
  <2> HIDE DEF a, b
  <2>2. a < b
    <3> SUFFICES ASSUME b <= a PROVE FALSE
      BY <2>1
    <3>1. Rank(S, b) <= Rank(S, a)
      <4>1. b \in 0..n
        BY <2>1
      <4> QED BY <1>1, <2>1, <4>1, RankGrows
    <3> QED BY <1>2, <2>1, <3>1
  <2>3. ASSUME NEW i \in S, a < i, i < b PROVE FALSE
    <3>1. i \in 0..n /\ b \in 0..n /\ a <= i /\ i <= b /\ Rank(S, i) \in Nat
      BY <1>1, <2>1, <2>3, RankStep
    <3>2. Rank(S, a) < Rank(S, i)
      BY <1>1, <2>1, <2>3, <3>1, RankGrows
    <3>3. Rank(S, i) < Rank(S, b)
      BY <1>1, <2>1, <2>3, <3>1, RankGrows
    <3> QED BY <1>2, <2>1, <3>1, <3>2, <3>3
  <2> QED BY <2>1, <2>2, <2>3 DEF a, b
<1> QED BY <1>2, <1>3, <1>4, <1>6, <1>7, <1>8 DEF S, n

\* The lines of a text, joined, are the text up to the place where the last of them stops.
LEMMA LinesJoined ==
  ASSUME NEW d \in Seq(Bytes), d # <<>>
  PROVE  LET K == Cardinality(Stops(d))
             ls == splitlines(d)
         IN  /\ ls \in Seq(Seq(Bytes)) /\ Len(ls) = K
             /\ \A k \in 1..K :
                  /\ Len(ls[k]) = Stop(d, k) - Stop(d, k - 1)
                  /\ \A j \in 1..Len(ls[k]) : ls[k][j] = d[Stop(d, k - 1) + j]
             /\ \A k \in 0..K : FlattenSeq(SubSeq(ls, 1, k)) = SubSeq(d, 1, Stop(d, k))
<1> DEFINE K == Cardinality(Stops(d))
           ls == splitlines(d)
<1>1. /\ K \in Nat /\ K >= 1 /\ Stop(d, 0) = 0 /\ Stop(d, K) = Len(d)
      /\ \A k \in 1..K : /\ Stop(d, k) \in 1..Len(d) /\ Stop(d, k - 1) \in 0..Len(d)
                         /\ Stop(d, k - 1) < Stop(d, k)
  BY StopsInOrder
<1> HIDE DEF K
<1>2. ls = [k \in 1..K |-> SubSeq(d, Stop(d, k - 1) + 1, Stop(d, k))]
  BY DEF splitlines, K
<1> HIDE DEF ls
<1>3. ASSUME NEW k \in 1..K
      PROVE  /\ ls[k] \in Seq(Bytes) /\ ls[k] = SubSeq(d, Stop(d, k - 1) + 1, Stop(d, k))
             /\ Len(ls[k]) = Stop(d, k) - Stop(d, k - 1)
             /\ \A j \in 1..Len(ls[k]) : ls[k][j] = d[Stop(d, k - 1) + j]
  <2>0. Len(d) \in Nat
    OBVIOUS
  <2> DEFINE a == Stop(d, k - 1)
             b == Stop(d, k)
  <2>1. ls[k] = SubSeq(d, a + 1, b)
    BY <1>2
  <2>2. a \in 0..Len(d) /\ b \in 1..Len(d) /\ a < b
    BY <1>1
  <2> HIDE DEF a, b
  <2>3. /\ SubSeq(d, a + 1, b) \in Seq(Bytes) /\ Len(SubSeq(d, a + 1, b)) = b - a
        /\ \A j \in 1..b - a : SubSeq(d, a + 1, b)[j] = d[a + j]
    <3>1. /\ a + 1 \in 1..Len(d) + 1 /\ b \in a + 1 - 1..Len(d)
      BY <2>0, <2>2
    <3>2. /\ SubSeq(d, a + 1, b) \in Seq(Bytes)
          /\ Len(SubSeq(d, a + 1, b)) = IF a + 1 <= b THEN b - (a + 1) + 1 ELSE 0
          /\ \A j \in 1..b - (a + 1) + 1 : SubSeq(d, a + 1, b)[j] = d[a + 1 + j - 1]
      BY <3>1, SubSeqProperties, SMTT(30)
    <3>3. b - (a + 1) + 1 = b - a /\ a + 1 <= b /\ \A j \in 1..b - a : a + 1 + j - 1 = a + j
      BY <2>0, <2>2
    <3> QED BY <3>2, <3>3
  <2> QED BY <2>1, <2>3 DEF a, b
<1>4. ls \in Seq(Seq(Bytes)) /\ Len(ls) = K
  <2>1. \A k \in 1..K : ls[k] \in Seq(Bytes)
    BY <1>3
  <2>2. ls = [k \in 1..K |-> ls[k]]
    BY <1>2
  <2> DEFINE T == Seq(Bytes)
  <2>3. \A k \in 1..K : ls[k] \in T
    BY <2>1
  <2> HIDE DEF T
  <2>4. ls \in [1..K -> T]
    BY <2>2, <2>3
  <2>5. ls \in Seq(T) /\ Len(ls) = K
    BY <1>1, <2>4
  <2> QED BY <2>5 DEF T
<1>5. \A k \in 0..K : FlattenSeq(SubSeq(ls, 1, k)) = SubSeq(d, 1, Stop(d, k))
  <2> DEFINE S == {k \in Nat : k <= K => FlattenSeq(SubSeq(ls, 1, k)) = SubSeq(d, 1, Stop(d, k))}
  <2>1. 0 \in S
    <3>1. SubSeq(ls, 1, 0) = <<>> /\ SubSeq(d, 1, 0) = <<>>
      BY <1>4
    <3> QED BY <1>1, <3>1, FlattenEmpty
  <2>2. ASSUME NEW k \in Nat, k \in S PROVE k + 1 \in S
    <3> SUFFICES ASSUME k + 1 <= K
                 PROVE  FlattenSeq(SubSeq(ls, 1, k + 1)) = SubSeq(d, 1, Stop(d, k + 1))
      OBVIOUS
    <3>1. FlattenSeq(SubSeq(ls, 1, k)) = SubSeq(d, 1, Stop(d, k))
      BY <1>1, <2>2
    <3>2. k + 1 \in 1..K /\ k + 1 - 1 = k
      BY <1>1
    <3>3. /\ ls[k + 1] \in Seq(Bytes) /\ ls[k + 1] = SubSeq(d, Stop(d, k) + 1, Stop(d, k + 1))
          /\ Stop(d, k) \in 0..Len(d) /\ Stop(d, k + 1) \in 1..Len(d)
          /\ Stop(d, k) < Stop(d, k + 1)
      <4>1. PICK j \in 1..K : j = k + 1 /\ j - 1 = k
        BY <3>2
      <4>2. /\ ls[j] \in Seq(Bytes) /\ ls[j] = SubSeq(d, Stop(d, j - 1) + 1, Stop(d, j))
            /\ Stop(d, j) \in 1..Len(d) /\ Stop(d, j - 1) \in 0..Len(d)
            /\ Stop(d, j - 1) < Stop(d, j)
        BY <1>1, <1>3
      <4> QED BY <4>1, <4>2
    <3>4. /\ SubSeq(ls, 1, k) \in Seq(Seq(Bytes))
          /\ SubSeq(ls, 1, k + 1) = Append(SubSeq(ls, 1, k), ls[k + 1])
      <4> DEFINE T == Seq(Bytes)
      <4>1. ls \in Seq(T) /\ k + 1 <= Len(ls)
        BY <1>4
      <4> HIDE DEF T
      <4>2. /\ SubSeq(ls, 1, k) \in Seq(T)
            /\ SubSeq(ls, 1, k + 1) = Append(SubSeq(ls, 1, k), ls[k + 1])
        BY <4>1
      <4> QED BY <4>2 DEF T
    <3>5. FlattenSeq(SubSeq(ls, 1, k + 1)) = SubSeq(d, 1, Stop(d, k)) \o ls[k + 1]
      BY <3>1, <3>3, <3>4, FlattenAppend, Zenon
    <3>6. SubSeq(d, 1, Stop(d, k)) \o SubSeq(d, Stop(d, k) + 1, Stop(d, k + 1))
            = SubSeq(d, 1, Stop(d, k + 1))
      <4> DEFINE a == Stop(d, k)
                 b == Stop(d, k + 1)
      <4> HIDE DEF a, b
      <4>1. a \in 0..Len(d) /\ b \in 1..Len(d) /\ a < b /\ Len(d) \in Nat
        BY <3>3 DEF a, b
      <4>2. 1 \in 1..Len(d) + 1 /\ a \in 1 - 1..Len(d) /\ b \in a..Len(d)
        BY <4>1
      <4>3. SubSeq(d, 1, a) \o SubSeq(d, a + 1, b) = SubSeq(d, 1, b)
        BY <4>2, ConcatAdjacentSubSeq
      <4> QED BY <4>3 DEF a, b
    <3> QED BY <3>3, <3>5, <3>6
  <2>3. Nat \subseteq S
    <3> HIDE DEF S
    <3> QED BY <2>1, <2>2, Induction
  <2>4. \A k \in 0..K : k \in S /\ k <= K
    <3> HIDE DEF S
    <3> QED BY <1>1, <2>3
  <2> QED BY <2>4, Zenon
<1> QED BY <1>3, <1>4, <1>5 DEF K, ls

-----------------------------------------------------------------------------
(* Bytes that follow each other *)

\* The bytes of l, but for the "\n" behind a "\r", belong to one message, each to the place
\* after the one before it.
OneMessage(l) == \A j \in 1..Own(l) : l[j] = [l[1] EXCEPT !.at = @ + j - 1, !.ch = l[j].ch]

\* No "\r" in d is followed by anything but a "\n".
Tidy(d) == \A i \in 1..Len(d) - 1 : d[i].ch = "cr" => d[i + 1].ch = "nl"

\* y is the byte n places after x in its message.
After(x, y, n) == y.child = x.child /\ y.msg = x.msg /\ y.at = x.at + n

\* A byte with another place, and with another character.
LEMMA ByteUpdate ==
  ASSUME NEW x, NEW a, NEW b, NEW c, NEW e, NEW n,
         x = [child |-> a, msg |-> b, at |-> c, ch |-> e]
  PROVE  /\ [x EXCEPT !.at = n] = [child |-> a, msg |-> b, at |-> n, ch |-> e]
         /\ [x EXCEPT !.ch = n] = [child |-> a, msg |-> b, at |-> c, ch |-> n]
OBVIOUS

\* A byte with both.
Moved(x, n, c) == [x EXCEPT !.at = n, !.ch = c]

\* What an update of a byte says of its fields.
LEMMA ByteFields ==
  ASSUME NEW x \in Bytes, NEW y \in Bytes, NEW n \in Int
  PROVE  y = Moved(x, n, y.ch) <=>
           y.child = x.child /\ y.msg = x.msg /\ y.at = n
<1>1. /\ x = [child |-> x.child, msg |-> x.msg, at |-> x.at, ch |-> x.ch]
      /\ y = [child |-> y.child, msg |-> y.msg, at |-> y.at, ch |-> y.ch]
  BY DEF Bytes
<1> DEFINE c == y.ch
           z == [x EXCEPT !.at = n]
           w == [child |-> x.child, msg |-> x.msg, at |-> n, ch |-> c]
<1> HIDE DEF c
<1>2. z = [child |-> x.child, msg |-> x.msg, at |-> n, ch |-> x.ch]
  BY <1>1, ByteUpdate
<1>3. Moved(x, n, c) = [z EXCEPT !.ch = c]
  BY DEF Moved
<1> HIDE DEF z
<1>4. [z EXCEPT !.ch = c] = w
  BY <1>2, ByteUpdate
<1>5. y = w <=> y.child = x.child /\ y.msg = x.msg /\ y.at = n
  BY <1>1 DEF c
<1> QED BY <1>3, <1>4, <1>5 DEF c

\* The beginning of a text that flows: each byte has its next one, up to the cut.
LEMMA FlowsUpTo ==
  ASSUME NEW d \in Seq(Bytes), NEW rest \in Seq(Bytes), Flows(d \o rest),
         NEW i \in 1..Len(d), i < Len(d), d[i].ch = "text"
  PROVE  After(d[i], d[i + 1], 1)
<1> DEFINE s == d \o rest
<1>0. i + 1 \in 1..Len(d) /\ d[i] \in Bytes /\ d[i + 1] \in Bytes
  OBVIOUS
<1>1. i \in DOMAIN s /\ s[i] = d[i] /\ s[i + 1] = d[i + 1]
  BY <1>0
<1> HIDE DEF s
<1>2. s[i + 1] = [s[i] EXCEPT !.at = @ + 1, !.ch = s[i + 1].ch]
  <2>1. Flows(s) /\ s[i].ch = "text"
    BY <1>1 DEF s
  <2> QED BY <1>1, <2>1, Zenon DEF Flows
<1>3. d[i + 1] = [d[i] EXCEPT !.at = d[i].at + 1, !.ch = d[i + 1].ch]
  BY <1>1, <1>2
<1>4. d[i].at + 1 \in Int
  <2> DEFINE x == d[i]
  <2>1. x \in Bytes
    BY <1>0
  <2> HIDE DEF x
  <2>2. x.at \in Nat
    BY <2>1 DEF Bytes
  <2> QED BY <2>2 DEF x
<1>5. After(d[i], d[i + 1], 1)
  <2> DEFINE x == d[i]
             y == d[i + 1]
             n == x.at + 1
  <2>1. x \in Bytes /\ y \in Bytes /\ n \in Int /\ y = Moved(x, n, y.ch)
    BY <1>0, <1>3, <1>4 DEF Moved
  <2> HIDE DEF x, y, n
  <2>2. y.child = x.child /\ y.msg = x.msg /\ y.at = n
    <3>1. y = Moved(x, n, y.ch) <=> y.child = x.child /\ y.msg = x.msg /\ y.at = n
      BY <2>1, ByteFields
    <3> QED BY <2>1, <3>1
  <2> QED BY <2>2 DEF x, y, n, After
<1> QED BY <1>5

\* A piece that flows, as such a text does, up to a byte that is no "text" flows.
LEMMA FlowsPiece ==
  ASSUME NEW s \in Seq(Bytes), NEW l \in Seq(Bytes), NEW a \in Nat, Flows(s),
         l # <<>>, Last(l).ch # "text", a + Len(l) <= Len(s),
         \A j \in 1..Len(l) : l[j] = s[a + j]
  PROVE  Flows(l)
<1> SUFFICES ASSUME NEW i \in DOMAIN l, l[i].ch = "text"
             PROVE  i < Len(l) /\ l[i + 1] = [l[i] EXCEPT !.at = @ + 1, !.ch = l[i + 1].ch]
  BY Zenon DEF Flows
<1>1. i \in 1..Len(l) /\ Len(l) \in Nat /\ Len(s) \in Nat /\ DOMAIN s = 1..Len(s)
  OBVIOUS
<1>2. i < Len(l)
  BY <1>1 DEF Last
<1>3. i + 1 \in 1..Len(l) /\ a + (i + 1) = a + i + 1 /\ a + i \in DOMAIN s
  <2> DEFINE m == Len(l)
             h == Len(s)
  <2>1. m \in Nat /\ h \in Nat /\ i \in 1..m /\ i < m /\ a + m <= h /\ DOMAIN s = 1..h
    BY <1>1, <1>2
  <2> HIDE DEF m, h
  <2>2. i \in Nat /\ 1 <= i
    BY <2>1
  <2>3. i + 1 \in 1..m /\ a + (i + 1) = a + i + 1
    BY <2>1, <2>2
  <2>4. a + i \in 1..h
    BY <2>1, <2>2
  <2> QED BY <2>1, <2>3, <2>4 DEF m, h
<1>4. l[i] = s[a + i] /\ l[i + 1] = s[a + i + 1]
  BY <1>1, <1>3
<1>5. s[a + i + 1] = [s[a + i] EXCEPT !.at = @ + 1, !.ch = s[a + i + 1].ch]
  BY <1>3, <1>4, Zenon DEF Flows
<1> QED BY <1>2, <1>4, <1>5

\* The own bytes of a line that follow each other are of one message.
LEMMA PieceOfOne ==
  ASSUME NEW l \in Seq(Bytes), l # <<>>,
         \A j \in 1..Own(l) - 1 : After(l[j], l[j + 1], 1)
  PROVE  OneMessage(l)
<1> DEFINE N == Own(l)
<1>0. N \in Nat /\ N <= Len(l) /\ Len(l) \in Nat /\ Len(l) >= 1
  BY DEF Own
<1>5. \A j \in 1..N - 1 : After(l[j], l[j + 1], 1)
  OBVIOUS
<1> HIDE DEF N
<1> DEFINE S == {j \in Nat : j + 1 <= N => After(l[1], l[j + 1], j)}
<1>1. 0 \in S
  <2> SUFFICES ASSUME 1 <= N PROVE After(l[1], l[0 + 1], 0)
    OBVIOUS
  <2>1. l[1] \in Bytes
    BY <1>0
  <2>2. l[1].at \in Nat
    BY <2>1 DEF Bytes
  <2> QED BY <2>2 DEF After
<1>2. ASSUME NEW j \in Nat, j \in S PROVE j + 1 \in S
  <2> SUFFICES ASSUME j + 1 + 1 <= N PROVE After(l[1], l[j + 1 + 1], j + 1)
    OBVIOUS
  <2>2. After(l[1], l[j + 1], j)
    BY <1>0, <1>2
  <2>3. j + 1 \in 1..N - 1
    BY <1>0
  <2>4. After(l[j + 1], l[j + 1 + 1], 1)
    BY <1>5, <2>3
  <2>5. l[1] \in Bytes
    BY <1>0
  <2>6. l[1].at \in Nat
    BY <2>5 DEF Bytes
  <2>7. l[j + 1 + 1].child = l[1].child /\ l[j + 1 + 1].msg = l[1].msg
    BY <2>2, <2>4, Zenon DEF After
  <2>8. l[j + 1 + 1].at = l[1].at + j + 1
    <3>1. l[j + 1 + 1].at = l[j + 1].at + 1
      BY <2>4 DEF After
    <3>2. l[j + 1].at = l[1].at + j
      BY <2>2 DEF After
    <3> QED BY <3>1, <3>2, Zenon
  <2>9. l[1].at + j + 1 = l[1].at + (j + 1)
    <3>1. \A m \in Nat : m + j + 1 = m + (j + 1)
      OBVIOUS
    <3> QED BY <2>6, <3>1, Zenon
  <2> QED BY <2>7, <2>8, <2>9, Zenon DEF After
<1>3. Nat \subseteq S
  <2> HIDE DEF S
  <2> QED BY <1>1, <1>2, Induction
<1>4. ASSUME NEW j \in 1..N PROVE l[j] = [l[1] EXCEPT !.at = @ + j - 1, !.ch = l[j].ch]
  <2>1. j - 1 \in Nat /\ j - 1 + 1 = j /\ j <= N /\ l[j] \in Bytes /\ l[1] \in Bytes
    BY <1>0
  <2>2. j - 1 \in S
    BY <1>3, <2>1
  <2>3. After(l[1], l[j], j - 1)
    BY <2>1, <2>2
  <2>4. l[1].at \in Nat /\ j \in Int
    BY <2>1, SMTT(90) DEF Bytes
  <2>5. l[1].at + j - 1 \in Int /\ l[j].at = l[1].at + j - 1
    BY <2>3, <2>4 DEF After
  <2>6. l[j] = [l[1] EXCEPT !.at = l[1].at + j - 1, !.ch = l[j].ch]
    <3> DEFINE x == l[1]
               y == l[j]
               n == l[1].at + j - 1
    <3>1. /\ x \in Bytes /\ y \in Bytes /\ n \in Int
          /\ y.child = x.child /\ y.msg = x.msg /\ y.at = n
      BY <2>1, <2>3, <2>5 DEF After
    <3> HIDE DEF x, y, n
    <3>2. y = Moved(x, n, y.ch)
      BY <3>1, ByteFields, Zenon
    <3> QED BY <3>2 DEF x, y, n, Moved
  <2> QED BY <2>6
<1> QED BY <1>4, Zenon DEF OneMessage, N

\* What splitlines() makes of a text that flows: lines of one message each, and all but the
\* last have ended, with "\n" or, where the text is not tidy, with "\r".
LEMMA LinesOfOne ==
  ASSUME NEW d \in Seq(Bytes), NEW rest \in Seq(Bytes), d # <<>>, Flows(d \o rest)
  PROVE  LET ls == splitlines(d) IN
         /\ Len(ls) \in Nat /\ Len(ls) >= 1
         /\ \A k \in 1..Len(ls) :
              /\ ls[k] # <<>> /\ OneMessage(ls[k])
              /\ k < Len(ls) /\ Last(ls[k]).ch # "nl" => Flows(ls[k]) /\ ~Tidy(d)
<1> DEFINE K == Cardinality(Stops(d))
           ls == splitlines(d)
<1>1. /\ K \in Nat /\ K >= 1 /\ Stop(d, K) = Len(d)
      /\ \A k \in 1..K : /\ Stop(d, k) \in Stops(d) /\ Stop(d, k) \in 1..Len(d)
                         /\ Stop(d, k - 1) \in 0..Len(d) /\ Stop(d, k - 1) < Stop(d, k)
                         /\ \A i \in Stops(d) : ~(Stop(d, k - 1) < i /\ i < Stop(d, k))
  BY StopsInOrder
<1>2. /\ ls \in Seq(Seq(Bytes)) /\ Len(ls) = K
      /\ \A k \in 1..K : /\ Len(ls[k]) = Stop(d, k) - Stop(d, k - 1)
                         /\ \A j \in 1..Len(ls[k]) : ls[k][j] = d[Stop(d, k - 1) + j]
  BY LinesJoined
<1> HIDE DEF K, ls
<1>3. Len(d) \in Nat
  OBVIOUS
<1>4. ASSUME NEW k \in 1..K
      PROVE  /\ ls[k] # <<>> /\ OneMessage(ls[k])
             /\ k < K /\ Last(ls[k]).ch # "nl" => Flows(ls[k]) /\ ~Tidy(d)
  <2> DEFINE a == Stop(d, k - 1)
             b == Stop(d, k)
             l == ls[k]
  <2>1. a \in 0..Len(d) /\ b \in 1..Len(d) /\ a < b /\ b \in Stops(d)
    BY <1>1
  <2>2. \A i \in Stops(d) : ~(a < i /\ i < b)
    BY <1>1
  <2>3. l \in Seq(Bytes) /\ Len(l) = b - a /\ \A j \in 1..Len(l) : l[j] = d[a + j]
    BY <1>2
  <2> HIDE DEF a, b, l
  <2>4. l # <<>> /\ Last(l) = d[b]
    <3>1. Len(l) \in 1..Len(l) /\ a + Len(l) = b
      BY <1>3, <2>1, <2>3
    <3>2. l[Len(l)] = d[b]
      BY <2>3, <3>1
    <3> QED BY <2>3, <3>1, <3>2 DEF Last
  <2>5. ASSUME NEW j \in 1..Own(l) - 1 PROVE After(l[j], l[j + 1], 1)
    <3>0. Len(l) \in Nat /\ j \in Nat /\ j > 0 /\ j < Len(l) /\ j < Own(l)
      BY <2>3 DEF Own
    <3>1. /\ j \in 1..Len(l) /\ j + 1 \in 1..Len(l) /\ a + (j + 1) = a + j + 1
          /\ a + j \in 1..Len(d) /\ a + j < Len(d) /\ a < a + j /\ a + j < b
          /\ a + j + 1 \in 1..Len(d) /\ a < a + j + 1
      BY <1>3, <2>1, <2>3, <3>0
    <3>2. l[j] = d[a + j] /\ l[j + 1] = d[a + j + 1]
      BY <2>3, <3>1
    <3>3. ~EndsLine(d, a + j)
      BY <2>2, <3>1 DEF Stops, Ends
    <3>4. d[a + j].ch # "cr"
      <4> SUFFICES ASSUME d[a + j].ch = "cr" PROVE FALSE
        OBVIOUS
      <4>1. d[a + j + 1].ch = "nl"
        BY <3>1, <3>3 DEF EndsLine
      <4>2. a + j + 1 \in Stops(d)
        BY <3>1, <4>1 DEF Stops, Ends, EndsLine
      <4>3. ~(a + j + 1 < b)
        BY <2>2, <3>1, <4>2
      <4>4. j = Len(l) - 1
        BY <1>3, <2>1, <2>3, <3>0, <4>3, SMTT(30)
      <4>5. Own(l) = Len(l) - 1
        BY <3>0, <3>2, <4>4 DEF Own
      <4> QED BY <3>0, <4>4, <4>5
    <3>5. d[a + j].ch # "nl"
      BY <3>3 DEF EndsLine
    <3>6. d[a + j].ch = "text"
      <4>1. d[a + j] \in Bytes
        BY <3>1
      <4>2. d[a + j].ch \in {"text", "cr", "nl"}
        BY <4>1 DEF Bytes
      <4> QED BY <3>4, <3>5, <4>2
    <3>7. After(d[a + j], d[a + j + 1], 1)
      BY <3>1, <3>6, FlowsUpTo
    <3> QED BY <3>2, <3>7
  <2>6. OneMessage(l)
    BY <2>3, <2>4, <2>5, PieceOfOne
  <2>7. ASSUME k < K, Last(l).ch # "nl" PROVE Flows(l) /\ ~Tidy(d)
    <3>1. b < Len(d)
      <4>1. k + 1 \in 1..K /\ k + 1 - 1 = k
        BY <1>1, <2>7
      <4>2. Stop(d, k) < Stop(d, k + 1) /\ Stop(d, k + 1) \in 1..Len(d)
        BY <1>1, <4>1
      <4> QED BY <1>3, <2>1, <4>2 DEF b
    <3>2. EndsLine(d, b)
      BY <2>1, <3>1 DEF Stops, Ends
    <3>3. d[b].ch = "cr" /\ ~(d[b + 1].ch = "nl")
      BY <2>4, <2>7, <3>1, <3>2 DEF EndsLine
    <3>4. b \in 1..Len(d) - 1
      BY <1>3, <2>1, <3>1
    <3>5. ~Tidy(d)
      BY <3>3, <3>4 DEF Tidy
    <3> DEFINE s == d \o rest
    <3>6. /\ s \in Seq(Bytes) /\ Len(s) = Len(d) + Len(rest) /\ Len(rest) \in Nat
          /\ \A i \in 1..Len(d) : s[i] = d[i]
      OBVIOUS
    <3>7. Flows(s)
      OBVIOUS
    <3> HIDE DEF s
    <3>8. a \in Nat /\ a + Len(l) <= Len(s) /\ \A j \in 1..Len(l) : a + j \in 1..Len(d)
      BY <1>3, <2>1, <2>3, <3>6
    <3>9. \A j \in 1..Len(l) : l[j] = s[a + j]
      BY <2>3, <3>6, <3>8
    <3>10. Last(l).ch # "text"
      BY <2>4, <3>3
    <3>11. Flows(l)
      BY <2>3, <2>4, <3>6, <3>7, <3>8, <3>9, <3>10, FlowsPiece
    <3> QED BY <3>5, <3>11
  <2> QED BY <2>4, <2>6, <2>7 DEF l
<1> QED BY <1>1, <1>2, <1>4 DEF ls

\* A text that flows and another make a text that flows; what is left of one flows.
LEMMA FlowsJoin ==
  ASSUME NEW a \in Seq(Bytes), NEW b \in Seq(Bytes)
  PROVE  /\ Flows(a) /\ Flows(b) => Flows(a \o b)
         /\ Flows(a \o b) => Flows(b)
<1> DEFINE s == a \o b
<1>1. /\ Len(a) \in Nat /\ Len(b) \in Nat /\ Len(s) = Len(a) + Len(b) /\ s \in Seq(Bytes)
      /\ \A i \in 1..Len(a) : s[i] = a[i]
      /\ \A i \in 1..Len(b) : s[Len(a) + i] = b[i]
  OBVIOUS
<1>2. /\ DOMAIN a = 1..Len(a) /\ DOMAIN b = 1..Len(b) /\ DOMAIN s = 1..Len(s)
  BY <1>1
<1> HIDE DEF s
<1> DEFINE Next1(q, i) == q[i + 1] = [q[i] EXCEPT !.at = @ + 1, !.ch = q[i + 1].ch]
<1>3. \A q : Flows(q) <=> \A i \in DOMAIN q : q[i].ch = "text" => i < Len(q) /\ Next1(q, i)
  BY Zenon DEF Flows
<1>4. \A q, r, i, j : q[i] = r[j] /\ q[i + 1] = r[j + 1] => (Next1(q, i) <=> Next1(r, j))
  BY SMTT(30)
<1> HIDE DEF Next1
<1>5. ASSUME Flows(a), Flows(b), NEW i \in DOMAIN s, s[i].ch = "text"
      PROVE  i < Len(s) /\ Next1(s, i)
  <2>1. CASE i <= Len(a)
    <3>1. i \in 1..Len(a) /\ s[i] = a[i]
      BY <1>1, <1>2, <2>1
    <3>2. i < Len(a) /\ Next1(a, i)
      BY <1>2, <1>3, <1>5, <3>1
    <3>3. i + 1 \in 1..Len(a) /\ i < Len(s)
      BY <1>1, <3>1, <3>2
    <3>4. s[i + 1] = a[i + 1]
      BY <1>1, <3>3
    <3> QED BY <1>4, <3>1, <3>2, <3>3, <3>4, Zenon
  <2>2. CASE ~(i <= Len(a))
    <3> DEFINE j == i - Len(a)
    <3>1. j \in 1..Len(b) /\ i = Len(a) + j /\ i \in Nat
      BY <1>1, <1>2, <2>2
    <3> HIDE DEF j
    <3>2. s[i] = b[j]
      BY <1>1, <3>1
    <3>3. j < Len(b) /\ Next1(b, j)
      BY <1>2, <1>3, <1>5, <3>1, <3>2
    <3>4. j + 1 \in 1..Len(b) /\ i + 1 = Len(a) + (j + 1) /\ i < Len(s)
      BY <1>1, <3>1, <3>3
    <3>5. s[i + 1] = b[j + 1]
      BY <1>1, <3>4
    <3> QED BY <1>4, <3>2, <3>3, <3>4, <3>5, Zenon
  <2> QED BY <2>1, <2>2
<1>6. ASSUME Flows(s), NEW j \in DOMAIN b, b[j].ch = "text"
      PROVE  j < Len(b) /\ Next1(b, j)
  <2> DEFINE i == Len(a) + j
  <2>1. j \in 1..Len(b) /\ i \in DOMAIN s /\ s[i] = b[j]
    BY <1>1, <1>2
  <2> HIDE DEF i
  <2>2. i < Len(s) /\ Next1(s, i)
    BY <1>3, <1>6, <2>1
  <2>3. j < Len(b) /\ j + 1 \in 1..Len(b) /\ i + 1 = Len(a) + (j + 1)
    BY <1>1, <2>1, <2>2 DEF i
  <2>4. s[i + 1] = b[j + 1]
    BY <1>1, <2>3
  <2> QED BY <1>4, <2>1, <2>2, <2>3, <2>4, Zenon
<1> QED BY <1>3, <1>5, <1>6 DEF s

\* A message is made of bytes that follow each other up to its end.
LEMMA MessageFlows ==
  ASSUME NEW c \in 1..MaxChildren, NEW k \in 1..(MaxMessages + 1), NEW t,
         t \in Texts \/ t = <<"text", "nl">>
  PROVE  /\ Message(c, k, t) \in Seq(Bytes) /\ Message(c, k, t) # <<>>
         /\ Flows(Message(c, k, t)) /\ Message(c, k, t)[1].ch = "text"
<1>1. t \in Seq({"text", "cr", "nl"}) /\ Len(t) > 0 /\ t[1] = "text" /\ Last(t) = "nl"
  <2>1. CASE t \in Texts
    BY <2>1, ConstantsAssumption
  <2>2. CASE t = <<"text", "nl">>
    <3>1. <<"text", "nl">> \in Seq({"text", "cr", "nl"}) /\ Len(<<"text", "nl">>) = 2
      OBVIOUS
    <3>2. <<"text", "nl">>[1] = "text" /\ <<"text", "nl">>[2] = "nl"
      OBVIOUS
    <3> QED BY <2>2, <3>1, <3>2 DEF Last
  <2> QED BY <2>1, <2>2
<1> DEFINE m == Message(c, k, t)
<1>2. /\ Len(t) \in Nat /\ DOMAIN t = 1..Len(t) /\ t[Len(t)] = "nl"
      /\ \A i \in 1..Len(t) : t[i] \in {"text", "cr", "nl"}
  BY <1>1 DEF Last
<1>3. \A i \in 1..Len(t) : m[i] = [child |-> c, msg |-> k, at |-> i, ch |-> t[i]]
  BY DEF Message
<1>9. m = [i \in 1..Len(t) |-> m[i]]
  BY DEF Message
<1> HIDE DEF m
<1>4. ASSUME NEW i \in 1..Len(t)
      PROVE  /\ m[i] \in Bytes /\ m[i].ch = t[i]
             /\ m[i].child = c /\ m[i].msg = k /\ m[i].at = i
  <2>1. i \in Nat /\ t[i] \in {"text", "cr", "nl"}
    BY <1>2
  <2> DEFINE e == t[i]
  <2> HIDE DEF e
  <2>2. m[i] = [child |-> c, msg |-> k, at |-> i, ch |-> e]
    BY <1>3 DEF e
  <2>3. [child |-> c, msg |-> k, at |-> i, ch |-> e] \in Bytes
    BY <2>1 DEF Bytes, e
  <2> QED BY <2>2, <2>3 DEF e
<1>5. m \in Seq(Bytes) /\ Len(m) = Len(t) /\ DOMAIN m = 1..Len(t)
  BY <1>2, <1>4, <1>9
<1>6. m # <<>> /\ m[1].ch = "text"
  <2>1. 1 \in 1..Len(t)
    BY <1>1, <1>2
  <2> QED BY <1>1, <1>4, <1>5, <2>1
<1>7. ASSUME NEW i \in DOMAIN m, m[i].ch = "text"
      PROVE  i < Len(m) /\ m[i + 1] = [m[i] EXCEPT !.at = @ + 1, !.ch = m[i + 1].ch]
  <2>1. i \in 1..Len(t) /\ t[i] # "nl"
    BY <1>4, <1>5, <1>7
  <2>2. i < Len(t)
    BY <1>2, <2>1
  <2>3. i + 1 \in 1..Len(t)
    BY <1>2, <2>1, <2>2
  <2>5. m[i + 1] = [m[i] EXCEPT !.at = @ + 1, !.ch = m[i + 1].ch]
    <3>1. m[i] \in Bytes /\ m[i + 1] \in Bytes
      BY <1>4, <2>1, <2>3
    <3>2. /\ m[i].child = c /\ m[i].msg = k /\ m[i].at = i
          /\ m[i + 1].child = c /\ m[i + 1].msg = k /\ m[i + 1].at = i + 1
      BY <1>4, <2>1, <2>3
    <3> DEFINE x == m[i]
               y == m[i + 1]
               n == x.at + 1
    <3>3. /\ x \in Bytes /\ y \in Bytes /\ n \in Int
          /\ y.child = x.child /\ y.msg = x.msg /\ y.at = n
      BY <2>1, <3>1, <3>2
    <3> HIDE DEF x, y, n
    <3>4. y = Moved(x, n, y.ch)
      BY <3>3, ByteFields, Zenon
    <3> QED BY <3>4 DEF x, y, n, Moved
  <2> QED BY <1>5, <2>2, <2>5
<1>8. Flows(m)
  BY <1>7, Zenon DEF Flows
<1> QED BY <1>5, <1>6, <1>8 DEF m

-----------------------------------------------------------------------------
(* The steps *)

\* _processLogs() reports the lines that have ended and keeps the rest; or it keeps a line that
\* ends in a lone "\r", and drops what is behind it.
LEMMA Processed ==
  ASSUME NEW d \in Seq(Bytes), NEW rest \in Seq(Bytes), d # <<>>,
         partialLogs \in Seq(Bytes), lines \in Seq(Seq(Bytes)),
         \A i \in DOMAIN lines : lines[i] # <<>> /\ Last(lines[i]).ch = "nl",
         NoRawLogData, Flows(Joined(d) \o rest), ProcessLogs(d)
  PROVE  /\ lines' \in Seq(Seq(Bytes)) /\ partialLogs' \in Seq(Bytes)
         /\ \A i \in DOMAIN lines' : lines'[i] # <<>> /\ Last(lines'[i]).ch = "nl"
         /\ partialLogs' # <<>> => Last(partialLogs').ch # "nl"
         /\ NoRawLogData'
         /\ \/ \E ended \in Seq(Bytes) : /\ Joined(d) = ended \o partialLogs'
                                         /\ FlattenSeq(lines') = FlattenSeq(lines) \o ended
            \/ Flows(partialLogs') /\ ~Tidy(Joined(d))
<1> DEFINE D == Joined(d)
           ls == splitlines(D)
           K == Len(ls)
           stop == Incomplete(ls)
           first == CHOOSE i \in stop : \A j \in stop : i <= j
<1>1. D \in Seq(Bytes) /\ D # <<>>
  BY DEF Joined
<1>2. /\ K \in Nat /\ K >= 1
      /\ \A k \in 1..K : /\ ls[k] # <<>> /\ OneMessage(ls[k])
                         /\ k < K /\ Last(ls[k]).ch # "nl" => Flows(ls[k]) /\ ~Tidy(D)
  <2> HIDE DEF D
  <2> QED BY <1>1, LinesOfOne DEF D
<1>3. /\ ls \in Seq(Seq(Bytes)) /\ Stop(D, K) = Len(D)
      /\ \A k \in 0..K : FlattenSeq(SubSeq(ls, 1, k)) = SubSeq(D, 1, Stop(D, k))
      /\ ls[K] = SubSeq(D, Stop(D, K - 1) + 1, Len(D)) /\ Stop(D, K - 1) \in 0..Len(D)
  <2> HIDE DEF D
  <2>1. /\ ls \in Seq(Seq(Bytes)) /\ K = Cardinality(Stops(D))
        /\ \A k \in 0..K : FlattenSeq(SubSeq(ls, 1, k)) = SubSeq(D, 1, Stop(D, k))
    BY <1>1, LinesJoined
  <2>2. /\ Stop(D, K) = Len(D) /\ K \in 1..K /\ Stop(D, K - 1) \in 0..Len(D)
    <3> HIDE DEF K
    <3>1. K \in 1..K
      BY <1>2
    <3>2. /\ Stop(D, K) = Len(D) /\ \A k \in 1..K : Stop(D, k - 1) \in 0..Len(D)
      BY <1>1, <2>1, StopsInOrder
    <3> QED BY <3>1, <3>2
  <2>3. ls[K] = SubSeq(D, Stop(D, K - 1) + 1, Stop(D, K))
    BY <2>1, <2>2 DEF splitlines
  <2> QED BY <2>1, <2>2, <2>3
<1>4. /\ lines' = lines \o (IF stop = {} THEN ls ELSE SubSeq(ls, 1, first - 1))
      /\ partialLogs' = IF stop = {} THEN <<>> ELSE ls[first]
  BY DEF ProcessLogs, LinesOf
<1> HIDE DEF D, ls, K, stop, first
<1>5. stop = {k \in 1..K : Last(ls[k]).ch # "nl"}
  <2>1. DOMAIN ls = 1..K
    BY <1>3 DEF K
  <2> QED BY <2>1 DEF stop, Incomplete
<1>6. PICK new \in Seq(Seq(Bytes)) :
        /\ lines' = lines \o new
        /\ partialLogs' \in Seq(Bytes) /\ (partialLogs' # <<>> => Last(partialLogs').ch # "nl")
        /\ D = FlattenSeq(new) \o partialLogs' \/ (Flows(partialLogs') /\ ~Tidy(D))
        /\ \A i \in DOMAIN new : new[i] # <<>> /\ Last(new[i]).ch = "nl" /\ OneMessage(new[i])
  <2>1. CASE stop = {}
    <3>2. SubSeq(ls, 1, K) = ls /\ DOMAIN ls = 1..K
      BY <1>3 DEF K
    <3>3. SubSeq(D, 1, Len(D)) = D /\ D \o <<>> = D
      BY <1>1
    <3>4. K \in 0..K
      BY <1>2
    <3>5. FlattenSeq(ls) = D
      BY <1>3, <3>2, <3>3, <3>4
    <3>6. \A i \in DOMAIN ls : ls[i] # <<>> /\ Last(ls[i]).ch = "nl" /\ OneMessage(ls[i])
      BY <1>2, <1>5, <2>1, <3>2
    <3>7. partialLogs' = <<>> /\ lines' = lines \o ls /\ <<>> \in Seq(Bytes)
      BY <1>4, <2>1
    <3> QED BY <1>3, <3>3, <3>5, <3>6, <3>7
  <2>2. CASE stop # {}
    <3>1. /\ first \in stop /\ \A j \in stop : first <= j
      <4>1. stop \subseteq Nat
        BY <1>5
      <4>2. \E i \in stop : \A j \in stop : i <= j
        BY <2>2, <4>1, NatMin
      <4> QED BY <4>2 DEF first
    <3>2. /\ first \in 1..K /\ Last(ls[first]).ch # "nl"
          /\ \A i \in 1..K : i < first => Last(ls[i]).ch = "nl"
      <4>1. first \in 1..K /\ Last(ls[first]).ch # "nl"
        BY <1>5, <3>1
      <4>2. ASSUME NEW i \in 1..K, i < first PROVE Last(ls[i]).ch = "nl"
        <5>1. ~(first <= i)
          BY <1>2, <4>1, <4>2
        <5>2. i \notin stop
          BY <3>1, <5>1
        <5> QED BY <1>5, <5>2
      <4> QED BY <4>1, <4>2
    <3> DEFINE new == SubSeq(ls, 1, first - 1)
    <3>3. /\ new \in Seq(Seq(Bytes)) /\ DOMAIN new = 1..first - 1
          /\ \A i \in 1..first - 1 : new[i] = ls[i]
      <4> DEFINE T == Seq(Bytes)
      <4>1. ls \in Seq(T) /\ K = Len(ls) /\ first - 1 \in 0..Len(ls)
        BY <1>2, <1>3, <3>2 DEF K
      <4> HIDE DEF T
      <4>2. /\ new \in Seq(T) /\ DOMAIN new = 1..first - 1
            /\ \A i \in 1..first - 1 : new[i] = ls[i]
        BY <4>1
      <4> QED BY <4>2 DEF T
    <3>4. lines' = lines \o new /\ partialLogs' = ls[first]
      BY <1>4, <2>2
    <3>5. partialLogs' \in Seq(Bytes) /\ Last(partialLogs').ch # "nl"
      <4>1. first \in 1..Len(ls)
        BY <3>2 DEF K
      <4>2. ls[first] \in Seq(Bytes)
        BY <1>3, <4>1, ElementOfSeq, Zenon
      <4> QED BY <3>2, <3>4, <4>2
    <3>6. \A i \in DOMAIN new : new[i] # <<>> /\ Last(new[i]).ch = "nl" /\ OneMessage(new[i])
      <4>1. \A i \in 1..first - 1 : i \in 1..K /\ i < first
        BY <1>2, <3>2
      <4> HIDE DEF new
      <4> QED BY <1>2, <3>2, <3>3, <4>1
    <3>7. CASE first = K
      <4> DEFINE b == Stop(D, K - 1)
      <4>1. FlattenSeq(new) = SubSeq(D, 1, b)
        <5>1. K - 1 \in 0..K
          BY <1>2
        <5> QED BY <1>3, <3>7, <5>1
      <4>2. D = SubSeq(D, 1, b) \o SubSeq(D, b + 1, Len(D))
        BY <1>1, <1>3, Cut
      <4>3. D = FlattenSeq(new) \o partialLogs'
        <5> HIDE DEF new
        <5> QED BY <1>3, <3>4, <3>7, <4>1, <4>2
      <4> HIDE DEF new
      <4> QED BY <3>3, <3>4, <3>5, <3>6, <4>3
    <3>8. CASE first < K
      <4>1. Flows(partialLogs') /\ ~Tidy(D)
        BY <1>2, <3>2, <3>4, <3>8
      <4> HIDE DEF new
      <4> QED BY <3>3, <3>4, <3>5, <3>6, <4>1
    <3>9. first = K \/ first < K
      BY <1>2, <3>2
    <3> QED BY <3>7, <3>8, <3>9
  <2> QED BY <2>1, <2>2
<1>7. FlattenSeq(lines') = FlattenSeq(lines) \o FlattenSeq(new) /\ FlattenSeq(new) \in Seq(Bytes)
  BY <1>6, FlattenConcat, FlattenType
<1>8. lines' \in Seq(Seq(Bytes))
  <2> DEFINE T == Seq(Bytes)
  <2>1. lines \in Seq(T) /\ new \in Seq(T)
    OBVIOUS
  <2> HIDE DEF T
  <2>2. lines \o new \in Seq(T)
    BY <2>1
  <2> QED BY <1>6, <2>2 DEF T
<1>9. ASSUME NEW i \in DOMAIN lines'
      PROVE  lines'[i] # <<>> /\ Last(lines'[i]).ch = "nl" /\ OneMessage(lines'[i])
  <2> DEFINE T == Seq(Bytes)
  <2>1. lines \in Seq(T) /\ new \in Seq(T) /\ lines' = lines \o new
    BY <1>6
  <2> HIDE DEF T
  <2>2. \/ i \in DOMAIN lines /\ lines'[i] = lines[i]
        \/ \E j \in DOMAIN new : lines'[i] = new[j]
    <3>1. /\ Len(lines \o new) = Len(lines) + Len(new) /\ Len(lines) \in Nat /\ Len(new) \in Nat
          /\ \A k \in 1..Len(lines) + Len(new) :
               (lines \o new)[k] = IF k <= Len(lines) THEN lines[k] ELSE new[k - Len(lines)]
      BY <2>1, ConcatProperties
    <3>2. i \in 1..Len(lines) + Len(new) /\ DOMAIN lines = 1..Len(lines) /\ DOMAIN new = 1..Len(new)
      BY <2>1, <3>1
    <3>3. CASE i <= Len(lines)
      BY <2>1, <3>1, <3>2, <3>3
    <3>4. CASE ~(i <= Len(lines))
      <4>1. i - Len(lines) \in DOMAIN new
        BY <3>1, <3>2, <3>4
      <4> QED BY <2>1, <3>1, <3>2, <3>4, <4>1
    <3> QED BY <3>3, <3>4
  <2>3. \A k \in DOMAIN lines : OneMessage(lines[k])
    BY Zenon DEF NoRawLogData, OneMessage
  <2> QED BY <1>6, <2>2, <2>3
<1>10. NoRawLogData'
  BY <1>9, Zenon DEF NoRawLogData, OneMessage
<1> QED BY <1>6, <1>7, <1>8, <1>9, <1>10 DEF D

\* Sequences of bytes may be joined in any order of the joins.
LEMMA Assoc ==
  ASSUME NEW x \in Seq(Bytes), NEW y \in Seq(Bytes), NEW z \in Seq(Bytes)
  PROVE  x \o y \in Seq(Bytes) /\ (x \o y) \o z = x \o (y \o z)
<1>1. x \o y \in Seq(Bytes)
  OBVIOUS
<1>2. (x \o y) \o z = x \o (y \o z)
  BY ConcatAssociative, SMTT(30)
<1> QED BY <1>1, <1>2

\* What the invariants have joined are sequences of bytes.
LEMMA StreamType ==
  ASSUME TypeOK
  PROVE  /\ Stream \in Seq(Bytes) /\ partialLogs \o pipe \in Seq(Bytes)
         /\ FlattenSeq(lines) \in Seq(Bytes) /\ FlattenSeq(queue) \in Seq(Bytes)
         /\ FlattenSeq(pushed) \in Seq(Bytes)
<1>1. FlattenSeq(lines) \in Seq(Bytes)
  BY FlattenType DEF TypeOK
<1>2. FlattenSeq(queue) \in Seq(Bytes)
  BY FlattenType DEF TypeOK
<1>3. FlattenSeq(pushed) \in Seq(Bytes)
  BY FlattenType DEF TypeOK
<1>4. partialLogs \o pipe \in Seq(Bytes)
  BY DEF TypeOK
<1>5. Stream \in Seq(Bytes)
  BY <1>4 DEF Stream, TypeOK
<1> QED BY <1>1, <1>2, <1>3, <1>4, <1>5

\* Two texts joined, and cut where they were joined.
LEMMA SplitAgain ==
  ASSUME NEW x \in Seq(Bytes), NEW y \in Seq(Bytes)
  PROVE  /\ x \o y \in Seq(Bytes) /\ Len(x) \in Nat /\ Len(x) <= Len(x \o y)
         /\ SubSeq(x \o y, 1, Len(x)) = x
         /\ SubSeq(x \o y, Len(x) + 1, Len(x \o y)) = y
<1> DEFINE s == x \o y
<1>1. /\ Len(x) \in Nat /\ Len(y) \in Nat /\ Len(s) = Len(x) + Len(y) /\ s \in Seq(Bytes)
      /\ \A i \in 1..Len(x) : s[i] = x[i]
      /\ \A i \in 1..Len(y) : s[Len(x) + i] = y[i]
  OBVIOUS
<1> HIDE DEF s
<1>2. Len(x) <= Len(s)
  BY <1>1
<1>3. SubSeq(s, 1, Len(x)) = x
  BY <1>1
<1>4. SubSeq(s, Len(x) + 1, Len(s)) = y
  BY <1>1
<1> QED BY <1>1, <1>2, <1>3, <1>4 DEF s

\* In the first n bytes of l, every "\r" is followed by a "\n".
CleanUpTo(l, n) == \A i \in 1..n : l[i].ch = "cr" => i < Len(l) /\ l[i + 1].ch = "nl"

\* A message that does not begin with "\n" makes nothing clean that was not.
LEMMA CleanBefore ==
  ASSUME NEW l \in Seq(Bytes), NEW m \in Seq(Bytes), m # <<>>, m[1].ch = "text",
         NEW n \in 0..Len(l), CleanUpTo(l \o m, n)
  PROVE  CleanUpTo(l, n)
<1> DEFINE s == l \o m
<1>1. /\ Len(l) \in Nat /\ Len(m) \in Nat /\ Len(m) >= 1
      /\ \A i \in 1..Len(l) : s[i] = l[i]
      /\ \A i \in 1..Len(m) : s[Len(l) + i] = m[i]
  OBVIOUS
<1>2. CleanUpTo(s, n)
  OBVIOUS
<1> HIDE DEF s
<1> SUFFICES ASSUME NEW i \in 1..n, l[i].ch = "cr" PROVE i < Len(l) /\ l[i + 1].ch = "nl"
  BY Zenon DEF CleanUpTo
<1>3. i \in 1..Len(l) /\ s[i].ch = "cr"
  BY <1>1
<1>4. s[i + 1].ch = "nl"
  BY <1>2, <1>3, Zenon DEF CleanUpTo
<1>5. i # Len(l)
  <2> SUFFICES ASSUME i = Len(l) PROVE FALSE
    OBVIOUS
  <2>1. s[Len(l) + 1] = m[1]
    BY <1>1
  <2> QED BY <1>4, <2>1
<1>6. i < Len(l) /\ i + 1 \in 1..Len(l)
  BY <1>1, <1>3, <1>5
<1> QED BY <1>1, <1>4, <1>6

\* What was read is not clean when a part of it is not tidy.
LEMMA NotClean ==
  ASSUME NEW f \in Seq(Bytes), NEW D \in Seq(Bytes), NEW r \in Seq(Bytes), ~Tidy(D)
  PROVE  ~CleanUpTo((f \o D) \o r, Len(f \o D))
<1> DEFINE x == f \o D
           s == x \o r
<1>1. /\ x \in Seq(Bytes) /\ Len(f) \in Nat /\ Len(D) \in Nat /\ Len(x) = Len(f) + Len(D)
      /\ \A i \in 1..Len(D) : x[Len(f) + i] = D[i]
  OBVIOUS
<1> HIDE DEF x
<1>2. \A i \in 1..Len(x) : s[i] = x[i]
  BY <1>1
<1> HIDE DEF s
<1>3. PICK i \in 1..Len(D) - 1 : D[i].ch = "cr" /\ D[i + 1].ch # "nl"
  BY Zenon DEF Tidy
<1> DEFINE k == Len(f) + i
<1>4. /\ i \in 1..Len(D) /\ i + 1 \in 1..Len(D) /\ k \in 1..Len(x) /\ k + 1 \in 1..Len(x)
      /\ k + 1 = Len(f) + (i + 1)
  BY <1>1, <1>3
<1>5. s[k] = D[i] /\ s[k + 1] = D[i + 1]
  BY <1>1, <1>2, <1>4
<1> HIDE DEF k
<1>6. ~CleanUpTo(s, Len(x))
  BY <1>3, <1>4, <1>5 DEF CleanUpTo
<1> QED BY <1>6 DEF s, x

\* What was queued is what was read and what was not.
LEMMA LoggedParts ==
  ASSUME LogInv
  PROVE  /\ Logged \in Seq(Bytes) /\ taken \in 0..Len(Logged)
         /\ SubSeq(Logged, 1, taken) \in Seq(Bytes) /\ Len(SubSeq(Logged, 1, taken)) = taken
         /\ Logged = SubSeq(Logged, 1, taken) \o ((pipe \o text) \o FlattenSeq(queue))
         /\ Clean <=> CleanUpTo(Logged, taken)
<1>1. Logged \in Seq(Bytes)
  BY StreamType DEF LogInv, Logged
<1>2. taken \in 0..Len(Logged)
  BY <1>1 DEF LogInv, TypeOK
<1>3. /\ SubSeq(Logged, 1, taken) \in Seq(Bytes) /\ Len(SubSeq(Logged, 1, taken)) = taken
      /\ SubSeq(Logged, 1, taken) \o SubSeq(Logged, taken + 1, Len(Logged)) = Logged
  BY <1>1, <1>2, Cut
<1>4. (pipe \o text) \o FlattenSeq(queue) = SubSeq(Logged, taken + 1, Len(Logged))
  BY DEF LogInv
<1> QED BY <1>1, <1>2, <1>3, <1>4 DEF Clean, CleanUpTo

\* Nothing is reported.
LEMMA LinesKept ==
  ASSUME NoRawLogData, lines' = lines
  PROVE  NoRawLogData'
<1>1. \A i \in DOMAIN lines : OneMessage(lines[i])
  BY Zenon DEF NoRawLogData, OneMessage
<1>2. \A i \in DOMAIN lines' : OneMessage(lines'[i])
  BY <1>1
<1> QED BY <1>2, Zenon DEF NoRawLogData, OneMessage

\* A step that changes none of the texts: threads move on, the log thread within its loop.
LEMMA TextsKept ==
  ASSUME LogInv, NoRawLogData, TypeOK',
         UNCHANGED <<pushed, queue, text, pipe, partialLogs, taken, lines>>
  PROVE  LogInv' /\ NoRawLogData'
<1>1. Logged' = Logged /\ Stream' = Stream
  BY DEF Logged, Stream
<1>2. Clean' = Clean
  BY <1>1 DEF Clean
<1>3. NoRawLogData'
  BY LinesKept
<1> QED BY <1>1, <1>2, <1>3 DEF LogInv

\* A message is queued.
LEMMA Queued ==
  ASSUME LogInv, NoRawLogData, TypeOK',
         NEW m \in Seq(Bytes), m # <<>>, Flows(m), m[1].ch = "text",
         queue' = Append(queue, m), pushed' = Append(pushed, m),
         UNCHANGED <<text, pipe, partialLogs, taken, lines>>
  PROVE  LogInv' /\ NoRawLogData'
<1>1. /\ TypeOK /\ Flows(Stream) /\ \A i \in DOMAIN queue : queue[i] # <<>> /\ Flows(queue[i])
      /\ Clean => FlattenSeq(lines) \o partialLogs = SubSeq(Logged, 1, taken)
  BY DEF LogInv
<1>2. queue \in Seq(Seq(Bytes)) /\ pushed \in Seq(Seq(Bytes))
  BY <1>1 DEF TypeOK
<1>3. Stream' = Stream /\ FlattenSeq(lines)' = FlattenSeq(lines)
  BY DEF Stream
<1>4. \A i \in DOMAIN queue' : queue'[i] # <<>> /\ Flows(queue'[i])
  <2> DEFINE T == Seq(Bytes)
  <2>1. queue \in Seq(T) /\ m \in T
    BY <1>2
  <2> HIDE DEF T
  <2>2. \A i \in DOMAIN queue' : (i \in DOMAIN queue /\ queue'[i] = queue[i]) \/ queue'[i] = m
    BY <2>1
  <2> QED BY <1>1, <2>2
<1> DEFINE l == Logged
           r == SubSeq(Logged, 1, taken)
           x == pipe \o text
           q == FlattenSeq(queue)
<1>5. FlattenSeq(queue') = q \o m /\ Logged' = l \o m
  BY <1>2, FlattenAppend DEF Logged
<1>6. /\ l \in Seq(Bytes) /\ taken \in 0..Len(l) /\ r \in Seq(Bytes) /\ Len(r) = taken
      /\ l = r \o (x \o q) /\ (Clean <=> CleanUpTo(l, taken))
  BY LoggedParts
<1>7. x \in Seq(Bytes) /\ q \in Seq(Bytes)
  <2>1. pipe \in Seq(Bytes) /\ text \in Seq(Bytes)
    BY <1>1 DEF TypeOK
  <2>2. pipe \o text \in Seq(Bytes)
    BY <2>1, Assoc
  <2> QED BY <1>1, <2>2, StreamType
<1>8. (pipe \o text)' = x
  OBVIOUS
<1> HIDE DEF l, r, x, q
<1>9. l \o m = r \o (x \o (q \o m)) /\ x \o (q \o m) \in Seq(Bytes)
  <2>1. x \o q \in Seq(Bytes) /\ q \o m \in Seq(Bytes)
    BY <1>7, Assoc
  <2>2. (r \o (x \o q)) \o m = r \o ((x \o q) \o m)
    <3> DEFINE y == x \o q
    <3>1. r \in Seq(Bytes) /\ y \in Seq(Bytes)
      BY <1>6, <2>1
    <3> HIDE DEF y
    <3>2. (r \o y) \o m = r \o (y \o m)
      BY <3>1, Assoc, ZenonT(30)
    <3> QED BY <3>2 DEF y
  <2>3. (x \o q) \o m = x \o (q \o m)
    BY <1>7, Assoc, ZenonT(30)
  <2>4. x \o (q \o m) \in Seq(Bytes)
    BY <1>7, <2>1, Assoc
  <2> QED BY <1>6, <2>2, <2>3, <2>4
<1>10. /\ taken <= Len(l \o m) /\ SubSeq(l \o m, 1, taken) = r
       /\ SubSeq(l \o m, taken + 1, Len(l \o m)) = x \o (q \o m)
  <2> DEFINE y == x \o (q \o m)
  <2> HIDE DEF y
  <2>1. /\ Len(r) <= Len(r \o y) /\ SubSeq(r \o y, 1, Len(r)) = r
        /\ SubSeq(r \o y, Len(r) + 1, Len(r \o y)) = y
    <3>1. y \in Seq(Bytes)
      BY <1>9 DEF y
    <3> QED BY <1>6, <3>1, SplitAgain
  <2> QED BY <1>6, <1>9, <2>1 DEF y
<1>11. Clean' => Clean
  <2> SUFFICES ASSUME Clean' PROVE CleanUpTo(l, taken)
    BY <1>6
  <2>1. CleanUpTo(l \o m, taken)
    BY <1>5 DEF Clean, CleanUpTo
  <2> QED BY <1>6, <2>1, CleanBefore
<1>12. Clean' => FlattenSeq(lines') \o partialLogs' = SubSeq(Logged', 1, taken')
  BY <1>1, <1>5, <1>10, <1>11 DEF r
<1>13. /\ taken' <= Len(Logged')
       /\ pipe' \o text' \o FlattenSeq(queue') = SubSeq(Logged', taken' + 1, Len(Logged'))
  BY <1>5, <1>8, <1>10
<1>14. LogInv'
  BY <1>1, <1>3, <1>4, <1>12, <1>13 DEF LogInv
<1>15. NoRawLogData'
  BY LinesKept
<1> QED BY <1>14, <1>15

\* What the log thread takes from the queue, and what it writes, stays in the stream.
LEMMA StreamMoves ==
  ASSUME LogInv, NoRawLogData, TypeOK', UNCHANGED <<pushed, partialLogs, taken, lines>>,
         \/ LoggerPop
         \/ \E n \in 1..Len(text) : LoggerWrites(n)
  PROVE  LogInv' /\ NoRawLogData'
<1>1. /\ TypeOK /\ Flows(Stream) /\ \A i \in DOMAIN queue : queue[i] # <<>> /\ Flows(queue[i])
      /\ taken <= Len(Logged)
      /\ pipe \o text \o FlattenSeq(queue) = SubSeq(Logged, taken + 1, Len(Logged))
      /\ Clean => FlattenSeq(lines) \o partialLogs = SubSeq(Logged, 1, taken)
  BY DEF LogInv
<1>2. /\ queue \in Seq(Seq(Bytes)) /\ text \in Seq(Bytes) /\ pipe \in Seq(Bytes)
      /\ partialLogs \in Seq(Bytes)
  BY <1>1 DEF TypeOK
<1>3. /\ Logged' = Logged /\ (FlattenSeq(lines) \o partialLogs)' = FlattenSeq(lines) \o partialLogs
      /\ (Clean' <=> Clean) /\ NoRawLogData'
  <2>1. lines' = lines /\ pushed' = pushed /\ partialLogs' = partialLogs
    OBVIOUS
  <2>2. Logged' = Logged
    BY DEF Logged
  <2>3. Clean' <=> Clean
    BY <2>2 DEF Clean
  <2> QED BY <2>1, <2>2, <2>3, LinesKept
<1>6. ASSUME Flows(Stream'), \A i \in DOMAIN queue' : queue'[i] # <<>> /\ Flows(queue'[i]),
             pipe' \o text' \o FlattenSeq(queue') = pipe \o text \o FlattenSeq(queue)
      PROVE  LogInv'
  BY <1>1, <1>3, <1>6 DEF LogInv
<1>4. CASE LoggerPop
  <2>1. /\ queue # <<>> /\ text = <<>> /\ text' = queue[1] /\ queue' = Tail(queue)
        /\ pipe' = pipe
    BY <1>1, <1>4 DEF LoggerPop, TypeOK
  <2>2. /\ queue[1] \in Seq(Bytes) /\ Flows(queue[1])
        /\ \A i \in DOMAIN queue' : queue'[i] # <<>> /\ Flows(queue'[i])
    <3> DEFINE T == Seq(Bytes)
    <3>1. queue \in Seq(T)
      BY <1>2
    <3> HIDE DEF T
    <3>2. /\ queue[1] \in T /\ 1 \in DOMAIN queue
          /\ \A i \in DOMAIN queue' : i + 1 \in DOMAIN queue /\ queue'[i] = queue[i + 1]
      BY <2>1, <3>1
    <3> QED BY <1>1, <3>2 DEF T
  <2>3. FlattenSeq(queue) = queue[1] \o FlattenSeq(queue') /\ FlattenSeq(queue') \in Seq(Bytes)
    <3>1. FlattenSeq(queue) = queue[1] \o FlattenSeq(Tail(queue))
      BY <1>2, <2>1, FlattenFirst
    <3>2. queue' \in Seq(Seq(Bytes))
      BY DEF TypeOK
    <3>3. FlattenSeq(queue') \in Seq(Bytes)
      BY <3>2, FlattenType
    <3> QED BY <2>1, <3>1, <3>3
  <2> DEFINE s == Stream
             q == FlattenSeq(queue')
             x == queue[1]
  <2>4. Stream' = s \o x
    <3>1. partialLogs \o pipe \in Seq(Bytes)
      BY <1>1, StreamType
    <3>2. Stream = partialLogs \o pipe
      BY <2>1, <3>1 DEF Stream
    <3> QED BY <2>1, <3>2 DEF Stream
  <2>5. s \in Seq(Bytes) /\ q \in Seq(Bytes) /\ x \in Seq(Bytes)
    BY <1>1, <2>2, <2>3, StreamType
  <2>6. Flows(Stream')
    BY <1>1, <2>2, <2>4, <2>5, FlowsJoin
  <2>7. (pipe \o x) \o q = (pipe \o <<>>) \o (x \o q)
    <3>1. pipe \in Seq(Bytes) /\ pipe \o <<>> = pipe
      BY <1>2
    <3> HIDE DEF q, x
    <3> QED BY <2>5, <3>1, Assoc, SMTT(30)
  <2>8. pipe' \o text' \o FlattenSeq(queue') = pipe \o text \o FlattenSeq(queue)
    BY <2>1, <2>3, <2>7
  <2>9. LogInv'
    BY <1>6, <2>2, <2>6, <2>8
  <2> QED BY <1>3, <2>9
<1>5. ASSUME NEW n \in 1..Len(text), LoggerWrites(n) PROVE LogInv' /\ NoRawLogData'
  <2>1. /\ pipe' = pipe \o SubSeq(text, 1, n) /\ text' = SubSeq(text, n + 1, Len(text))
        /\ queue' = queue
    BY <1>5 DEF LoggerWrites
  <2>2. pipe' \in Seq(Bytes) /\ text' \in Seq(Bytes) /\ pipe' \o text' = pipe \o text
    <3>0. pipe \in Seq(Bytes) /\ text \in Seq(Bytes)
      BY <1>2
    <3>1. Len(text) \in Nat /\ n \in 0..Len(text)
      BY <3>0
    <3> DEFINE a == SubSeq(text, 1, n)
               b == SubSeq(text, n + 1, Len(text))
    <3>2. a \in Seq(Bytes) /\ b \in Seq(Bytes) /\ a \o b = text
      BY <3>0, <3>1, Cut
    <3> HIDE DEF a, b
    <3>3. (pipe \o a) \o b = pipe \o (a \o b) /\ pipe \o a \in Seq(Bytes)
      <4>1. pipe \in Seq(Bytes) /\ a \in Seq(Bytes) /\ b \in Seq(Bytes)
        BY <3>0, <3>2
      <4> QED BY <4>1, Assoc, SMTT(30)
    <3> QED BY <2>1, <3>2, <3>3 DEF a, b
  <2>3. Stream' = Stream
    <3>1. (partialLogs \o pipe) \o text = partialLogs \o (pipe \o text)
      BY <1>2, Assoc
    <3>2. (partialLogs \o pipe') \o text' = partialLogs \o (pipe' \o text')
      BY <1>2, <2>2, Assoc
    <3> QED BY <2>2, <3>1, <3>2 DEF Stream
  <2>4. LogInv'
    BY <1>1, <1>6, <2>1, <2>2, <2>3
  <2> QED BY <1>3, <2>4
<1> QED BY <1>4, <1>5

\* What the client reads moves from the stream to what is reported.
LEMMA Reads ==
  ASSUME LogInv, NoRawLogData, NEW n \in 1..ReadSize, ClientReads(n)
  PROVE  LogInv' /\ NoRawLogData'
<1>1. /\ TypeOK /\ Flows(Stream) /\ \A i \in DOMAIN queue : queue[i] # <<>> /\ Flows(queue[i])
      /\ Clean => FlattenSeq(lines) \o partialLogs = SubSeq(Logged, 1, taken)
  BY DEF LogInv
<1>2. /\ lines \in Seq(Seq(Bytes)) /\ text \in Seq(Bytes) /\ pipe \in Seq(Bytes)
      /\ partialLogs \in Seq(Bytes) /\ taken \in Nat
      /\ \A i \in DOMAIN lines : lines[i] # <<>> /\ Last(lines[i]).ch = "nl"
  BY <1>1 DEF TypeOK
<1> DEFINE d == SubSeq(pipe, 1, n)
           p == SubSeq(pipe, n + 1, Len(pipe))
           D == Joined(d)
           rest == p \o text
<1>3. /\ n <= Len(pipe) /\ ProcessLogs(d) /\ pipe' = p /\ taken' = taken + n
      /\ UNCHANGED <<child, pushed, queue, text, logger, closed, main>>
  BY DEF ClientReads, serverVars
<1>4. n \in 0..Len(pipe) /\ n \in Nat /\ n > 0
  BY <1>2, <1>3, ConstantsAssumption
<1>5. /\ d \in Seq(Bytes) /\ Len(d) = n /\ d # <<>> /\ p \in Seq(Bytes) /\ pipe = d \o p
  <2>1. d \in Seq(Bytes) /\ Len(d) = n /\ p \in Seq(Bytes) /\ pipe = d \o p
    BY <1>2, <1>4, Cut
  <2> HIDE DEF d, p
  <2>2. d # <<>>
    BY <1>4, <2>1
  <2> QED BY <2>1, <2>2
<1> HIDE DEF d, p
<1>6. D \in Seq(Bytes) /\ rest \in Seq(Bytes) /\ D = partialLogs \o d
  BY <1>2, <1>5 DEF Joined
<1>7. Stream = D \o rest
  <2>1. partialLogs \o (d \o p) = (partialLogs \o d) \o p
    BY <1>2, <1>5, Assoc, ZenonT(30)
  <2>2. (D \o p) \o text = D \o (p \o text)
    BY <1>2, <1>5, <1>6, Assoc, SMTT(90)
  <2> QED BY <1>5, <1>6, <2>1, <2>2 DEF Stream
<1> HIDE DEF D, rest
<1>8. /\ lines' \in Seq(Seq(Bytes)) /\ partialLogs' \in Seq(Bytes)
      /\ \A i \in DOMAIN lines' : lines'[i] # <<>> /\ Last(lines'[i]).ch = "nl"
      /\ partialLogs' # <<>> => Last(partialLogs').ch # "nl"
      /\ NoRawLogData'
      /\ \/ \E ended \in Seq(Bytes) : /\ D = ended \o partialLogs'
                                      /\ FlattenSeq(lines') = FlattenSeq(lines) \o ended
         \/ Flows(partialLogs') /\ ~Tidy(D)
  BY <1>1, <1>2, <1>3, <1>5, <1>6, <1>7, Processed DEF D
<1>9. Stream' = partialLogs' \o rest
  <2>0. partialLogs' \in Seq(Bytes) /\ p \in Seq(Bytes) /\ text \in Seq(Bytes)
    BY <1>2, <1>5, <1>8
  <2>1. (partialLogs' \o p) \o text = partialLogs' \o (p \o text)
    BY <2>0, Assoc, SMTT(30)
  <2> QED BY <1>3, <2>1, Zenon DEF Stream, rest
<1> DEFINE l == Logged
           r == SubSeq(Logged, 1, taken)
           q == FlattenSeq(queue)
           f == FlattenSeq(lines)
           y == rest \o q
<1>10. /\ l \in Seq(Bytes) /\ taken \in 0..Len(l) /\ r \in Seq(Bytes) /\ Len(r) = taken
       /\ l = r \o ((pipe \o text) \o q) /\ (Clean <=> CleanUpTo(l, taken))
  BY LoggedParts
<1>11. q \in Seq(Bytes) /\ f \in Seq(Bytes) /\ Logged' = l
  BY <1>1, <1>3, StreamType DEF Logged
<1> HIDE DEF l, r, q, f
<1>12. /\ y \in Seq(Bytes) /\ r \o d \in Seq(Bytes) /\ Len(r \o d) = taken'
       /\ l = (r \o d) \o y
  <2>0. /\ rest \in Seq(Bytes) /\ q \in Seq(Bytes)
        /\ r \in Seq(Bytes) /\ d \in Seq(Bytes) /\ Len(r) = taken /\ Len(d) = n
    BY <1>5, <1>6, <1>10, <1>11
  <2>1. y \in Seq(Bytes) /\ r \o d \in Seq(Bytes)
    <3>1. \A u, v \in Seq(Bytes) : u \o v \in Seq(Bytes)
      OBVIOUS
    <3> QED BY <2>0, <3>1, Zenon
  <2>2. Len(r \o d) = taken'
    <3>1. Len(r \o d) = Len(r) + Len(d)
      BY <2>0, ConcatProperties, Zenon
    <3> QED BY <1>3, <2>0, <3>1
  <2>3. (d \o p) \o text = d \o rest
    <3>1. d \in Seq(Bytes) /\ p \in Seq(Bytes) /\ text \in Seq(Bytes)
      BY <1>2, <1>5
    <3>2. (d \o p) \o text = d \o (p \o text)
      BY <3>1, Assoc, SMTT(30)
    <3> QED BY <3>2 DEF rest
  <2>4. (d \o rest) \o q = d \o y
    <3>1. d \in Seq(Bytes) /\ rest \in Seq(Bytes) /\ q \in Seq(Bytes)
      BY <1>5, <1>6, <1>11
    <3> QED BY <3>1, Assoc, SMTT(30)
  <2>5. r \o (d \o y) = (r \o d) \o y
    <3> HIDE DEF y
    <3>1. r \in Seq(Bytes) /\ d \in Seq(Bytes) /\ y \in Seq(Bytes)
      BY <1>5, <1>10, <2>1
    <3> QED BY <3>1, Assoc, ZenonT(30)
  <2> QED BY <1>5, <1>10, <2>1, <2>2, <2>3, <2>4, <2>5
<1>13. /\ taken' <= Len(l) /\ SubSeq(l, 1, taken') = r \o d
       /\ SubSeq(l, taken' + 1, Len(l)) = y
  <2> HIDE DEF y
  <2> DEFINE x == r \o d
  <2>1. x \in Seq(Bytes) /\ y \in Seq(Bytes) /\ Len(x) = taken' /\ l = x \o y
    BY <1>12
  <2> HIDE DEF x
  <2>2. /\ Len(x) <= Len(x \o y) /\ SubSeq(x \o y, 1, Len(x)) = x
        /\ SubSeq(x \o y, Len(x) + 1, Len(x \o y)) = y
    BY <2>1, SplitAgain
  <2> QED BY <2>1, <2>2 DEF x
<1>14. ASSUME Clean' PROVE f \o D = r \o d /\ CleanUpTo(l, taken')
  <2>1. CleanUpTo(l, taken')
    BY <1>11, <1>14 DEF Clean, CleanUpTo
  <2>2. CleanUpTo(l, taken)
    <3>1. \A i \in 1..taken : i \in 1..taken'
      BY <1>2, <1>3, <1>4
    <3> QED BY <2>1, <3>1, Zenon DEF CleanUpTo
  <2>3. f \o partialLogs = r
    BY <1>1, <1>10, <2>2 DEF f, r
  <2>4. (f \o partialLogs) \o d = f \o (partialLogs \o d)
    <3>1. f \in Seq(Bytes) /\ partialLogs \in Seq(Bytes) /\ d \in Seq(Bytes)
      BY <1>2, <1>5, <1>11
    <3> QED BY <3>1, Assoc, SMTT(30)
  <2> QED BY <1>6, <2>1, <2>3, <2>4
<1>15. Flows(Stream') /\ (Clean' => FlattenSeq(lines') \o partialLogs' = r \o d)
  <2>1. ASSUME NEW e \in Seq(Bytes), D = e \o partialLogs', FlattenSeq(lines') = f \o e
        PROVE  Flows(Stream') /\ (Clean' => FlattenSeq(lines') \o partialLogs' = r \o d)
    <3>1. (e \o partialLogs') \o rest = e \o (partialLogs' \o rest)
      BY <1>6, <1>8, Assoc, ZenonT(30)
    <3>2. partialLogs' \o rest \in Seq(Bytes)
      BY <1>6, <1>8, Assoc, Zenon
    <3>3. Flows(e \o Stream') /\ Stream' \in Seq(Bytes)
      BY <1>1, <1>7, <1>9, <2>1, <3>1, <3>2
    <3>4. Flows(Stream')
      BY <3>3, FlowsJoin
    <3>5. (f \o e) \o partialLogs' = f \o (e \o partialLogs')
      <4> DEFINE u == partialLogs'
      <4>1. f \in Seq(Bytes) /\ e \in Seq(Bytes) /\ u \in Seq(Bytes)
        BY <1>8, <1>11
      <4> HIDE DEF u
      <4>2. (f \o e) \o u = f \o (e \o u)
        BY <4>1, Assoc, SMTT(30)
      <4> QED BY <4>2 DEF u
    <3> QED BY <1>14, <2>1, <3>4, <3>5
  <2>2. ASSUME Flows(partialLogs'), ~Tidy(D)
        PROVE  Flows(Stream') /\ (Clean' => FlattenSeq(lines') \o partialLogs' = r \o d)
    <3>1. Flows(D \o rest)
      BY <1>1, <1>7
    <3>2. Flows(rest)
      BY <1>6, <3>1, FlowsJoin
    <3>3. Flows(Stream')
      BY <1>6, <1>8, <1>9, <2>2, <3>2, FlowsJoin
    <3>4. ~CleanUpTo((f \o D) \o y, Len(f \o D))
      <4> HIDE DEF y
      <4> QED BY <1>6, <1>11, <1>12, <2>2, NotClean
    <3>5. ~Clean'
      <4> HIDE DEF y
      <4> QED BY <1>12, <1>14, <3>4
    <3> QED BY <3>3, <3>5
  <2> QED BY <1>8, <2>1, <2>2 DEF f
<1>16. TypeOK'
  <2>1. taken' \in Nat
    BY <1>2, <1>3, <1>4
  <2> QED BY <1>1, <1>3, <1>5, <1>8, <2>1 DEF TypeOK
<1>17. LogInv'
  <2>1. \A i \in DOMAIN queue' : queue'[i] # <<>> /\ Flows(queue'[i])
    BY <1>1, <1>3
  <2>2. pipe' \o text' \o FlattenSeq(queue') = SubSeq(Logged', taken' + 1, Len(Logged'))
    BY <1>3, <1>11, <1>13 DEF rest, q
  <2>3. Clean' => FlattenSeq(lines') \o partialLogs' = SubSeq(Logged', 1, taken')
    BY <1>11, <1>13, <1>15
  <2> QED BY <1>11, <1>13, <1>15, <1>16, <2>1, <2>2, <2>3 DEF LogInv
<1> QED BY <1>8, <1>17

\* The empty sequence.
LEMMA NoBytes ==
  /\ <<>> \in Seq(Bytes) /\ <<>> \in Seq(Seq(Bytes)) /\ Len(<<>>) = 0
  /\ \A i \in DOMAIN <<>> : FALSE
  /\ <<>> \o <<>> = <<>> /\ SubSeq(<<>>, 0 + 1, 0) = <<>> /\ SubSeq(<<>>, 1, 0) = <<>> /\ 0 <= 0
OBVIOUS

\* Every step keeps the invariant, and what was reported of one message.
LEMMA LogStep ==
  ASSUME LogInv, NoRawLogData, [Next]_vars
  PROVE  LogInv' /\ NoRawLogData'
<1>1. TypeOK
  BY DEF LogInv
<1> USE ConstantsAssumption
<1>2. ASSUME NEW t, t \in Texts \/ t = <<"text", "nl">>, logfunc(t),
             Len(pushed) <= MaxMessages, main \in {"serving", "closing"},
             main' = main \/ main' = "joining",
             UNCHANGED <<child, text, logger, closed, pipe, clientVars>>,
             main' # "joining" => Len(pushed) < MaxMessages
      PROVE  LogInv' /\ NoRawLogData'
  <2> DEFINE m == Message(child, Len(pushed) + 1, t)
  <2>1. Len(pushed) + 1 \in 1..(MaxMessages + 1) /\ child \in 1..MaxChildren
    BY <1>1, <1>2 DEF TypeOK
  <2>2. m \in Seq(Bytes) /\ m # <<>> /\ Flows(m) /\ m[1].ch = "text"
    BY <1>2, <2>1, MessageFlows
  <2>3. \/ queue' = Append(queue, m) /\ pushed' = Append(pushed, m)
        \/ UNCHANGED <<queue, pushed>>
    BY <1>2 DEF logfunc
  <2> HIDE DEF m
  <2>4. /\ queue' \in Seq(Seq(Bytes)) /\ pushed' \in Seq(Seq(Bytes))
        /\ Len(pushed') <= Len(pushed) + 1
    <3> DEFINE T == Seq(Bytes)
    <3>1. queue \in Seq(T) /\ pushed \in Seq(T) /\ m \in T
      BY <1>1, <2>2 DEF TypeOK
    <3> HIDE DEF T
    <3>2. CASE queue' = Append(queue, m) /\ pushed' = Append(pushed, m)
      <4>1. queue' \in Seq(T) /\ pushed' \in Seq(T)
        BY <3>1, <3>2, AppendProperties, Zenon
      <4>2. Len(pushed') = Len(pushed) + 1 /\ Len(pushed) \in Nat
        BY <3>1, <3>2
      <4> QED BY <4>1, <4>2 DEF T
    <3>3. CASE UNCHANGED <<queue, pushed>>
      <4>1. Len(pushed) \in Nat
        BY <3>1
      <4> QED BY <3>1, <3>3, <4>1 DEF T
    <3> QED BY <2>3, <3>2, <3>3
  <2>5. Len(pushed') <= MaxMessages + (IF main' \in {"serving", "closing"} THEN 0 ELSE 1)
    <3>1. Len(pushed) \in Nat /\ Len(pushed') \in Nat
      BY <1>1, <2>4, SMTT(30) DEF TypeOK
    <3> QED BY <1>2, <2>4, <3>1
  <2>6. TypeOK'
    BY <1>1, <1>2, <2>4, <2>5 DEF TypeOK, clientVars
  <2>7. UNCHANGED <<text, pipe, partialLogs, taken, lines>>
    BY <1>2 DEF clientVars
  <2>8. CASE queue' = Append(queue, m) /\ pushed' = Append(pushed, m)
    BY <2>2, <2>6, <2>7, <2>8, Queued
  <2>9. CASE UNCHANGED <<queue, pushed>>
    BY <2>6, <2>7, <2>9, TextsKept
  <2> QED BY <2>3, <2>8, <2>9
<1>3. CASE Log
  <2>1. PICK t \in Texts : logfunc(t)
    BY <1>3 DEF Log
  <2>2. /\ main = "serving" /\ Len(pushed) < MaxMessages
        /\ UNCHANGED <<child, text, logger, closed, main, pipe, clientVars>>
    BY <1>3 DEF Log
  <2>3. Len(pushed) <= MaxMessages
    BY <1>1, <2>2 DEF TypeOK
  <2> QED BY <1>2, <2>1, <2>2, <2>3
<1>4. CASE StopLoggingPush
  <2>1. /\ logfunc(<<"text", "nl">>) /\ main = "closing" /\ main' = "joining"
        /\ UNCHANGED <<child, text, logger, closed, pipe, clientVars>>
    BY <1>4 DEF StopLoggingPush, CloseMessage
  <2>2. Len(pushed) <= MaxMessages
    BY <1>1, <2>1 DEF TypeOK
  <2> QED BY <1>2, <2>1, <2>2
<1>5. CASE LoggerPop
  <2>1. queue # <<>> /\ queue \in Seq(Seq(Bytes)) /\ logger = "pop"
    BY <1>1, <1>5 DEF LoggerPop, TypeOK
  <2>2. queue' \in Seq(Seq(Bytes)) /\ text' \in Seq(Bytes)
    <3> DEFINE T == Seq(Bytes)
    <3>1. queue \in Seq(T)
      BY <2>1
    <3> HIDE DEF T
    <3>2. queue' \in Seq(T) /\ text' \in T
      BY <1>5, <2>1, <3>1 DEF LoggerPop
    <3> QED BY <3>2 DEF T
  <2>3. text' # <<>>
    <3>1. 1 \in DOMAIN queue /\ text' = queue[1]
      BY <1>5, <2>1 DEF LoggerPop
    <3> QED BY <3>1 DEF LogInv
  <2>4. TypeOK'
    BY <1>1, <1>5, <2>2, <2>3 DEF TypeOK, LoggerPop, clientVars
  <2>5. UNCHANGED <<pushed, partialLogs, taken, lines>>
    BY <1>5 DEF LoggerPop, clientVars
  <2> QED BY <1>5, <2>4, <2>5, StreamMoves
<1>6. CASE LoggerEnters
  <2>1. UNCHANGED <<pushed, queue, text, pipe, partialLogs, taken, lines>>
    BY <1>6 DEF LoggerEnters, clientVars
  <2>2. TypeOK'
    BY <1>1, <1>6 DEF TypeOK, LoggerEnters, clientVars
  <2> QED BY <2>1, <2>2, TextsKept
<1>7. ASSUME NEW n \in 1..Len(text), LoggerWrites(n) PROVE LogInv' /\ NoRawLogData'
  <2>1. /\ pipe \in Seq(Bytes) /\ text \in Seq(Bytes) /\ Len(text) \in Nat
        /\ pipe' = pipe \o SubSeq(text, 1, n) /\ text' = SubSeq(text, n + 1, Len(text))
        /\ logger' = IF n = Len(text) THEN "pop" ELSE "fwrite"
        /\ UNCHANGED <<child, pushed, queue, closed, main, partialLogs, taken, lines>>
    BY <1>1, <1>7 DEF LoggerWrites, clientVars, TypeOK
  <2>2. n \in 0..Len(text)
    BY <2>1
  <2>3. /\ SubSeq(text, 1, n) \in Seq(Bytes) /\ text' \in Seq(Bytes) /\ Len(text') = Len(text) - n
    BY <2>1, <2>2, Cut
  <2>4. pipe' \in Seq(Bytes)
    BY <2>1, <2>3
  <2>5. (n = Len(text) => text' = <<>>) /\ (n # Len(text) => text' # <<>>)
    <3>1. text' = <<>> <=> Len(text') = 0
      BY <2>3, EmptySeq
    <3> QED BY <2>1, <2>3, <3>1
  <2>6. TypeOK'
    BY <1>1, <2>1, <2>3, <2>4, <2>5 DEF TypeOK
  <2> QED BY <1>7, <2>1, <2>6, StreamMoves
<1>8. CASE StopLogging \/ StopLoggingJoin \/ Crash
  <2>1. UNCHANGED <<child, pushed, queue, text, logger, pipe, partialLogs, taken, lines>>
    BY <1>8 DEF StopLogging, StopLoggingJoin, Crash, clientVars
  <2>2. /\ closed' \in BOOLEAN /\ main' \in {"closing", "exited", "crashed"}
        /\ main' = "closing" => main = "serving"
    BY <1>1, <1>8 DEF StopLogging, StopLoggingJoin, Crash, TypeOK
  <2>3. Len(pushed') <= MaxMessages + (IF main' \in {"serving", "closing"} THEN 0 ELSE 1)
    BY <1>1, <2>1, <2>2 DEF TypeOK
  <2>4. TypeOK'
    BY <1>1, <2>1, <2>2, <2>3 DEF TypeOK
  <2> QED BY <2>1, <2>4, TextsKept
<1>9. ASSUME NEW n \in 1..ReadSize, ClientReads(n) PROVE LogInv' /\ NoRawLogData'
  BY <1>9, Reads
<1>10. CASE ClientRestarts
  <2>1. /\ child' = child + 1 /\ child < MaxChildren /\ pushed' = <<>> /\ queue' = <<>>
        /\ text' = <<>> /\ logger' = "pop" /\ closed' = FALSE /\ main' = "serving"
        /\ pipe' = <<>> /\ partialLogs' = <<>> /\ taken' = 0 /\ lines' = <<>>
    BY <1>10 DEF ClientRestarts, ResetPartial
  <2>2. child' \in 1..MaxChildren
    BY <1>1, <2>1 DEF TypeOK
  <2>3. /\ pushed' \in Seq(Seq(Bytes)) /\ queue' \in Seq(Seq(Bytes)) /\ lines' \in Seq(Seq(Bytes))
        /\ text' \in Seq(Bytes) /\ pipe' \in Seq(Bytes) /\ partialLogs' \in Seq(Bytes)
    BY <2>1, NoBytes, Zenon
  <2>4. /\ Len(pushed') <= MaxMessages + (IF main' \in {"serving", "closing"} THEN 0 ELSE 1)
        /\ \A i \in DOMAIN lines' : FALSE
    <3>1. Len(pushed') = 0
      BY <2>1, NoBytes, Zenon
    <3>2. \A i \in DOMAIN lines' : FALSE
      BY <2>1, NoBytes, Zenon
    <3> QED BY <2>1, <3>1, <3>2
  <2>5. TypeOK'
    BY <2>1, <2>2, <2>3, <2>4 DEF TypeOK
  <2>6. Stream' = <<>> /\ \A i \in DOMAIN queue' : FALSE
    BY <2>1, NoBytes, Zenon DEF Stream
  <2>7. Flows(Stream')
    BY <2>6, NoBytes DEF Flows
  <2>8. Logged' = <<>> /\ FlattenSeq(lines') = <<>> /\ FlattenSeq(queue') = <<>>
    BY <2>1, FlattenEmpty, Zenon DEF Logged
  <2>9. /\ taken' <= Len(Logged')
        /\ pipe' \o text' \o FlattenSeq(queue') = SubSeq(Logged', taken' + 1, Len(Logged'))
        /\ FlattenSeq(lines') \o partialLogs' = SubSeq(Logged', 1, taken')
    BY <2>1, <2>8, NoBytes, Zenon
  <2> QED BY <2>4, <2>5, <2>6, <2>7, <2>9, Zenon DEF LogInv, NoRawLogData
<1>11. CASE UNCHANGED vars
  <2>1. TypeOK'
    BY <1>1, <1>11 DEF TypeOK, vars
  <2> QED BY <1>11, <2>1, TextsKept DEF vars
<1> QED BY <1>3, <1>4, <1>5, <1>6, <1>7, <1>8, <1>9, <1>10, <1>11 DEF Next

\* At the start nothing was logged.
LEMMA LogStart ==
  ASSUME Init
  PROVE  LogInv /\ NoRawLogData
<1>1. TypeOK
  <2>1. /\ pushed \in Seq(Seq(Bytes)) /\ queue \in Seq(Seq(Bytes)) /\ lines \in Seq(Seq(Bytes))
        /\ text \in Seq(Bytes) /\ pipe \in Seq(Bytes) /\ partialLogs \in Seq(Bytes)
    BY NoBytes, Zenon DEF Init
  <2>2. Len(pushed) = 0 /\ \A i \in DOMAIN lines : FALSE
    BY NoBytes, Zenon DEF Init
  <2>3. /\ child = 1 /\ taken = 0 /\ logger = "pop" /\ main = "serving" /\ closed = FALSE
        /\ text = <<>> /\ partialLogs = <<>>
    BY DEF Init
  <2>4. 1 \in 1..MaxChildren
    BY ConstantsAssumption
  <2>5. Len(pushed) <= MaxMessages + (IF main \in {"serving", "closing"} THEN 0 ELSE 1)
    BY <2>2, <2>3, ConstantsAssumption
  <2> QED BY <2>1, <2>2, <2>3, <2>4, <2>5 DEF TypeOK
<1>2. /\ pushed = <<>> /\ queue = <<>> /\ text = <<>> /\ pipe = <<>> /\ partialLogs = <<>>
      /\ taken = 0 /\ lines = <<>>
  BY DEF Init
<1>3. Stream = <<>> /\ \A i \in DOMAIN queue : FALSE
  BY <1>2, NoBytes, Zenon DEF Stream
<1>4. Flows(Stream) /\ NoRawLogData
  BY <1>2, <1>3, NoBytes, Zenon DEF Flows, NoRawLogData
<1>5. Logged = <<>> /\ FlattenSeq(lines) = <<>> /\ FlattenSeq(queue) = <<>>
  BY <1>2, FlattenEmpty, Zenon DEF Logged
<1>6. /\ taken <= Len(Logged)
      /\ pipe \o text \o FlattenSeq(queue) = SubSeq(Logged, taken + 1, Len(Logged))
      /\ FlattenSeq(lines) \o partialLogs = SubSeq(Logged, 1, taken)
  BY <1>2, <1>5, NoBytes, Zenon
<1> QED BY <1>1, <1>3, <1>4, <1>6 DEF LogInv

\* LogInv, the inductive invariant of logging, always holds, and no reported line holds bytes
\* of two messages.
THEOREM LogInvariance == Spec => [](LogInv /\ NoRawLogData)
<1>1. Init => LogInv /\ NoRawLogData
  BY LogStart
<1>2. LogInv /\ NoRawLogData /\ [Next]_vars => (LogInv /\ NoRawLogData)'
  BY LogStep
<1> QED BY <1>1, <1>2, PTL DEF Spec

\* NoRawLogData: whatever is logged, with "\r" and "\n" anywhere in a message, however the
\* reads of the client cut it and whenever the child dies, no reported line holds bytes of two
\* messages, the "\n" behind a "\r" excepted.
THEOREM LinesOfOneMessage == Spec => []NoRawLogData
BY LogInvariance, PTL

\* ReportedInOrder: what the client reports of a child are its messages as they were queued,
\* unless it has read a "\r" without a "\n" of it.
THEOREM LinesInOrder == Spec => []ReportedInOrder
<1>1. LogInv => ReportedInOrder
  BY DEF LogInv, ReportedInOrder
<1> QED BY <1>1, LogInvariance, PTL
=============================================================================
