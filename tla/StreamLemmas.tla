---------------------------- MODULE StreamLemmas ----------------------------
(***************************************************************************)
(* Facts about numbers and about texts joined to a stream, by FlattenSeq() *)
(* and by pieces, for the proofs about framing, base64, logging and JSON.  *)
(***************************************************************************)
EXTENDS Integers, Sequences, SequencesExt, SequenceTheorems, WellFoundedInduction, TLAPS

-----------------------------------------------------------------------------
(* Numbers, and texts joined to a stream *)

\* A set of natural numbers has a smallest element.
LEMMA NatMin ==
  ASSUME NEW S, S \subseteq Nat, S # {}
  PROVE  \E x \in S : \A y \in S : x <= y
<1> DEFINE R == {ss \in Nat \X Nat : ss[1] < ss[2]}
<1>1. IsWellFoundedOn(R, Nat)
  BY NatLessThanWellFounded DEF OpToRel
<1>2. \A x, y \in Nat : y < x => <<y, x>> \in R
  OBVIOUS
<1> HIDE DEF R
<1>3. PICK x \in S : \A y \in S : ~(<<y, x>> \in R)
  BY <1>1, WFMin
<1>4. \A y \in S : ~(y < x)
  BY <1>2, <1>3
<1>5. x \in Nat /\ \A y \in S : y \in Nat
  OBVIOUS
<1> QED BY <1>4, <1>5

\* A set of numbers that holds 0 and the successor of each of its elements holds them all.
LEMMA Induction ==
  ASSUME NEW S, 0 \in S, \A k \in Nat : k \in S => k + 1 \in S
  PROVE  Nat \subseteq S
<1> DEFINE T == Nat \ S
<1> SUFFICES ASSUME T # {} PROVE FALSE
  OBVIOUS
<1>1. PICK x \in T : \A y \in T : x <= y
  <2>1. T \subseteq Nat
    OBVIOUS
  <2> HIDE DEF T
  <2> QED BY <2>1, NatMin
<1>2. x \in Nat /\ x # 0
  OBVIOUS
<1>3. x - 1 \in Nat /\ ~(x <= x - 1) /\ x - 1 + 1 = x
  BY <1>2
<1>4. x - 1 \in S
  BY <1>1, <1>3
<1> QED BY <1>1, <1>3, <1>4

\* f holds what FlattenSeq() has joined after each of the first k texts.
JoinsTo(f, s, k) == f = [i \in 1..k |-> IF i = 1 THEN s[i] ELSE f[i - 1] \o s[i]]

\* There is such a function.
LEMMA JoinedExists ==
  ASSUME NEW s, NEW k \in Nat
  PROVE  \E f : JoinsTo(f, s, k)
<1> DEFINE S == {j \in Nat : \E f : JoinsTo(f, s, j)}
<1>1. 0 \in S
  <2>1. JoinsTo(<<>>, s, 0)
    BY DEF JoinsTo
  <2> QED
    BY <2>1
<1>2. ASSUME NEW j \in Nat, j \in S PROVE j + 1 \in S
  <2>1. PICK f : JoinsTo(f, s, j)
    BY <1>2
  <2> DEFINE g == [i \in 1..j + 1 |-> IF i <= j THEN f[i] ELSE
                                      IF i = 1 THEN s[i] ELSE f[i - 1] \o s[i]]
  <2>2. \A i \in 1..j : f[i] = IF i = 1 THEN s[i] ELSE f[i - 1] \o s[i]
    BY <2>1 DEF JoinsTo
  <2>3. \A i \in 1..j + 1 : g[i] = IF i = 1 THEN s[i] ELSE g[i - 1] \o s[i]
    BY <2>2
  <2> HIDE DEF g
  <2>4. g = [i \in 1..j + 1 |-> g[i]]
    BY DEF g
  <2>5. JoinsTo(g, s, j + 1)
    BY <2>3, <2>4 DEF JoinsTo
  <2> QED
    BY <2>5
<1>3. Nat \subseteq S
  <2> HIDE DEF S
  <2> QED
    BY <1>1, <1>2, Induction
<1> QED
  BY <1>3

\* Each of its values has one text more than the one before.
LEMMA JoinedStep ==
  ASSUME NEW f, NEW s, NEW k \in Nat, JoinsTo(f, s, k)
  PROVE  \A i \in 1..k : f[i] = IF i = 1 THEN s[i] ELSE f[i - 1] \o s[i]
BY DEF JoinsTo

\* What it holds is a sequence, and depends on the texts joined so far alone.
LEMMA JoinedType ==
  ASSUME NEW U, NEW s \in Seq(Seq(U)), NEW f, JoinsTo(f, s, Len(s))
  PROVE  \A i \in 1..Len(s) : f[i] \in Seq(U)
<1> DEFINE S == {h \in Nat : h \in 1..Len(s) => f[h] \in Seq(U)}
<1>1. 0 \in S
  OBVIOUS
<1>2. ASSUME NEW h \in Nat, h \in S PROVE h + 1 \in S
  <2> SUFFICES ASSUME h + 1 \in 1..Len(s) PROVE f[h + 1] \in Seq(U)
    OBVIOUS
  <2>1. f[h + 1] = IF h + 1 = 1 THEN s[h + 1] ELSE f[h + 1 - 1] \o s[h + 1]
    <3>1. Len(s) \in Nat
      OBVIOUS
    <3> QED
      BY <3>1, JoinedStep
  <2>2. s[h + 1] \in Seq(U) /\ h + 1 - 1 = h
    OBVIOUS
  <2>3. CASE h = 0
    BY <2>1, <2>2, <2>3
  <2>4. CASE h # 0
    <3>1. f[h] \in Seq(U)
      BY <1>2, <2>4
    <3>2. f[h] \o s[h + 1] \in Seq(U)
      BY <2>2, <3>1
    <3> QED
      BY <2>1, <2>2, <2>4, <3>2
  <2> QED
    BY <2>3, <2>4
<1>3. Nat \subseteq S
  <2> HIDE DEF S
  <2> QED
    BY <1>1, <1>2, Induction
<1> QED
  BY <1>3

\* The same of two sequences that begin alike.
LEMMA JoinedUnique ==
  ASSUME NEW f, NEW g, NEW s, NEW t, NEW j \in Nat, NEW k \in Nat,
         JoinsTo(f, s, j), JoinsTo(g, t, k), j <= k, \A i \in 1..j : s[i] = t[i]
  PROVE  \A i \in 1..j : f[i] = g[i]
<1> DEFINE S == {h \in Nat : h \in 1..j => f[h] = g[h]}
<1>1. 0 \in S
  OBVIOUS
<1>2. ASSUME NEW h \in Nat, h \in S PROVE h + 1 \in S
  <2> SUFFICES ASSUME h + 1 \in 1..j PROVE f[h + 1] = g[h + 1]
    OBVIOUS
  <2>1. h + 1 \in 1..j /\ h + 1 \in 1..k
    OBVIOUS
  <2>2. /\ f[h + 1] = IF h + 1 = 1 THEN s[h + 1] ELSE f[h + 1 - 1] \o s[h + 1]
        /\ g[h + 1] = IF h + 1 = 1 THEN t[h + 1] ELSE g[h + 1 - 1] \o t[h + 1]
    BY <2>1, JoinedStep
  <2>3. s[h + 1] = t[h + 1] /\ h + 1 - 1 = h
    BY <2>1
  <2>4. CASE h = 0
    BY <2>2, <2>3, <2>4
  <2>5. CASE h # 0
    BY <1>2, <2>1, <2>2, <2>3, <2>5
  <2> QED
    BY <2>4, <2>5
<1>3. Nat \subseteq S
  <2> HIDE DEF S
  <2> QED
    BY <1>1, <1>2, Induction
<1> QED
  BY <1>3

\* FlattenSeq() joins all.
LEMMA FlattenJoined ==
  ASSUME NEW U, NEW s \in Seq(Seq(U)), s # <<>>
  PROVE  \E f : JoinsTo(f, s, Len(s)) /\ FlattenSeq(s) = f[Len(s)]
<1>1. Len(s) \in Nat /\ Len(s) # 0
  OBVIOUS
<1>2. \E f : JoinsTo(f, s, Len(s))
  BY <1>1, JoinedExists
<1> DEFINE f == CHOOSE f : f = [i \in 1..Len(s) |-> IF i = 1 THEN s[i] ELSE f[i - 1] \o s[i]]
<1>3. JoinsTo(f, s, Len(s))
  BY <1>2 DEF JoinsTo
<1>4. FlattenSeq(s) = f[Len(s)]
  BY <1>1 DEF FlattenSeq
<1> QED
  BY <1>3, <1>4

\* The stream of no texts is empty.
LEMMA FlattenEmpty == FlattenSeq(<<>>) = <<>>
BY DEF FlattenSeq

\* A stream is made of what its texts are made of.
LEMMA FlattenType ==
  ASSUME NEW U, NEW s \in Seq(Seq(U))
  PROVE  FlattenSeq(s) \in Seq(U)
<1>1. CASE s = <<>>
  <2>1. <<>> \in Seq(U)
    OBVIOUS
  <2>2. FlattenSeq(s) = <<>>
    BY <1>1, FlattenEmpty, Zenon
  <2> QED
    BY <2>1, <2>2
<1>2. CASE s # <<>>
  <2>1. PICK f : JoinsTo(f, s, Len(s)) /\ FlattenSeq(s) = f[Len(s)]
    BY <1>2, FlattenJoined
  <2>2. Len(s) \in 1..Len(s)
    BY <1>2
  <2> QED
    BY <2>1, <2>2, JoinedType
<1> QED
  BY <1>1, <1>2

\* The stream of one text is that text.
LEMMA FlattenOne ==
  ASSUME NEW U, NEW t \in Seq(U)
  PROVE  FlattenSeq(<<t>>) = t
<1>1. <<t>> \in Seq(Seq(U)) /\ <<t>> # <<>> /\ Len(<<t>>) = 1 /\ <<t>>[1] = t
  OBVIOUS
<1>2. PICK f : JoinsTo(f, <<t>>, 1) /\ FlattenSeq(<<t>>) = f[1]
  BY <1>1, FlattenJoined
<1> QED
  BY <1>2 DEF JoinsTo

\* A text more comes at the end of the stream.
LEMMA FlattenAppend ==
  ASSUME NEW U, NEW s \in Seq(Seq(U)), NEW t \in Seq(U)
  PROVE  FlattenSeq(Append(s, t)) = FlattenSeq(s) \o t
<1> DEFINE u == Append(s, t)
<1>1. /\ u \in Seq(Seq(U)) /\ u # <<>> /\ Len(u) = Len(s) + 1
      /\ Len(s) \in Nat /\ u[Len(s) + 1] = t /\ \A i \in 1..Len(s) : s[i] = u[i]
  <2> DEFINE T == Seq(U)
  <2>1. t \in T /\ s \in Seq(T)
    OBVIOUS
  <2> HIDE DEF T
  <2>2. /\ Append(s, t) \in Seq(T) /\ Len(Append(s, t)) = Len(s) + 1 /\ Len(s) \in Nat
        /\ Append(s, t)[Len(s) + 1] = t
        /\ \A i \in 1..Len(s) : Append(s, t)[i] = s[i]
    BY <2>1, AppendProperties
  <2>3. Append(s, t) # <<>>
    BY <2>2
  <2> QED
    BY <2>2, <2>3 DEF T
<1>2. CASE s = <<>>
  <2>1. u = <<t>>
    BY <1>2
  <2>2. <<>> \o t = t
    OBVIOUS
  <2> QED
    BY <1>2, <2>1, <2>2, FlattenOne, FlattenEmpty
<1>3. CASE s # <<>>
  <2> HIDE DEF u
  <2>1. PICK f : JoinsTo(f, s, Len(s)) /\ FlattenSeq(s) = f[Len(s)]
    BY <1>3, FlattenJoined
  <2>2. PICK g : JoinsTo(g, u, Len(u)) /\ FlattenSeq(u) = g[Len(u)]
    BY <1>1, FlattenJoined
  <2>3. Len(s) <= Len(u) /\ Len(u) \in Nat /\ Len(s) \in 1..Len(s)
    <3>1. Len(s) \in Nat /\ Len(u) = Len(s) + 1
      BY <1>1
    <3>2. Len(s) # 0
      BY <1>3, EmptySeq
    <3> QED
      BY <3>1, <3>2
  <2>4. f[Len(s)] = g[Len(s)]
    <3>1. Len(s) \in Nat /\ \A i \in 1..Len(s) : s[i] = u[i]
      BY <1>1
    <3>2. \A i \in 1..Len(s) : f[i] = g[i]
      BY <2>1, <2>2, <2>3, <3>1, JoinedUnique, Zenon
    <3> QED
      BY <2>3, <3>2, Zenon
  <2>5. g[Len(u)] = g[Len(s)] \o t
    <3>1. \A i \in 1..Len(u) : g[i] = IF i = 1 THEN u[i] ELSE g[i - 1] \o u[i]
      BY <2>2, <2>3, JoinedStep, Zenon
    <3>2. PICK i \in 1..Len(u) : i = Len(u)
      BY <1>1
    <3>3. i # 1 /\ i - 1 = Len(s)
      BY <1>1, <2>3, <3>2
    <3>4. g[i] = g[Len(s)] \o u[i]
      BY <3>1, <3>3
    <3> QED
      BY <1>1, <3>2, <3>4
  <2>6. FlattenSeq(u) = FlattenSeq(s) \o t
    BY <2>1, <2>2, <2>4, <2>5
  <2> QED
    BY <2>6 DEF u
<1> QED
  BY <1>2, <1>3

\* A sequence that is not empty is its front and its last element.
LEMMA FrontAndLast ==
  ASSUME NEW T, NEW s \in Seq(T), NEW n \in Nat, Len(s) = n + 1
  PROVE  /\ SubSeq(s, 1, n) \in Seq(T) /\ Len(SubSeq(s, 1, n)) = n /\ s[n + 1] \in T
         /\ s = Append(SubSeq(s, 1, n), s[n + 1])
         /\ n > 0 => /\ SubSeq(s, 1, n)[1] = s[1]
                     /\ Tail(s) = Append(Tail(SubSeq(s, 1, n)), s[n + 1])
<1>1. /\ SubSeq(s, 1, n) \in Seq(T) /\ Len(SubSeq(s, 1, n)) = n /\ s[n + 1] \in T
      /\ \A i \in 1..n : SubSeq(s, 1, n)[i] = s[i]
  OBVIOUS
<1> DEFINE f == SubSeq(s, 1, n)
<1> HIDE DEF f
<1>2. /\ f \in Seq(T) /\ Len(f) = n /\ s[n + 1] \in T /\ \A i \in 1..n : f[i] = s[i]
  BY <1>1 DEF f
<1>3. s = Append(f, s[n + 1])
  BY <1>2
<1>4. n > 0 => f[1] = s[1] /\ Tail(s) = Append(Tail(f), s[n + 1])
  <2> SUFFICES ASSUME n > 0 PROVE f[1] = s[1] /\ Tail(s) = Append(Tail(f), s[n + 1])
    OBVIOUS
  <2>1. /\ Tail(s) \in Seq(T) /\ Len(Tail(s)) = n /\ \A i \in 1..n : Tail(s)[i] = s[i + 1]
    OBVIOUS
  <2>2. /\ Tail(f) \in Seq(T) /\ Len(Tail(f)) = n - 1
        /\ \A i \in 1..(n - 1) : Tail(f)[i] = f[i + 1]
    BY <1>2
  <2>3. /\ Append(Tail(f), s[n + 1]) \in Seq(T) /\ Len(Append(Tail(f), s[n + 1])) = n
        /\ \A i \in 1..n : Append(Tail(f), s[n + 1])[i] = s[i + 1]
    BY <1>2, <2>2
  <2> QED
    BY <1>2, <2>1, <2>3
<1> QED
  BY <1>2, <1>3, <1>4 DEF f

\* A sequence of one element is that element.
LEMMA Singleton ==
  ASSUME NEW T, NEW q \in Seq(T), Len(q) = 1
  PROVE  q = <<q[1]>> /\ Tail(q) = <<>> /\ q[1] \in T
<1>1. q[1] \in T
  OBVIOUS
<1>2. Tail(q) = <<>>
  <2>0. Len(<<>>) = 0
    OBVIOUS
  <2>1. q # <<>>
    <3> SUFFICES ASSUME q = <<>> PROVE FALSE
      OBVIOUS
    <3>1. Len(q) = 0
      BY <2>0, Zenon
    <3> QED
      BY <3>1
  <2>2. Tail(q) \in Seq(T) /\ Len(Tail(q)) = 0
    BY <2>1, HeadTailProperties
  <2> QED
    BY <2>2, EmptySeq
<1>3. q = <<q[1]>>
  <2>1. Len(<<q[1]>>) = 1 /\ <<q[1]>> \in Seq(T)
    BY <1>1
  <2> QED
    BY <2>1
<1> QED
  BY <1>1, <1>2, <1>3

\* A stream begins with its first text.
LEMMA FlattenFirst ==
  ASSUME NEW U, NEW s \in Seq(Seq(U)), s # <<>>
  PROVE  FlattenSeq(s) = s[1] \o FlattenSeq(Tail(s))
<1>0. \A x, y, z \in Seq(U) : (x \o y) \o z = x \o (y \o z)
  BY ConcatAssociative, SMTT(90)
<1> DEFINE Holds(q) == FlattenSeq(q) = q[1] \o FlattenSeq(Tail(q))
           S == {n \in Nat : \A q \in Seq(Seq(U)) : Len(q) = n + 1 => Holds(q)}
<1>1. 0 \in S
  <2> SUFFICES ASSUME NEW q \in Seq(Seq(U)), Len(q) = 1 PROVE Holds(q)
    OBVIOUS
  <2> DEFINE T == Seq(U)
  <2> HIDE DEF T
  <2>0. q \in Seq(T)
    BY DEF T
  <2>1. q = <<q[1]>> /\ Tail(q) = <<>> /\ q[1] \in Seq(U)
    <3>1. q = <<q[1]>> /\ Tail(q) = <<>> /\ q[1] \in T
      BY <2>0, Singleton
    <3> QED
      BY <3>1 DEF T
  <2>2. FlattenSeq(q) = q[1]
    BY <2>1, FlattenOne, Zenon
  <2>3. q[1] \o <<>> = q[1]
    BY <2>1
  <2> QED
    BY <2>1, <2>2, <2>3, FlattenEmpty
<1>2. ASSUME NEW n \in Nat, n \in S PROVE n + 1 \in S
  <2> SUFFICES ASSUME NEW q \in Seq(Seq(U)), Len(q) = n + 1 + 1 PROVE Holds(q)
    OBVIOUS
  <2> DEFINE m == n + 1
             f == SubSeq(q, 1, m)
             t == q[m + 1]
  <2>1. m \in Nat /\ Len(q) = m + 1 /\ m > 0
    OBVIOUS
  <2>2. /\ f \in Seq(Seq(U)) /\ Len(f) = m /\ t \in Seq(U)
        /\ q = Append(f, t) /\ f[1] = q[1] /\ Tail(q) = Append(Tail(f), t)
    <3> HIDE DEF m
    <3> QED
      BY <2>1, FrontAndLast, ZenonT(90)
  <2> HIDE DEF m, f, t
  <2>3. Holds(f)
    BY <1>2, <2>2 DEF m
  <2>4. f # <<>> /\ f[1] \in Seq(U) /\ Tail(f) \in Seq(Seq(U))
    BY <2>1, <2>2
  <2>5. FlattenSeq(q) = FlattenSeq(f) \o t
    BY <2>2, FlattenAppend
  <2>6. FlattenSeq(Tail(q)) = FlattenSeq(Tail(f)) \o t
    BY <2>2, <2>4, FlattenAppend
  <2>7. FlattenSeq(Tail(f)) \in Seq(U)
    BY <2>4, FlattenType
  <2>8. (f[1] \o FlattenSeq(Tail(f))) \o t = f[1] \o (FlattenSeq(Tail(f)) \o t)
    BY <1>0, <2>2, <2>4, <2>7, Zenon
  <2> QED
    BY <2>2, <2>3, <2>5, <2>6, <2>8
<1>3. Nat \subseteq S
  <2> HIDE DEF S
  <2> QED
    BY <1>1, <1>2, Induction
<1>4. Len(s) - 1 \in Nat /\ Len(s) = Len(s) - 1 + 1
  OBVIOUS
<1>5. Len(s) - 1 \in S
  BY <1>3, <1>4
<1> QED
  BY <1>4, <1>5

\* The stream of two sequences of texts is the stream of the one and that of the other.
LEMMA FlattenConcat ==
  ASSUME NEW U, NEW s \in Seq(Seq(U)), NEW t \in Seq(Seq(U))
  PROVE  FlattenSeq(s \o t) = FlattenSeq(s) \o FlattenSeq(t)
<1>0. \A x, y, z \in Seq(U) : (x \o y) \o z = x \o (y \o z)
  BY ConcatAssociative, SMTT(30)
<1> DEFINE Holds(q) == FlattenSeq(s \o q) = FlattenSeq(s) \o FlattenSeq(q)
           S == {n \in Nat : \A q \in Seq(Seq(U)) : Len(q) = n => Holds(q)}
<1>1. 0 \in S
  <2> SUFFICES ASSUME NEW q \in Seq(Seq(U)), Len(q) = 0 PROVE Holds(q)
    OBVIOUS
  <2>1. q = <<>>
    BY EmptySeq
  <2>2. s \o <<>> = s
    OBVIOUS
  <2>3. FlattenSeq(s) \in Seq(U)
    BY FlattenType
  <2>4. FlattenSeq(s) \o <<>> = FlattenSeq(s)
    BY <2>3
  <2> QED BY <2>1, <2>2, <2>4, FlattenEmpty
<1>2. ASSUME NEW n \in Nat, n \in S PROVE n + 1 \in S
  <2> SUFFICES ASSUME NEW q \in Seq(Seq(U)), Len(q) = n + 1 PROVE Holds(q)
    OBVIOUS
  <2> DEFINE T == Seq(U)
  <2> HIDE DEF T
  <2>0. q \in Seq(T) /\ s \in Seq(T)
    BY DEF T
  <2> DEFINE f == SubSeq(q, 1, n)
             x == q[n + 1]
  <2>1. f \in Seq(T) /\ Len(f) = n /\ x \in T /\ q = Append(f, x)
    BY <2>0, FrontAndLast
  <2> HIDE DEF f, x
  <2>2. s \o Append(f, x) = Append(s \o f, x) /\ s \o f \in Seq(T)
    BY <2>0, <2>1, SMTT(30)
  <2>3. f \in Seq(Seq(U)) /\ s \o f \in Seq(Seq(U)) /\ x \in Seq(U)
    BY <2>1, <2>2 DEF T
  <2>4. FlattenSeq(s \o f) = FlattenSeq(s) \o FlattenSeq(f)
    BY <1>2, <2>1, <2>3
  <2>5. FlattenSeq(q) = FlattenSeq(f) \o x
    BY <2>1, <2>3, FlattenAppend, Zenon
  <2>6. FlattenSeq(s \o q) = FlattenSeq(s \o f) \o x
    BY <2>1, <2>2, <2>3, FlattenAppend, Zenon
  <2>7. FlattenSeq(s) \in Seq(U) /\ FlattenSeq(f) \in Seq(U)
    BY <2>3, FlattenType
  <2>8. (FlattenSeq(s) \o FlattenSeq(f)) \o x = FlattenSeq(s) \o (FlattenSeq(f) \o x)
    BY <1>0, <2>3, <2>7, Zenon
  <2> QED BY <2>4, <2>5, <2>6, <2>8
<1>3. Nat \subseteq S
  <2> HIDE DEF S
  <2> QED BY <1>1, <1>2, Induction
<1>4. Len(t) \in S
  BY <1>3
<1> QED BY <1>4

-----------------------------------------------------------------------------
(* Pieces of a stream *)

\* A sequence cut anywhere is its two parts.
LEMMA Cut ==
  ASSUME NEW U, NEW d \in Seq(U), NEW n \in 0..Len(d)
  PROVE  /\ SubSeq(d, 1, n) \in Seq(U) /\ Len(SubSeq(d, 1, n)) = n
         /\ SubSeq(d, n + 1, Len(d)) \in Seq(U) /\ Len(SubSeq(d, n + 1, Len(d))) = Len(d) - n
         /\ SubSeq(d, 1, n) \o SubSeq(d, n + 1, Len(d)) = d
<1>1. SubSeq(d, 1, n) \in Seq(U) /\ Len(SubSeq(d, 1, n)) = n
  OBVIOUS
<1>2. SubSeq(d, n + 1, Len(d)) \in Seq(U) /\ Len(SubSeq(d, n + 1, Len(d))) = Len(d) - n
  OBVIOUS
<1>3. 1 \in 1..Len(d) + 1 /\ n \in 1 - 1..Len(d) /\ Len(d) \in n..Len(d)
  OBVIOUS
<1>4. SubSeq(d, 1, n) \o SubSeq(d, n + 1, Len(d)) = SubSeq(d, 1, Len(d))
  BY <1>3, ConcatAdjacentSubSeq
<1>5. SubSeq(d, 1, Len(d)) = d
  BY SubSeqFull
<1> QED
  BY <1>1, <1>2, <1>4, <1>5

\* A piece written moves from what is to be written to what is in the pipe.
LEMMA WritePiece ==
  ASSUME NEW U, NEW p \in Seq(U), NEW d \in Seq(U), NEW n \in 1..Len(d)
  PROVE  /\ p \o SubSeq(d, 1, n) \in Seq(U) /\ SubSeq(d, n + 1, Len(d)) \in Seq(U)
         /\ Len(p \o SubSeq(d, 1, n)) = Len(p) + n
         /\ (p \o SubSeq(d, 1, n)) \o SubSeq(d, n + 1, Len(d)) = p \o d
<1> DEFINE a == SubSeq(d, 1, n)
           b == SubSeq(d, n + 1, Len(d))
<1>1. n \in 0..Len(d)
  OBVIOUS
<1>2. a \in Seq(U) /\ Len(a) = n /\ b \in Seq(U) /\ a \o b = d
  BY <1>1, Cut
<1> HIDE DEF a, b
<1>3. (p \o a) \o b = p \o (a \o b)
  <2>1. a \in Seq(U) /\ b \in Seq(U)
    BY <1>2
  <2> QED
    BY <2>1, ConcatAssociative, SMTT(90)
<1>4. p \o a \in Seq(U) /\ Len(p \o a) = Len(p) + n
  BY <1>2, ConcatProperties
<1> QED
  BY <1>2, <1>3, <1>4 DEF a, b

\* Two streams that are the same and cut at the same place have the same parts.
LEMMA SameParts ==
  ASSUME NEW U, NEW f \in Seq(U), NEW g \in Seq(U), NEW t \in Seq(U), NEW rest \in Seq(U),
         f \o g = t \o rest, Len(f) = Len(t)
  PROVE  f = t /\ g = rest
<1> DEFINE h == f \o g
<1>1. /\ Len(h) = Len(f) + Len(g)
      /\ \A i \in 1..Len(f) + Len(g) : h[i] = IF i <= Len(f) THEN f[i] ELSE g[i - Len(f)]
  BY ConcatProperties, Zenon
<1>2. /\ Len(h) = Len(t) + Len(rest)
      /\ \A i \in 1..Len(t) + Len(rest) : h[i] = IF i <= Len(t) THEN t[i] ELSE rest[i - Len(t)]
  <2>1. h = t \o rest
    OBVIOUS
  <2> HIDE DEF h
  <2>2. /\ Len(t \o rest) = Len(t) + Len(rest)
        /\ \A i \in 1..Len(t) + Len(rest) :
             (t \o rest)[i] = IF i <= Len(t) THEN t[i] ELSE rest[i - Len(t)]
    BY ConcatProperties, Zenon
  <2> QED
    BY <2>1, <2>2
<1> HIDE DEF h
<1>3. Len(f) \in Nat /\ Len(g) \in Nat /\ Len(t) \in Nat /\ Len(rest) \in Nat
  OBVIOUS
<1>4. Len(g) = Len(rest)
  BY <1>1, <1>2, <1>3
<1>5. \A i \in 1..Len(f) : f[i] = t[i]
  BY <1>1, <1>2, <1>3, <1>4
<1>6. \A i \in 1..Len(g) : g[i] = rest[i]
  <2> TAKE i \in 1..Len(g)
  <2>1. Len(f) + i \in 1..Len(f) + Len(g) /\ ~(Len(f) + i <= Len(f)) /\ Len(f) + i - Len(f) = i
    BY <1>3
  <2>2. h[Len(f) + i] = g[i]
    BY <1>1, <2>1
  <2>3. h[Len(f) + i] = rest[i]
    BY <1>2, <1>3, <1>4, <2>1, SMTT(30)
  <2> QED
    BY <2>2, <2>3
<1>7. f = t
  BY <1>5, SeqEqual, Zenon
<1>8. g = rest
  BY <1>4, <1>6, SeqEqual, Zenon
<1> QED
  BY <1>7, <1>8

\* A sequence is its first element and the others.
LEMMA FirstAndOthers ==
  ASSUME NEW U, NEW p \in Seq(U), p # <<>>
  PROVE  /\ Head(p) \in U /\ Tail(p) \in Seq(U) /\ Len(Tail(p)) = Len(p) - 1
         /\ <<Head(p)>> \in Seq(U) /\ Len(<<Head(p)>>) = 1 /\ p = <<Head(p)>> \o Tail(p)
<1>1. /\ Head(p) \in U /\ Tail(p) \in Seq(U) /\ Len(Tail(p)) = Len(p) - 1
      /\ \A i \in 1..Len(p) - 1 : Tail(p)[i] = p[i + 1]
  OBVIOUS
<1>2. <<Head(p)>> \in Seq(U) /\ Len(<<Head(p)>>) = 1 /\ <<Head(p)>>[1] = p[1]
  BY <1>1
<1>3. p = <<Head(p)>> \o Tail(p)
  BY <1>1, <1>2
<1> QED
  BY <1>1, <1>2, <1>3

\* What is in the pipe (p) and not yet written (d) is text t and the rest of the stream.
Ready(U, p, d, t, rest) ==
  /\ p \in Seq(U) /\ d \in Seq(U) /\ t \in Seq(U) /\ rest \in Seq(U)
  /\ p # <<>> /\ t # <<>> /\ p \o d = t \o rest

FirstTaken(U, p, d, t, rest) ==
  /\ Head(p) = Head(t) /\ Tail(p) \in Seq(U) /\ Len(Tail(p)) = Len(p) - 1
  /\ Tail(p) \o d = Tail(t) \o rest

\* The unit at the front of the pipe is the first unit of the next text.
LEMMA ReadFirst ==
  ASSUME NEW U, NEW p, NEW d, NEW t, NEW rest, Ready(U, p, d, t, rest)
  PROVE  FirstTaken(U, p, d, t, rest)
<1>0. /\ p \in Seq(U) /\ d \in Seq(U) /\ t \in Seq(U) /\ rest \in Seq(U)
      /\ p # <<>> /\ t # <<>> /\ p \o d = t \o rest
  BY DEF Ready
<1>m. d \in Seq(U) /\ rest \in Seq(U)
  BY <1>0
<1> DEFINE a == <<Head(p)>>
           b == <<Head(t)>>
<1>1. /\ Tail(p) \in Seq(U) /\ Len(Tail(p)) = Len(p) - 1
      /\ a \in Seq(U) /\ Len(a) = 1 /\ p = a \o Tail(p)
  BY <1>0, FirstAndOthers
<1>2. Tail(t) \in Seq(U) /\ b \in Seq(U) /\ Len(b) = 1 /\ t = b \o Tail(t)
  BY <1>0, FirstAndOthers
<1> HIDE DEF a, b
<1>3. (a \o Tail(p)) \o d = a \o (Tail(p) \o d)
  <2>1. a \in Seq(U) /\ Tail(p) \in Seq(U)
    BY <1>1
  <2> QED
    BY <1>m, <2>1, ConcatAssociative, SMTT(30)
<1>7. (b \o Tail(t)) \o rest = b \o (Tail(t) \o rest)
  BY <1>m, <1>2, ConcatAssociative, SMTT(30)
<1>4. Tail(p) \o d \in Seq(U) /\ Tail(t) \o rest \in Seq(U)
  BY <1>m, <1>1, <1>2, ConcatProperties, Zenon
<1>5. a \o (Tail(p) \o d) = b \o (Tail(t) \o rest) /\ Len(a) = Len(b)
  BY <1>0, <1>1, <1>2, <1>3, <1>7
<1>6. a = b /\ Tail(p) \o d = Tail(t) \o rest
  BY <1>1, <1>2, <1>4, <1>5, SameParts, Zenon
<1> QED
  BY <1>1, <1>6 DEF a, b, FirstTaken

\* The same of a text of which the buffer (b) has a part.
Reading(U, b, p, d, t, rest, n) ==
  /\ b \in Seq(U) /\ p \in Seq(U) /\ d \in Seq(U) /\ t \in Seq(U) /\ rest \in Seq(U)
  /\ n \in 0..Len(p) /\ b \o (p \o d) = t \o rest

PieceTaken(U, b, p, d, t, rest, n) ==
  /\ SubSeq(p, n + 1, Len(p)) \in Seq(U) /\ Len(SubSeq(p, n + 1, Len(p))) = Len(p) - n
  /\ b \o SubSeq(p, 1, n) \in Seq(U) /\ Len(b \o SubSeq(p, 1, n)) = Len(b) + n
  /\ (b \o SubSeq(p, 1, n)) \o (SubSeq(p, n + 1, Len(p)) \o d) = t \o rest
  /\ Len(b) + n = Len(t) => /\ b \o SubSeq(p, 1, n) = t
                            /\ SubSeq(p, n + 1, Len(p)) \o d = rest

\* A piece read moves from the pipe to the buffer; when the buffer has the length of the text
\* it holds the text.
LEMMA ReadPiece ==
  ASSUME NEW U, NEW b, NEW p, NEW d, NEW t, NEW rest, NEW n, Reading(U, b, p, d, t, rest, n)
  PROVE  PieceTaken(U, b, p, d, t, rest, n)
<1>0. /\ b \in Seq(U) /\ p \in Seq(U) /\ d \in Seq(U) /\ t \in Seq(U) /\ rest \in Seq(U)
      /\ n \in 0..Len(p) /\ b \o (p \o d) = t \o rest
  BY DEF Reading
<1>m. b \in Seq(U) /\ d \in Seq(U)
  BY <1>0
<1> DEFINE x == SubSeq(p, 1, n)
           y == SubSeq(p, n + 1, Len(p))
<1>1. x \in Seq(U) /\ Len(x) = n /\ y \in Seq(U) /\ Len(y) = Len(p) - n /\ x \o y = p
  BY <1>0, Cut
<1> HIDE DEF x, y, PieceTaken
<1>2. b \o x \in Seq(U) /\ Len(b \o x) = Len(b) + n /\ y \o d \in Seq(U)
  BY <1>m, <1>1, ConcatProperties
<1>3. (x \o y) \o d = x \o (y \o d)
  <2>1. x \in Seq(U) /\ y \in Seq(U)
    BY <1>1
  <2> QED
    BY <1>m, <2>1, ConcatAssociative, SMTT(30)
<1>6. (b \o x) \o (y \o d) = b \o (x \o (y \o d))
  <2>1. x \in Seq(U) /\ y \o d \in Seq(U)
    BY <1>1, <1>2
  <2> QED
    BY <1>m, <2>1, ConcatAssociative, SMTT(90)
<1>4. (b \o x) \o (y \o d) = t \o rest
  BY <1>0, <1>1, <1>3, <1>6
<1>5. Len(b) + n = Len(t) => b \o x = t /\ y \o d = rest
  BY <1>0, <1>2, <1>4, SameParts
<1> QED
  BY <1>1, <1>2, <1>4, <1>5 DEF x, y, PieceTaken
=============================================================================
