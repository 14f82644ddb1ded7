--------------------------- MODULE JsonDomProofs ----------------------------
(***************************************************************************)
(* Theorems about the JSON tree, for every set of types and of keys, texts *)
(* of any length and depth, and a text or an allocation that fails at any  *)
(* place.                                                                  *)
(***************************************************************************)
EXTENDS JsonDom, StreamLemmas, FiniteSetTheorems

-----------------------------------------------------------------------------
(* What is below a node *)

\* The nodes are numbered from 1.
LEMMA NodeNumbers ==
  ASSUME TypeOK
  PROVE  Len(type) \in Nat /\ Nodes = 1..Len(type)
BY DEF TypeOK, Nodes

\* Below(n) is the smallest set that holds n and the children of its members.
LEMMA BelowFacts ==
  ASSUME TypeOK, NEW n \in Nodes
  PROVE  /\ n \in Below(n) /\ Below(n) \subseteq Nodes /\ Closed(Below(n))
         /\ \A S \in SUBSET Nodes : n \in S /\ Closed(S) => Below(n) \subseteq S
<1>1. n \in Below(n) /\ Below(n) \subseteq Nodes
  BY DEF Below
<1>2. \A S \in SUBSET Nodes : n \in S /\ Closed(S) => Below(n) \subseteq S
  BY DEF Below
<1>3. ASSUME NEW m \in Below(n), NEW l \in DOMAIN kids[m] PROVE kids[m][l] \in Below(n)
  <2>1. m \in Nodes
    BY <1>1
  <2>2. kids[m][l] \in Nodes
    <3>1. kids[m][l] \in m + 1..Len(type)
      BY <2>1 DEF TypeOK
    <3> QED BY <2>1, <3>1, NodeNumbers
  <2>3. ASSUME NEW S \in SUBSET Nodes, n \in S, Closed(S) PROVE kids[m][l] \in S
    BY <1>2, <2>3 DEF Closed
  <2> QED BY <2>2, <2>3 DEF Below
<1> QED BY <1>1, <1>2, <1>3 DEF Closed

\* It holds no node that was allocated before n.
LEMMA BelowLater ==
  ASSUME TypeOK, NEW n \in Nodes, NEW m \in Below(n)
  PROVE  m \in Nodes /\ m >= n
<1> DEFINE S == {k \in Nodes : k >= n}
<1>1. Closed(S)
  <2> SUFFICES ASSUME NEW k \in S, NEW l \in DOMAIN kids[k] PROVE kids[k][l] \in S
    BY DEF Closed
  <2>1. kids[k][l] \in k + 1..Len(type)
    BY DEF TypeOK
  <2> QED BY <2>1, NodeNumbers
<1>2. S \in SUBSET Nodes /\ n \in S
  BY NodeNumbers
<1>3. Below(n) \subseteq S
  <2> HIDE DEF S
  <2> QED BY <1>1, <1>2, BelowFacts
<1> QED BY <1>3

\* Every other node of it is the child of one.
LEMMA BelowParent ==
  ASSUME TypeOK, NEW n \in Nodes, NEW m \in Below(n), m # n
  PROVE  \E k \in Below(n) : \E l \in DOMAIN kids[k] : kids[k][l] = m
<1> SUFFICES ASSUME \A k \in Below(n) : \A l \in DOMAIN kids[k] : kids[k][l] # m
             PROVE  FALSE
  OBVIOUS
<1> DEFINE S == Below(n) \ {m}
<1>1. Closed(S)
  BY BelowFacts DEF Closed
<1>2. S \in SUBSET Nodes /\ n \in S
  BY BelowFacts
<1>3. Below(n) \subseteq S
  <2> HIDE DEF S
  <2> QED BY <1>1, <1>2, BelowFacts
<1> QED BY <1>3

\* Below a node are the node and what is below its children.
LEMMA BelowStep ==
  ASSUME TypeOK, NEW n \in Nodes
  PROVE  /\ \A l \in DOMAIN kids[n] : kids[n][l] \in Nodes /\ kids[n][l] > n
         /\ \A l \in DOMAIN kids[n] : Below(kids[n][l]) \subseteq Below(n)
         /\ \A m \in Below(n) : m = n \/ \E l \in DOMAIN kids[n] : m \in Below(kids[n][l])
<1>1. \A l \in DOMAIN kids[n] : kids[n][l] \in Nodes /\ kids[n][l] > n
  <2> SUFFICES ASSUME NEW l \in DOMAIN kids[n] PROVE kids[n][l] \in Nodes /\ kids[n][l] > n
    OBVIOUS
  <2>1. kids[n][l] \in n + 1..Len(type)
    BY DEF TypeOK
  <2> QED BY <2>1, NodeNumbers
<1>2. ASSUME NEW l \in DOMAIN kids[n] PROVE Below(kids[n][l]) \subseteq Below(n)
  <2>1. kids[n][l] \in Below(n) /\ Closed(Below(n)) /\ Below(n) \in SUBSET Nodes
    BY BelowFacts DEF Closed
  <2> QED BY <1>1, <2>1, BelowFacts
<1> DEFINE S == {m \in Nodes : m = n \/ \E l \in DOMAIN kids[n] : m \in Below(kids[n][l])}
<1>3. Closed(S)
  <2> SUFFICES ASSUME NEW m \in S, NEW k \in DOMAIN kids[m] PROVE kids[m][k] \in S
    BY DEF Closed
  <2>1. CASE m = n
    <3>1. kids[n][k] \in Below(kids[n][k]) /\ kids[n][k] \in Nodes
      BY <1>1, <2>1, BelowFacts
    <3> QED BY <2>1, <3>1
  <2>2. ASSUME NEW l \in DOMAIN kids[n], m \in Below(kids[n][l]) PROVE kids[m][k] \in S
    <3>1. Closed(Below(kids[n][l])) /\ Below(kids[n][l]) \subseteq Nodes
      BY <1>1, BelowFacts
    <3>2. kids[m][k] \in Below(kids[n][l])
      BY <2>2, <3>1 DEF Closed
    <3> QED BY <3>1, <3>2
  <2> QED BY <2>1, <2>2
<1>4. Below(n) \subseteq S
  <2>1. S \in SUBSET Nodes /\ n \in S
    OBVIOUS
  <2> HIDE DEF S
  <2> QED BY <1>3, <2>1, BelowFacts
<1> QED BY <1>1, <1>2, <1>4

\* In a tree everything that is not freed is below the root, and nothing else.
LEMMA AllBelowRoot ==
  ASSUME TypeOK, Tree, 1 \in Live
  PROVE  Below(1) = Live
<1>1. 1 \in Nodes /\ Live \in SUBSET Nodes /\ Closed(Live)
  BY DEF Live, Tree
<1>2. Below(1) \subseteq Live
  BY <1>1, BelowFacts
<1> DEFINE S == Live \ Below(1)
<1> SUFFICES ASSUME S # {} PROVE FALSE
  BY <1>2
<1>3. PICK n \in S : \A m \in S : n <= m
  <2>1. S \subseteq Nat
    BY <1>1, NodeNumbers
  <2> HIDE DEF S
  <2> QED BY <2>1, NatMin
<1>4. n # 1 /\ n \in Live
  BY <1>1, BelowFacts
<1>5. PICK m \in Live : \E l \in DOMAIN kids[m] : kids[m][l] = n
  BY <1>4 DEF Tree
<1>6. n > m /\ m \in Nat /\ n \in Nat
  BY <1>1, <1>5, BelowStep, NodeNumbers
<1>7. m \in Below(1)
  BY <1>3, <1>6
<1>8. n \in Below(1)
  BY <1>1, <1>5, <1>7, BelowFacts DEF Closed
<1> QED BY <1>8

-----------------------------------------------------------------------------
(* Beginnings of paths *)

\* What IsPrefix() says of the elements.
LEMMA PrefixElements ==
  ASSUME NEW U, NEW s \in Seq(U), NEW t \in Seq(U)
  PROVE  IsPrefix(s, t) <=> Len(s) <= Len(t) /\ \A i \in 1..Len(s) : s[i] = t[i]
<1>1. Len(s) \in Nat /\ Len(t) \in Nat
  OBVIOUS
<1> SUFFICES ASSUME Len(s) <= Len(t)
             PROVE  SubSeq(s, 1, Len(s)) = SubSeq(t, 1, Len(s))
                      <=> \A i \in 1..Len(s) : s[i] = t[i]
  BY DEF IsPrefix
<1>2. SubSeq(s, 1, Len(s)) = s
  BY SubSeqFull
<1> DEFINE b == SubSeq(t, 1, Len(s))
<1>3. b \in Seq(U) /\ Len(b) = Len(s) /\ \A i \in 1..Len(s) : b[i] = t[i]
  BY <1>1
<1> HIDE DEF b
<1>4. s = b <=> \A i \in 1..Len(s) : s[i] = b[i]
  BY <1>1, <1>3, SeqEqual
<1> QED BY <1>2, <1>3, <1>4 DEF b

\* What a path begins with stays when the path gets longer.
LEMMA PrefixGrows ==
  ASSUME NEW U, NEW s \in Seq(U), NEW t \in Seq(U), NEW e \in U
  PROVE  /\ IsPrefix(s, t) => IsPrefix(s, Append(t, e))
         /\ IsPrefix(s, Append(t, e)) => IsPrefix(s, t) \/ s = Append(t, e)
<1>1. Len(s) \in Nat /\ Len(t) \in Nat
  OBVIOUS
<1> DEFINE a == Append(t, e)
<1>2. /\ a \in Seq(U) /\ Len(a) = Len(t) + 1 /\ \A i \in 1..Len(t) : a[i] = t[i]
  BY AppendProperties
<1> HIDE DEF a
<1>3. ASSUME IsPrefix(s, t) PROVE IsPrefix(s, a)
  <2>1. Len(s) <= Len(t) /\ \A i \in 1..Len(s) : s[i] = t[i]
    BY <1>3, PrefixElements
  <2>2. Len(s) <= Len(a) /\ \A i \in 1..Len(s) : s[i] = a[i]
    BY <1>1, <1>2, <2>1
  <2> QED BY <1>2, <2>2, PrefixElements
<1>4. ASSUME IsPrefix(s, a) PROVE IsPrefix(s, t) \/ s = a
  <2>1. Len(s) <= Len(a) /\ \A i \in 1..Len(s) : s[i] = a[i]
    BY <1>2, <1>4, PrefixElements
  <2>2. CASE Len(s) <= Len(t)
    <3>1. \A i \in 1..Len(s) : s[i] = t[i]
      BY <1>1, <1>2, <2>1, <2>2
    <3> QED BY <2>2, <3>1, PrefixElements
  <2>3. CASE ~(Len(s) <= Len(t))
    <3>1. Len(s) = Len(a)
      BY <1>1, <1>2, <2>1, <2>3
    <3> QED BY <1>2, <2>1, <3>1, SeqEqual
  <2> QED BY <2>2, <2>3
<1> QED BY <1>3, <1>4 DEF a

\* Two paths are the same when they are with a label more.
LEMMA AppendSame ==
  ASSUME NEW U, NEW s \in Seq(U), NEW t \in Seq(U), NEW d \in U, NEW e \in U,
         Append(s, d) = Append(t, e)
  PROVE  s = t /\ d = e
BY AppendInjective

-----------------------------------------------------------------------------
(* The paths of the tree *)

\* What is below a node has a path that begins with the path of the node.
LEMMA BelowPrefix ==
  ASSUME TypeOK, PlaceInv, NEW n \in Nodes, NEW m \in Below(n)
  PROVE  m \in Nodes /\ at[n] \in Seq(Labels) /\ at[m] \in Seq(Labels) /\ IsPrefix(at[n], at[m])
<1>1. \A k \in Nodes : at[k] \in Seq(Labels)
  BY NodeNumbers DEF TypeOK, Labels
<1> DEFINE S == {k \in Nodes : IsPrefix(at[n], at[k])}
<1>2. Closed(S)
  <2> SUFFICES ASSUME NEW k \in S, NEW l \in DOMAIN kids[k] PROVE kids[k][l] \in S
    BY DEF Closed
  <2>1. kids[k][l] \in Nodes
    BY BelowStep
  <2>2. at[kids[k][l]] = Append(at[k], l) /\ l \in Labels
    BY DEF PlaceInv, TypeOK, Labels
  <2>3. IsPrefix(at[n], Append(at[k], l))
    BY <1>1, <2>2, PrefixGrows
  <2> QED BY <2>1, <2>2, <2>3
<1>3. n \in S
  <2>1. at[n] \in Seq(Labels) /\ Len(at[n]) \in Nat
    BY <1>1
  <2>2. IsPrefix(at[n], at[n])
    BY <2>1, PrefixElements
  <2> QED BY <2>2
<1>4. Below(n) \subseteq S
  <2>1. S \in SUBSET Nodes
    OBVIOUS
  <2> HIDE DEF S
  <2> QED BY <1>2, <1>3, <2>1, BelowFacts
<1> QED BY <1>1, <1>4

\* The path from node n to node m below it.
Way(n, m) == SubSeq(at[m], Len(at[n]) + 1, Len(at[m]))

\* It begins with the label of the child it passes.
LEMMA WayStep ==
  ASSUME TypeOK, PlaceInv, NEW n \in Nodes
  PROVE  /\ Way(n, n) = <<>>
         /\ \A l \in DOMAIN kids[n] : \A m \in Below(kids[n][l]) :
              Way(n, m) = <<l>> \o Way(kids[n][l], m)
<1>1. \A k \in Nodes : at[k] \in Seq(Labels) /\ Len(at[k]) \in Nat
  BY NodeNumbers DEF TypeOK, Labels
<1>2. Way(n, n) = <<>>
  BY <1>1, SubSeqEmpty DEF Way
<1>3. ASSUME NEW l \in DOMAIN kids[n], NEW m \in Below(kids[n][l])
      PROVE  Way(n, m) = <<l>> \o Way(kids[n][l], m)
  <2> DEFINE c == kids[n][l]
             k == Len(at[n]) + 1
  <2>1. c \in Nodes /\ at[c] = Append(at[n], l) /\ l \in Labels
    BY BelowStep DEF PlaceInv, TypeOK, Labels
  <2>2. m \in Nodes /\ IsPrefix(at[c], at[m])
    BY <2>1, BelowPrefix
  <2>3. k \in 1..Len(at[m]) /\ at[m][k] = l /\ Len(at[c]) = k
    <3>1. Len(at[c]) = k /\ at[c][k] = l
      BY <1>1, <2>1, AppendProperties
    <3>2. Len(at[c]) <= Len(at[m]) /\ \A i \in 1..Len(at[c]) : at[c][i] = at[m][i]
      <4>1. at[c] \in Seq(Labels) /\ at[m] \in Seq(Labels)
        BY <1>1, <2>1, <2>2
      <4> HIDE DEF c
      <4> QED BY <2>2, <4>1, PrefixElements
    <3> QED BY <1>1, <2>2, <3>1, <3>2, SMTT(30)
  <2> DEFINE z == Len(at[m])
  <2>4. z \in k..z
    BY <1>1, <2>2, <2>3
  <2>5. SubSeq(at[m], k, z) = <<at[m][k]>> \o SubSeq(at[m], k + 1, z)
    <3>1. at[m] \in Seq(Labels)
      BY <1>1, <2>2
    <3> HIDE DEF k
    <3> QED BY <2>3, <2>4, <3>1, SubSeqRecursiveFirst
  <2> QED BY <2>3, <2>5 DEF Way
<1> QED BY <1>2, <1>3

\* One level of the definition of Paths.
PathsFrom(f, n) ==
  {<< <<>>, type[n] >>} \cup
  UNION {{<< <<l>> \o e[1], e[2] >> : e \in f[kids[n][l]]} : l \in DOMAIN kids[n]}

\* It determines a function: nodes have larger numbers than their parents.
LEMMA PathsUnique ==
  ASSUME TypeOK, NEW f, NEW g,
         f = [n \in Nodes |-> PathsFrom(f, n)], g = [n \in Nodes |-> PathsFrom(g, n)]
  PROVE  f = g
<1>0. \A n \in Nodes : f[n] = PathsFrom(f, n) /\ g[n] = PathsFrom(g, n)
  OBVIOUS
<1> SUFFICES ASSUME \E n \in Nodes : f[n] # g[n] PROVE FALSE
  <2>1. \A n \in Nodes : f[n] = g[n]
    OBVIOUS
  <2>2. f = [n \in Nodes |-> f[n]] /\ g = [n \in Nodes |-> g[n]]
    OBVIOUS
  <2> QED BY <2>1, <2>2, Zenon
<1> DEFINE S == {k \in Nat : \E n \in Nodes : k = Len(type) - n /\ f[n] # g[n]}
<1>1. PICK k \in S : \A j \in S : k <= j
  <2>1. PICK n \in Nodes : f[n] # g[n]
    OBVIOUS
  <2>2. Len(type) - n \in S
    BY <2>1, NodeNumbers
  <2>3. S \subseteq Nat /\ S # {}
    BY <2>2
  <2> HIDE DEF S
  <2> QED BY <2>3, NatMin
<1>2. PICK n \in Nodes : k = Len(type) - n /\ f[n] # g[n]
  OBVIOUS
<1>3. ASSUME NEW l \in DOMAIN kids[n] PROVE f[kids[n][l]] = g[kids[n][l]]
  <2>1. kids[n][l] \in Nodes /\ kids[n][l] > n
    BY BelowStep
  <2> DEFINE j == Len(type) - kids[n][l]
  <2>2. j \in Nat /\ ~(k <= j)
    BY <1>2, <2>1, NodeNumbers
  <2>3. j \notin S
    BY <1>1, <2>2
  <2> QED BY <2>1, <2>2, <2>3
<1>4. PathsFrom(f, n) = PathsFrom(g, n)
  <2>1. ASSUME NEW l \in DOMAIN kids[n]
        PROVE  {<< <<l>> \o e[1], e[2] >> : e \in f[kids[n][l]]}
                 = {<< <<l>> \o e[1], e[2] >> : e \in g[kids[n][l]]}
    BY <1>3
  <2> DEFINE F(l) == {<< <<l>> \o e[1], e[2] >> : e \in f[kids[n][l]]}
             G(l) == {<< <<l>> \o e[1], e[2] >> : e \in g[kids[n][l]]}
  <2>2. PathsFrom(f, n) = {<< <<>>, type[n] >>} \cup UNION {F(l) : l \in DOMAIN kids[n]}
    BY DEF PathsFrom
  <2>3. PathsFrom(g, n) = {<< <<>>, type[n] >>} \cup UNION {G(l) : l \in DOMAIN kids[n]}
    BY DEF PathsFrom
  <2>4. \A l \in DOMAIN kids[n] : F(l) = G(l)
    BY <2>1
  <2> HIDE DEF F, G
  <2>5. {F(l) : l \in DOMAIN kids[n]} = {G(l) : l \in DOMAIN kids[n]}
    BY <2>4
  <2> QED BY <2>2, <2>3, <2>5, Zenon
<1> QED BY <1>0, <1>2, <1>4

\* The paths that begin at n, by the nodes they lead to.
PathsTo(n) == {<<Way(n, m), type[m]>> : m \in Below(n)}

\* They have the structure of Paths.
LEMMA PathsToStep ==
  ASSUME TypeOK, PlaceInv, NEW f, f = [n \in Nodes |-> PathsTo(n)]
  PROVE  f = [n \in Nodes |-> PathsFrom(f, n)]
<1> SUFFICES ASSUME NEW n \in Nodes PROVE PathsTo(n) = PathsFrom(f, n)
  OBVIOUS
<1>1. \A l \in DOMAIN kids[n] : f[kids[n][l]] = PathsTo(kids[n][l])
  BY BelowStep
<1> DEFINE F(l) == {<< <<l>> \o e[1], e[2] >> : e \in PathsTo(kids[n][l])}
<1>2. PathsFrom(f, n) = {<< <<>>, type[n] >>} \cup UNION {F(l) : l \in DOMAIN kids[n]}
  <2> DEFINE G(l) == {<< <<l>> \o e[1], e[2] >> : e \in f[kids[n][l]]}
  <2>1. PathsFrom(f, n) = {<< <<>>, type[n] >>} \cup UNION {G(l) : l \in DOMAIN kids[n]}
    BY DEF PathsFrom
  <2>2. \A l \in DOMAIN kids[n] : F(l) = G(l)
    BY <1>1
  <2> HIDE DEF F, G
  <2> QED BY <2>1, <2>2
<1>3. ASSUME NEW l \in DOMAIN kids[n]
      PROVE  F(l) = {<<Way(n, m), type[m]>> : m \in Below(kids[n][l])}
  <2> DEFINE c == kids[n][l]
  <2>1. \A m \in Below(c) : Way(n, m) = <<l>> \o Way(c, m)
    BY WayStep
  <2>2. F(l) = {<< <<l>> \o Way(c, m), type[m] >> : m \in Below(c)}
    <3>1. PathsTo(c) = {<<Way(c, m), type[m]>> : m \in Below(c)}
      BY DEF PathsTo
    <3> DEFINE g(e) == << <<l>> \o e[1], e[2] >>
               h(m) == <<Way(c, m), type[m]>>
    <3>2. \A m \in Below(c) : g(h(m)) = << <<l>> \o Way(c, m), type[m] >>
      OBVIOUS
    <3>3. F(l) = {g(e) : e \in PathsTo(c)} /\ PathsTo(c) = {h(m) : m \in Below(c)}
      BY <3>1
    <3> HIDE DEF g, h, F
    <3>4. F(l) = {g(h(m)) : m \in Below(c)}
      BY <3>3
    <3> QED BY <3>2, <3>4
  <2> HIDE DEF F, c
  <2> QED BY <2>1, <2>2 DEF c
<1>4. << Way(n, n), type[n] >> = << <<>>, type[n] >>
  BY WayStep
<1> HIDE DEF F
<1>5. ASSUME NEW e \in PathsTo(n) PROVE e \in PathsFrom(f, n)
  <2>1. PICK m \in Below(n) : e = <<Way(n, m), type[m]>>
    BY DEF PathsTo
  <2>2. CASE m = n
    BY <1>2, <1>4, <2>1, <2>2
  <2>3. ASSUME NEW l \in DOMAIN kids[n], m \in Below(kids[n][l]) PROVE e \in PathsFrom(f, n)
    BY <1>2, <1>3, <2>1, <2>3
  <2> QED BY <2>2, <2>3, BelowStep
<1>6. ASSUME NEW e \in PathsFrom(f, n) PROVE e \in PathsTo(n)
  <2>1. CASE e = << <<>>, type[n] >>
    BY <1>4, <2>1, BelowFacts DEF PathsTo
  <2>2. ASSUME NEW l \in DOMAIN kids[n], e \in F(l) PROVE e \in PathsTo(n)
    <3>1. PICK m \in Below(kids[n][l]) : e = <<Way(n, m), type[m]>>
      BY <1>3, <2>2
    <3> QED BY <3>1, BelowStep DEF PathsTo
  <2> QED BY <1>2, <2>1, <2>2
<1> QED BY <1>5, <1>6

\* So the tree has the paths of the text.
LEMMA PathsAreRead ==
  ASSUME DomInv, type # <<>>, pc \in {"parse", "ok"}
  PROVE  Paths[Last(containerStack)] = y.paths
<1>1. TypeOK /\ PlaceInv /\ Tree /\ Last(containerStack) = 1
  BY DEF DomInv, OwnedOnce, StackInv
<1>2. 1 \in Nodes /\ 1 \in Live
  <2>1. Len(type) > 0 /\ 1 \in Nodes
    BY <1>1, NodeNumbers DEF TypeOK
  <2>2. Len(containerStack) \in DOMAIN containerStack
    BY <1>1 DEF TypeOK
  <2> QED BY <1>1, <2>1, <2>2 DEF Tree, Last
<1> DEFINE f == [n \in Nodes |-> PathsTo(n)]
<1>3. f = [n \in Nodes |-> PathsFrom(f, n)]
  BY <1>1, PathsToStep
<1>4. Paths = CHOOSE g : g = [n \in Nodes |-> PathsFrom(g, n)]
  BY DEF Paths, PathsFrom
<1>5. Paths = f
  <2> HIDE DEF f
  <2>1. Paths = [n \in Nodes |-> PathsFrom(Paths, n)]
    BY <1>3, <1>4
  <2> QED BY <1>1, <1>3, <2>1, PathsUnique
<1>6. PathsTo(1) = {<<at[n], type[n]>> : n \in Live}
  <2>1. ASSUME NEW m \in Live PROVE Way(1, m) = at[m]
    <3>1. at[1] = <<>> /\ at[m] \in Seq(Labels)
      BY <1>1, NodeNumbers DEF PlaceInv, TypeOK, Live, Labels
    <3>2. Way(1, m) = SubSeq(at[m], 1, Len(at[m]))
      BY <3>1 DEF Way
    <3> QED BY <3>1, <3>2, SubSeqFull
  <2>2. Below(1) = Live
    BY <1>1, <1>2, AllBelowRoot
  <2> QED BY <2>1, <2>2 DEF PathsTo
<1> QED BY <1>1, <1>2, <1>5, <1>6 DEF PlaceInv

-----------------------------------------------------------------------------
(* The text *)

\* A container with a value more, and a new one.
LEMMA CountedFields ==
  ASSUME NEW c \in Frames
  PROVE  /\ Counted(c) \in Frames /\ Counted(c).type = c.type /\ Counted(c).at = c.at
         /\ Counted(c).count = c.count + 1 /\ Counted(c).keyed = "no"
<1> DEFINE m == c.count + 1
<1>1. m \in Nat \ {0}
  BY DEF Frames
<1>2. Counted(c) = [c EXCEPT !.count = m, !.keyed = "no"]
  BY DEF Counted
<1> HIDE DEF m
<1>3. LET d == [c EXCEPT !.count = m, !.keyed = "no"]
      IN  /\ d \in Frames /\ d.type = c.type /\ d.at = c.at /\ d.count = m /\ d.keyed = "no"
  BY <1>1 DEF Frames
<1> QED BY <1>2, <1>3 DEF m

\* A container that has just been opened is empty.
LEMMA FrameFields ==
  ASSUME NEW t \in Container, NEW p \in Seq(Labels), NEW f, f = Frame(t, p)
  PROVE  f \in Frames /\ f.type = t /\ f.at = p /\ f.count = 1 /\ f.keyed = "no"
<1>1. <<>> \in Labels
  BY DEF Labels
<1> QED BY <1>1 DEF Frame, Frames

\* The open containers after a value: the last one has a value more.
Outer == IF y.open = <<>> THEN <<>> ELSE WithLast(y.open, Counted(Last(y.open)))

\* A value is counted, and replaces what its path held.
LEMMA ReadValue ==
  ASSUME NEW t
  PROVE  Read(y, Value(t)) =
           [open  |-> IF t \in Container THEN Append(Outer, Frame(t, ValuePath(y))) ELSE Outer,
            paths |-> {e \in y.paths : ~IsPrefix(ValuePath(y), e[1])} \cup {<<ValuePath(y), t>>}]
BY DEF Read, Value, Outer

\* A key or an end changes the open containers only.
LEMMA ReadOther ==
  ASSUME TypeOK, NEW k
  PROVE  /\ Read(y, KeyTok(k)) =
              [open |-> WithLast(y.open, [Last(y.open) EXCEPT !.key = k, !.keyed = "yes"]),
               paths |-> y.paths]
         /\ Read(y, End) = [open |-> Front(y.open), paths |-> y.paths]
<1>1. y = [open |-> y.open, paths |-> y.paths]
  BY DEF TypeOK
<1>2. \A o : [y EXCEPT !.open = o] = [open |-> o, paths |-> y.paths]
  BY <1>1
<1>3. Read(y, KeyTok(k)) =
        [y EXCEPT !.open = WithLast(y.open, [Last(y.open) EXCEPT !.key = k, !.keyed = "yes"])]
  BY DEF Read, KeyTok
<1>4. Read(y, End) = [y EXCEPT !.open = Front(y.open)]
  BY DEF Read, End
<1> QED BY <1>2, <1>3, <1>4

-----------------------------------------------------------------------------
(* A value goes into the container at the head of the stack *)

\* Where jdBuilder_addValue() puts a value.
Top == Head(containerStack)
Label == IF type[Top] = "array" THEN <<0, Cardinality(DOMAIN kids[Top]) + 1>> ELSE tmpMapKay

\* While the text goes on, the root is not freed.
LEMMA RootLives ==
  ASSUME DomInv, type # <<>>, pc \in {"parse", "error", "ok"}
  PROVE  /\ 1 \in Live /\ Tree /\ containerStack # <<>> /\ Last(containerStack) = 1
         /\ Len(containerStack) = Len(y.open) + 1
         /\ \E e : e \in y.paths
<1>1. Tree /\ TypeOK /\ Last(containerStack) = 1
  BY DEF DomInv, OwnedOnce, StackInv
<1>2. Len(containerStack) = Len(y.open) + 1 /\ Len(y.open) \in Nat
  BY <1>1 DEF TypeOK
<1>3. containerStack # <<>> /\ Len(containerStack) \in DOMAIN containerStack
  BY <1>1, <1>2 DEF TypeOK
<1>4. 1 \in Live
  BY <1>1, <1>3 DEF Tree, Last
<1>5. <<at[1], type[1]>> \in y.paths
  BY <1>4 DEF DomInv, PlaceInv
<1> QED BY <1>1, <1>2, <1>3, <1>4, <1>5

\* A key is a label, and so is what the buffer holds before the first key.
LEMMA KeysAreLabels == Key \subseteq Labels /\ <<>> \in Labels
<1>1. ASSUME NEW k \in Key PROVE k \in Labels
  <2>1. k \in Seq(Nat \ {0})
    BY ConstantsAssumption
  <2>2. Len(k) \in Nat /\ k \in [1..Len(k) -> Nat]
    BY <2>1
  <2> QED BY <2>2, SeqDef DEF Labels
<1> QED BY <1>1 DEF Labels

\* {<<0, 1>>, ..., <<0, n>>} has n elements.
LEMMA IndexCount ==
  ASSUME NEW n \in Nat
  PROVE  Cardinality({<<0, j>> : j \in 1..n}) = n
<1> DEFINE f == [j \in 1..n |-> <<0, j>>]
           S == {<<0, j>> : j \in 1..n}
<1>1. f \in Bijection(1..n, S)
  BY DEF Bijection, Injection, Surjection, IsInjective
<1>2. IsFiniteSet(1..n) /\ Cardinality(1..n) = n
  BY FS_Interval
<1> HIDE DEF f, S
<1>3. Cardinality(S) = Cardinality(1..n)
  BY <1>1, <1>2, FS_Bijection DEF ExistsBijection
<1> QED BY <1>2, <1>3 DEF S

\* The container at the head of the stack is the one that is open in the text, and the value
\* gets the label it has there.
LEMMA Insertion ==
  ASSUME DomInv, pc = "parse", type # <<>>, NEW t, Value(t) \in Allowed(y)
  PROVE  /\ y.open # <<>> /\ Top \in Live /\ Top = containerStack[1]
         /\ \A i \in DOMAIN containerStack : containerStack[i] <= Top
         /\ Label \in Labels /\ at[Top] \in Seq(Labels)
         /\ ValuePath(y) = Append(at[Top], Label) /\ ValuePath(y) \in Seq(Labels)
         /\ Entry(Len(y.open)) = Top
         /\ Last(y.open).type = "array" => Label = <<0, Last(y.open).count>>
<1>1. TypeOK /\ Tree /\ StackInv /\ OpenInv
  BY RootLives DEF DomInv
<1>2. y.open # <<>>
  BY RootLives DEF Allowed, Done
<1> DEFINE z == Len(y.open)
           c == Last(y.open)
<1>3. z \in Nat \ {0} /\ c \in Frames /\ c = y.open[z] /\ z \in DOMAIN y.open
  BY <1>1, <1>2 DEF TypeOK, Last
<1>4. /\ Len(containerStack) = z + 1 /\ containerStack \in Seq(Nodes) /\ containerStack # <<>>
      /\ Last(containerStack) = 1
  BY <1>1, RootLives DEF TypeOK
<1>5. Top = containerStack[1] /\ Entry(z) = Top /\ Top \in Live /\ Top \in Nodes
  BY <1>1, <1>3, <1>4 DEF Entry, Top, Tree
<1>6. ASSUME NEW i \in DOMAIN containerStack PROVE containerStack[i] <= Top
  <2>1. containerStack[i] \in Nat /\ Top \in Nat /\ Top >= 1 /\ i \in 1..z + 1
    BY <1>1, <1>3, <1>4, <1>5, NodeNumbers, SMTT(30)
  <2>2. CASE i = z + 1
    BY <1>4, <2>1, <2>2 DEF Last
  <2>3. CASE i = 1
    BY <1>5, <2>1, <2>3
  <2>4. CASE i \in 2..z
    BY <1>1, <1>3, <1>5, <2>1, <2>4 DEF StackInv
  <2> QED BY <1>3, <2>1, <2>2, <2>3, <2>4
<1>7. /\ type[Top] = c.type /\ at[Top] = c.at
      /\ c.type = "array" => DOMAIN kids[Top] = {<<0, j>> : j \in 1..c.count - 1}
      /\ c.keyed = "yes" => c.key = tmpMapKay
  BY <1>1, <1>2, <1>3, <1>5 DEF OpenInv
<1>8. at[Top] \in Seq(Labels)
  BY <1>1, <1>5, NodeNumbers DEF TypeOK, Labels
<1>9. CASE c.type = "array"
  <2>1. c.count - 1 \in Nat /\ c.count \in Nat
    BY <1>3 DEF Frames
  <2>2. Label = <<0, c.count>>
    <3>1. Cardinality({<<0, j>> : j \in 1..c.count - 1}) = c.count - 1
      BY <2>1, IndexCount
    <3>2. Cardinality(DOMAIN kids[Top]) = c.count - 1
      BY <1>7, <1>9, <3>1, Zenon
    <3>3. Cardinality(DOMAIN kids[Top]) + 1 = c.count
      BY <2>1, <3>2
    <3> QED BY <1>7, <1>9, <3>3, Zenon DEF Label
  <2>3. Label \in Labels
    BY <2>1, <2>2 DEF Labels
  <2>4. ValuePath(y) = Append(at[Top], Label)
    BY <1>2, <1>7, <1>9, <2>2 DEF ValuePath
  <2> QED BY <1>2, <1>5, <1>6, <1>8, <2>2, <2>3, <2>4, AppendProperties
<1>10. CASE c.type # "array"
  <2>1. Label = tmpMapKay
    BY <1>7, <1>10 DEF Label
  <2>2. Label \in Labels
    BY <1>1, <2>1, KeysAreLabels DEF TypeOK
  <2>3. c.keyed = "yes"
    BY <1>2, <1>10 DEF Allowed, Value, KeyTok, End
  <2>4. ValuePath(y) = Append(at[Top], Label)
    BY <1>2, <1>7, <1>10, <2>1, <2>3 DEF ValuePath
  <2> QED BY <1>2, <1>5, <1>6, <1>8, <1>10, <2>2, <2>4, AppendProperties
<1> QED BY <1>9, <1>10

\* What the value replaces.
Gone == Replaced(Top, Label)

\* It is a part of the tree that only hangs there, and holds nothing that is open.
LEMMA Removal ==
  ASSUME TypeOK, Tree, Top \in Live,
         \A i \in DOMAIN containerStack : containerStack[i] <= Top
  PROVE  /\ Gone \subseteq Live /\ Closed(Gone)
         /\ \A i \in DOMAIN containerStack : containerStack[i] \notin Gone
         /\ Label \in DOMAIN kids[Top] => kids[Top][Label] \in Gone
         /\ \A m \in Live : \A l \in DOMAIN kids[m] :
              kids[m][l] \in Gone => m \in Gone \/ (m = Top /\ l = Label)
<1>1. CASE Label \notin DOMAIN kids[Top]
  BY <1>1 DEF Gone, Replaced, Closed
<1>2. CASE Label \in DOMAIN kids[Top]
  <2> DEFINE r == kids[Top][Label]
  <2>1. Gone = Below(r) /\ Top \in Nodes /\ r \in Nodes /\ r > Top /\ r \in Live
    <3>1. Gone = Below(r)
      BY <1>2 DEF Gone, Replaced
    <3>2. Top \in Nodes /\ r \in Live
      BY <1>2 DEF Live, Tree, Closed
    <3> QED BY <1>2, <3>1, <3>2, BelowStep DEF Live
  <2>2. r \in Gone /\ Closed(Gone)
    BY <2>1, BelowFacts
  <2>3. Gone \subseteq Live
    <3>1. Live \in SUBSET Nodes /\ Closed(Live)
      BY DEF Live, Tree
    <3> QED BY <2>1, <3>1, BelowFacts
  <2>4. ASSUME NEW i \in DOMAIN containerStack PROVE containerStack[i] \notin Gone
    <3>1. containerStack[i] \in Nat /\ Top \in Nat /\ r \in Nat /\ containerStack[i] <= Top
      <4>1. containerStack[i] \in Nodes /\ Len(type) \in Nat /\ Nodes = 1..Len(type)
        BY NodeNumbers DEF TypeOK
      <4> HIDE DEF r
      <4> QED BY <2>1, <4>1
    <3>2. ~(containerStack[i] >= r)
      BY <2>1, <3>1
    <3> QED BY <2>1, <3>2, BelowLater
  <2>5. ASSUME NEW m \in Live, NEW l \in DOMAIN kids[m], kids[m][l] \in Gone
        PROVE  m \in Gone \/ (m = Top /\ l = Label)
    <3>1. CASE kids[m][l] = r
      BY <1>2, <3>1 DEF Tree
    <3>2. CASE kids[m][l] # r
      <4>1. PICK k \in Gone : \E j \in DOMAIN kids[k] : kids[k][j] = kids[m][l]
        BY <2>1, <2>5, <3>2, BelowParent
      <4>2. k = m
        BY <2>3, <4>1 DEF Tree
      <4> QED BY <4>1, <4>2
    <3> QED BY <3>1, <3>2
  <2> QED BY <2>2, <2>3, <2>4, <2>5
<1> QED BY <1>1, <1>2

\* It is what the text has at the place of the value and further on.
LEMMA RemovedPaths ==
  ASSUME TypeOK, Tree, PlaceInv, Top \in Live, Label \in Labels,
         \A i \in DOMAIN containerStack : containerStack[i] <= Top,
         NEW p, p = Append(at[Top], Label)
  PROVE  \A n \in Live : n \in Gone <=> IsPrefix(p, at[n])
<1>1. \A k \in Nodes : at[k] \in Seq(Labels)
  BY NodeNumbers DEF TypeOK
<1>2. Top \in Nodes /\ at[Top] \in Seq(Labels) /\ p \in Seq(Labels) /\ Len(p) > 0
  <2>1. Top \in Nodes /\ at[Top] \in Seq(Labels)
    BY <1>1 DEF Live
  <2>2. p \in Seq(Labels) /\ Len(p) = Len(at[Top]) + 1 /\ Len(at[Top]) \in Nat
    BY <2>1, AppendProperties
  <2> QED BY <2>1, <2>2
<1>3. ASSUME NEW n \in Gone PROVE IsPrefix(p, at[n])
  <2>1. Label \in DOMAIN kids[Top] /\ Gone = Below(kids[Top][Label])
    BY <1>3 DEF Gone, Replaced
  <2>2. kids[Top][Label] \in Nodes /\ at[kids[Top][Label]] = p
    BY <1>2, <2>1, BelowStep DEF PlaceInv
  <2> QED BY <2>1, <2>2, BelowPrefix
<1> DEFINE S == {n \in Live : IsPrefix(p, at[n]) /\ n \notin Gone}
<1>4. S = {}
  <2> SUFFICES ASSUME S # {} PROVE FALSE
    OBVIOUS
  <2>1. PICK n \in S : \A m \in S : n <= m
    <3>1. S \subseteq Nat
      BY NodeNumbers DEF Live
    <3> HIDE DEF S
    <3> QED BY <3>1, NatMin
  <2>2. n # 1
    <3>1. at[1] = <<>> \/ n # 1
      <4>1. n = 1 => type # <<>>
        BY NodeNumbers DEF Live
      <4> QED BY <4>1 DEF PlaceInv
    <3>2. ~IsPrefix(p, <<>>)
      BY <1>2 DEF IsPrefix
    <3> QED BY <3>1, <3>2
  <2>3. PICK m \in Live : \E l \in DOMAIN kids[m] : kids[m][l] = n
    BY <2>2 DEF Tree
  <2>4. PICK l \in DOMAIN kids[m] : kids[m][l] = n
    BY <2>3
  <2>5. m \in Nodes /\ at[n] = Append(at[m], l) /\ l \in Labels /\ n > m
    BY <2>4, BelowStep DEF Live, PlaceInv, TypeOK
  <2>6. CASE IsPrefix(p, at[m])
    <3>1. m \notin S
      BY <2>1, <2>5, NodeNumbers DEF Live
    <3>2. m \in Gone
      BY <2>6, <3>1
    <3> QED BY <2>4, <3>2, Removal DEF Closed
  <2>7. CASE p = Append(at[m], l)
    <3>1. at[m] = at[Top] /\ l = Label
      <4> DEFINE a == at[m]
                 b == at[Top]
      <4>1. /\ a \in Seq(Labels) /\ b \in Seq(Labels) /\ l \in Labels /\ Label \in Labels
            /\ Append(a, l) = Append(b, Label)
        BY <1>1, <1>2, <2>5, <2>7
      <4> HIDE DEF a, b
      <4>2. a = b /\ l = Label
        BY <4>1, AppendSame
      <4> QED BY <4>2 DEF a, b
    <3>2. m = Top
      BY <3>1 DEF PlaceInv
    <3> QED BY <2>4, <3>1, <3>2, Removal
  <2>8. IsPrefix(p, at[m]) \/ p = Append(at[m], l)
    <3>1. at[m] \in Seq(Labels) /\ IsPrefix(p, Append(at[m], l))
      BY <1>1, <2>5
    <3> QED BY <1>2, <2>5, <3>1, PrefixGrows, ZenonT(30)
  <2> QED BY <2>6, <2>7, <2>8
<1> QED BY <1>3, <1>4

\* What Append() does.
LEMMA Appended ==
  ASSUME NEW U, NEW s \in Seq(U), NEW e \in U, NEW a, a = Append(s, e)
  PROVE  /\ a \in Seq(U) /\ Len(a) = Len(s) + 1 /\ a[Len(s) + 1] = e
         /\ \A k \in 1..Len(s) : a[k] = s[k]
BY AppendProperties

\* What jdBuilder_addValue() makes of the tree.
Grown(t, n) ==
  /\ Nodes' = Nodes \cup {n} /\ n \notin Nodes
  /\ type' \in Seq(Scalar \cup Container) /\ Len(type') = n /\ type'[n] = t
  /\ \A k \in Nodes : type'[k] = type[k]
  /\ at' \in Seq(Seq(Labels)) /\ Len(at') = n /\ at'[n] = ValuePath(y)
  /\ \A k \in Nodes : at'[k] = at[k]
  /\ kids' = [k \in Nodes' |-> kids'[k]] /\ DOMAIN kids'[n] = {}
  /\ \A k \in Nodes : k # Top => kids'[k] = kids[k]
  /\ DOMAIN kids'[Top] = DOMAIN kids[Top] \cup {Label} /\ kids'[Top][Label] = n
  /\ \A l \in DOMAIN kids[Top] : l # Label => kids'[Top][l] = kids[Top][l]
  /\ freed' = freed \cup Gone /\ tmpMapKay' = tmpMapKay
  /\ containerStack' = Opened(t, n) \o containerStack

\* It does so for every value but the first.
LEMMA Grows ==
  ASSUME TypeOK, containerStack # <<>>, Top \in Nodes, ValuePath(y) \in Seq(Labels),
         NEW t \in Scalar \cup Container, AddValue(t)
  PROVE  Grown(t, Len(type) + 1)
<1> DEFINE n == Len(type) + 1
           table == [l \in DOMAIN kids[Top] \cup {Label} |-> IF l = Label THEN n ELSE kids[Top][l]]
<1>1. /\ type' = Append(type, t) /\ at' = Append(at, ValuePath(y))
      /\ containerStack' = Opened(t, n) \o containerStack
      /\ kids' = Append([kids EXCEPT ![Top] = table], <<>>)
      /\ freed' = freed \cup Gone /\ tmpMapKay' = tmpMapKay
  BY DEF AddValue, Top, Label, Gone
<1>2. Len(type) \in Nat /\ Nodes = 1..Len(type) /\ n \in Nat
  BY NodeNumbers
<1>3. /\ type' \in Seq(Scalar \cup Container) /\ Len(type') = n /\ type'[n] = t
      /\ \A k \in Nodes : type'[k] = type[k]
  <2>1. type \in Seq(Scalar \cup Container)
    BY DEF TypeOK
  <2> QED BY <1>1, <1>2, <2>1, AppendProperties
<1>4. Nodes' = Nodes \cup {n} /\ n \notin Nodes
  <2>1. Nodes' = 1..n
    BY <1>3 DEF Nodes
  <2> QED BY <1>2, <2>1
<1>5. /\ at' \in Seq(Seq(Labels)) /\ Len(at') = n /\ at'[n] = ValuePath(y)
      /\ \A k \in Nodes : at'[k] = at[k]
  <2> DEFINE T == Seq(Labels)
  <2>1. at \in Seq(T) /\ ValuePath(y) \in T /\ Len(at) = Len(type)
    BY DEF TypeOK
  <2> HIDE DEF T
  <2>2. at' \in Seq(T) /\ Len(at') = n /\ at'[n] = ValuePath(y)
    BY <1>1, <1>2, <2>1, Appended, SMTT(30)
  <2>3. \A k \in 1..Len(at) : at'[k] = at[k]
    BY <1>1, <2>1, Appended
  <2> QED BY <1>2, <2>1, <2>2, <2>3 DEF T
<1> DEFINE V == {kids[k] : k \in Nodes} \cup {table, <<>>}
           ks == [kids EXCEPT ![Top] = table]
<1> HIDE DEF table
<1>6. kids \in [Nodes -> V]
  <2>1. kids = [k \in Nodes |-> kids[k]]
    BY DEF TypeOK
  <2> QED BY <2>1
<1>7. ks \in [Nodes -> V] /\ ks[Top] = table /\ \A k \in Nodes : k # Top => ks[k] = kids[k]
  BY <1>6
<1> HIDE DEF ks
<1>8. /\ kids' = [k \in Nodes' |-> kids'[k]] /\ kids'[n] = <<>>
      /\ \A k \in Nodes : kids'[k] = ks[k]
  <2>1. <<>> \in V
    OBVIOUS
  <2> HIDE DEF V
  <2>2. ks \in Seq(V) /\ Len(ks) = Len(type)
    BY <1>2, <1>7, SeqDef
  <2>3. /\ kids' \in Seq(V) /\ Len(kids') = n /\ kids'[n] = <<>>
        /\ \A k \in Nodes : kids'[k] = ks[k]
    <3>1. kids' = Append(ks, <<>>)
      BY <1>1 DEF ks
    <3>2. /\ kids' \in Seq(V) /\ Len(kids') = Len(ks) + 1 /\ kids'[Len(ks) + 1] = <<>>
          /\ \A k \in 1..Len(ks) : kids'[k] = ks[k]
      BY <2>1, <2>2, <3>1, Appended
    <3> QED BY <1>2, <2>2, <3>2
  <2>4. Nodes' = 1..n
    BY <1>3 DEF Nodes
  <2> QED BY <2>3, <2>4
<1>9. DOMAIN kids'[n] = {}
  BY <1>8
<1>10. /\ DOMAIN table = DOMAIN kids[Top] \cup {Label} /\ table[Label] = n
       /\ \A l \in DOMAIN kids[Top] : l # Label => table[l] = kids[Top][l]
  BY DEF table
<1> QED BY <1>1, <1>3, <1>4, <1>5, <1>7, <1>8, <1>9, <1>10 DEF Grown

\* The tree stays one.
LEMMA TreeGrows ==
  ASSUME TypeOK, Tree, Top \in Live,
         \A i \in DOMAIN containerStack : containerStack[i] <= Top,
         NEW t, NEW n, Grown(t, n), \A i \in DOMAIN containerStack' :
                                      containerStack'[i] = n \/ \E j \in DOMAIN containerStack :
                                                        containerStack'[i] = containerStack[j]
  PROVE  Tree' /\ Live' = (Live \ Gone) \cup {n} /\ Top \notin Gone /\ n \notin Live
<1>1. /\ Gone \subseteq Live /\ Closed(Gone) /\ Gone \subseteq Nodes /\ Live \subseteq Nodes
      /\ Top \in Nodes
  BY Removal DEF Live
<1>2. n \notin Live /\ n \notin freed
  BY <1>1 DEF Grown, Live, TypeOK
<1>3. Live' = (Live \ Gone) \cup {n}
  BY <1>1, <1>2 DEF Grown, Live
<1>4. Top \notin Gone
  <2>1. containerStack # <<>> => Top = containerStack[1] /\ 1 \in DOMAIN containerStack
    BY DEF Top, TypeOK
  <2>2. Label \in DOMAIN kids[Top] => kids[Top][Label] > Top /\ kids[Top][Label] \in Nodes
    BY <1>1, BelowStep
  <2>3. CASE Label \in DOMAIN kids[Top]
    <3>1. ~(Top >= kids[Top][Label])
      BY <1>1, <2>2, <2>3, NodeNumbers
    <3> QED BY <2>2, <2>3, <3>1, BelowLater DEF Gone, Replaced
  <2>4. CASE Label \notin DOMAIN kids[Top]
    BY <2>4 DEF Gone, Replaced
  <2> QED BY <2>3, <2>4
<1>5. \A m \in Live : \A l \in DOMAIN kids[m] : kids[m][l] \in Live /\ kids[m][l] # n
  BY <1>2 DEF Tree, Closed
<1>6. ASSUME NEW m \in Live', NEW l \in DOMAIN kids'[m]
      PROVE  /\ m \in Live /\ m \notin Gone
             /\ \/ m = Top /\ l = Label /\ kids'[m][l] = n
                \/ /\ l \in DOMAIN kids[m] /\ kids'[m][l] = kids[m][l]
                   /\ ~(m = Top /\ l = Label)
  <2>1. m # n
    BY DEF Grown
  <2>2. m \in Live /\ m \notin Gone /\ m \in Nodes
    BY <1>1, <1>3, <2>1
  <2>3. CASE m # Top
    BY <2>2, <2>3 DEF Grown
  <2>4. CASE m = Top
    BY <2>2, <2>4 DEF Grown
  <2> QED BY <2>2, <2>3, <2>4
<1>7. Closed(Live)'
  <2> SUFFICES ASSUME NEW m \in Live', NEW l \in DOMAIN kids'[m] PROVE kids'[m][l] \in Live'
    BY DEF Closed
  <2>1. CASE m = Top /\ l = Label /\ kids'[m][l] = n
    BY <1>3, <2>1
  <2>2. CASE l \in DOMAIN kids[m] /\ kids'[m][l] = kids[m][l] /\ ~(m = Top /\ l = Label)
    <3>1. m \in Live /\ m \notin Gone
      BY <1>6
    <3>2. kids[m][l] \in Live /\ kids[m][l] \notin Gone
      BY <1>5, <2>2, <3>1, Removal
    <3> QED BY <1>3, <2>2, <3>2
  <2> QED BY <1>6, <2>1, <2>2
<1>8. \A i \in DOMAIN containerStack' : containerStack'[i] \in Live'
  <2>1. \A j \in DOMAIN containerStack : containerStack[j] \in Live \ Gone
    BY Removal DEF Tree
  <2> QED BY <1>3, <2>1
<1>9. ASSUME NEW k \in Live' \ {1}
      PROVE  \E m \in Live' : \E l \in DOMAIN kids'[m] : kids'[m][l] = k
  <2>1. CASE k = n
    <3>1. Top \in Live' /\ Label \in DOMAIN kids'[Top] /\ kids'[Top][Label] = n
      BY <1>3, <1>4 DEF Grown
    <3> QED BY <2>1, <3>1
  <2>2. CASE k # n
    <3>1. k \in Live /\ k \notin Gone /\ k # 1
      BY <1>3, <2>2
    <3>2. PICK m \in Live : \E l \in DOMAIN kids[m] : kids[m][l] = k
      BY <3>1 DEF Tree
    <3>3. PICK l \in DOMAIN kids[m] : kids[m][l] = k
      BY <3>2
    <3>4. m \notin Gone /\ ~(m = Top /\ l = Label)
      BY <3>1, <3>3, Removal DEF Closed
    <3>5. l \in DOMAIN kids'[m] /\ kids'[m][l] = k
      <4>1. m \in Nodes
        BY <1>1
      <4>2. CASE m # Top
        BY <3>3, <4>1, <4>2 DEF Grown
      <4>3. CASE m = Top
        BY <3>3, <3>4, <4>3 DEF Grown
      <4> QED BY <4>2, <4>3
    <3> QED BY <1>3, <3>4, <3>5
  <2> QED BY <2>1, <2>2
<1>10. ASSUME NEW m \in Live', NEW k \in Live', NEW l \in DOMAIN kids'[m],
              NEW j \in DOMAIN kids'[k], kids'[m][l] = kids'[k][j]
       PROVE  m = k /\ l = j
  <2>1. /\ m \in Live
        /\ \/ m = Top /\ l = Label /\ kids'[m][l] = n
           \/ l \in DOMAIN kids[m] /\ kids'[m][l] = kids[m][l]
    BY <1>6
  <2>2. /\ k \in Live
        /\ \/ k = Top /\ j = Label /\ kids'[k][j] = n
           \/ j \in DOMAIN kids[k] /\ kids'[k][j] = kids[k][j]
    BY <1>6
  <2> QED BY <1>5, <1>10, <2>1, <2>2 DEF Tree
<1> QED BY <1>2, <1>3, <1>4, <1>7, <1>8, <1>9, <1>10 DEF Tree

\* The stack after a value: a container is pushed.
LEMMA StackGrows ==
  ASSUME containerStack \in Seq(Nodes), NEW t, NEW n,
         containerStack' = Opened(t, n) \o containerStack
  PROVE  /\ containerStack' \in Seq(Nodes \cup {n})
         /\ t \in Container => /\ Len(containerStack') = Len(containerStack) + 1
                               /\ containerStack'[1] = n
                               /\ \A i \in 1..Len(containerStack) :
                                    containerStack'[i + 1] = containerStack[i]
         /\ t \notin Container => containerStack' = containerStack
<1> DEFINE s == containerStack
           r == containerStack'
           V == Nodes \cup {n}
<1>1. s \in Seq(V) /\ Len(s) \in Nat
  <2>1. Len(s) \in Nat /\ s \in [1..Len(s) -> V]
    OBVIOUS
  <2> HIDE DEF s, V
  <2> QED BY <2>1, SeqDef
<1>2. n \in V /\ <<n>> \in Seq(V) /\ Len(<<n>>) = 1 /\ <<n>>[1] = n
  OBVIOUS
<1>3. CASE t \in Container
  <2>1. r = <<n>> \o s
    BY <1>3 DEF Opened
  <2> HIDE DEF r, s, V
  <2>2. /\ r \in Seq(V) /\ Len(r) = 1 + Len(s)
        /\ \A i \in 1..1 + Len(s) : r[i] = IF i <= 1 THEN <<n>>[i] ELSE s[i - 1]
    BY <1>1, <1>2, <2>1, ConcatProperties
  <2>3. \A i \in 1..Len(s) : r[i + 1] = s[i]
    <3> SUFFICES ASSUME NEW i \in 1..Len(s) PROVE r[i + 1] = s[i]
      OBVIOUS
    <3>1. i + 1 \in 1..1 + Len(s) /\ ~(i + 1 <= 1) /\ i + 1 - 1 = i
      BY <1>1
    <3> QED BY <2>2, <3>1
  <2>4. r[1] = n
    BY <1>1, <1>2, <2>2
  <2>5. Len(r) = Len(s) + 1
    BY <1>1, <2>2
  <2> QED BY <1>3, <2>2, <2>3, <2>4, <2>5 DEF r, s, V
<1>4. CASE t \notin Container
  <2>1. containerStack' = <<>> \o containerStack
    BY <1>4 DEF Opened
  <2>2. containerStack' = containerStack
    BY <2>1
  <2> QED BY <1>1, <1>4, <2>2
<1> QED BY <1>3, <1>4

\* The text after a value.
LEMMA TextGrows ==
  ASSUME TypeOK, y.open # <<>>, ValuePath(y) \in Seq(Labels),
         NEW t, y' = Read(y, Value(t))
  PROVE  /\ y' = [open |-> y'.open, paths |-> y'.paths] /\ y'.open \in Seq(Frames) /\ y'.open # <<>>
         /\ y'.paths = {e \in y.paths : ~IsPrefix(ValuePath(y), e[1])} \cup {<<ValuePath(y), t>>}
         /\ Len(y.open) \in Nat \ {0}
         /\ Len(y'.open) = Len(y.open) + (IF t \in Container THEN 1 ELSE 0)
         /\ \A i \in 1..Len(y.open) :
              /\ y'.open[i].type = y.open[i].type /\ y'.open[i].at = y.open[i].at
              /\ y'.open[i].count = IF i = Len(y.open) THEN y.open[i].count + 1 ELSE y.open[i].count
              /\ y'.open[i].keyed = IF i = Len(y.open) THEN "no" ELSE y.open[i].keyed
         /\ t \in Container => y'.open[Len(y.open) + 1] = Frame(t, ValuePath(y))
<1> DEFINE z == Len(y.open)
           c == Last(y.open)
           o == WithLast(y.open, Counted(c))
<1>1. y.open \in Seq(Frames) /\ z \in Nat \ {0} /\ c = y.open[z] /\ c \in Frames
  BY DEF TypeOK, Last
<1>2. /\ Counted(c) \in Frames /\ Counted(c).type = c.type /\ Counted(c).at = c.at
      /\ Counted(c).count = c.count + 1 /\ Counted(c).keyed = "no"
  <2> HIDE DEF c
  <2> QED BY <1>1, CountedFields
<1>3. /\ o \in Seq(Frames) /\ Len(o) = z /\ o[z] = Counted(c) /\ o # <<>>
      /\ \A i \in 1..z : i # z => o[i] = y.open[i]
  <2> DEFINE d == Counted(c)
             x == y.open
  <2>1. d \in Frames /\ x \in Seq(Frames) /\ x # <<>> /\ o = WithLast(x, d)
    BY <1>1, <1>2
  <2> HIDE DEF d, x, o
  <2>2. /\ o \in Seq(Frames) /\ Len(o) = Len(x) /\ o[Len(x)] = d /\ o # <<>>
        /\ \A i \in 1..Len(x) : i # Len(x) => o[i] = x[i]
    <3>1. Len(x) \in Nat \ {0}
      BY <2>1
    <3>2. o \in Seq(Frames) /\ Len(o) = Len(x)
      BY <2>1 DEF WithLast
    <3>3. o # <<>>
      BY <3>1, <3>2
    <3>4. o[Len(x)] = d /\ \A i \in 1..Len(x) : i # Len(x) => o[i] = x[i]
      BY <2>1, <3>1 DEF WithLast
    <3> QED BY <3>2, <3>3, <3>4
  <2> QED BY <2>2 DEF d, x
<1>4. /\ y'.open = IF t \in Container THEN Append(o, Frame(t, ValuePath(y))) ELSE o
      /\ y'.paths = {e \in y.paths : ~IsPrefix(ValuePath(y), e[1])} \cup {<<ValuePath(y), t>>}
      /\ y' = [open |-> y'.open, paths |-> y'.paths]
  <2> DEFINE a == IF t \in Container THEN Append(o, Frame(t, ValuePath(y))) ELSE o
             b == {e \in y.paths : ~IsPrefix(ValuePath(y), e[1])} \cup {<<ValuePath(y), t>>}
  <2>1. y' = [open |-> a, paths |-> b]
    BY ReadValue, Zenon DEF Outer
  <2> HIDE DEF a, b
  <2>2. y'.open = a /\ y'.paths = b /\ y' = [open |-> y'.open, paths |-> y'.paths]
    BY <2>1
  <2> QED BY <2>2 DEF a, b
<1>5. \A i \in 1..z :
         /\ o[i].type = y.open[i].type /\ o[i].at = y.open[i].at
         /\ o[i].count = IF i = z THEN y.open[i].count + 1 ELSE y.open[i].count
         /\ o[i].keyed = IF i = z THEN "no" ELSE y.open[i].keyed
  BY <1>1, <1>2, <1>3
<1> HIDE DEF o
<1>6. CASE t \in Container
  <2> DEFINE f == Frame(t, ValuePath(y))
  <2>1. f \in Frames
    BY <1>6, FrameFields
  <2>2. y'.open = Append(o, f)
    BY <1>4, <1>6
  <2> HIDE DEF f
  <2>3. /\ y'.open \in Seq(Frames) /\ Len(y'.open) = z + 1 /\ y'.open[z + 1] = f
        /\ \A i \in 1..z : y'.open[i] = o[i]
    BY <1>3, <2>1, <2>2, Appended
  <2>4. y'.open # <<>>
    BY <1>1, <2>3
  <2> QED BY <1>1, <1>4, <1>5, <1>6, <2>3, <2>4 DEF f
<1>7. CASE t \notin Container
  <2>1. y'.open = o
    BY <1>4, <1>7
  <2> QED BY <1>1, <1>3, <1>4, <1>5, <1>7, <2>1
<1> QED BY <1>6, <1>7

\* A value that is not the first keeps the invariant.
LEMMA ValueAdded ==
  ASSUME DomInv, type # <<>>, NEW t \in Scalar \cup Container, cb_build_value(t)
  PROVE  DomInv'
<1> DEFINE n == Len(type) + 1
           z == Len(y.open)
           p == ValuePath(y)
<1>1. TypeOK /\ Tree /\ StackInv /\ OpenInv /\ PlaceInv /\ pc = "parse"
  BY DEF DomInv, OwnedOnce, cb_build_value
<1>2. /\ y.open # <<>> /\ Top \in Live /\ Top = containerStack[1] /\ Top \in Nodes
      /\ \A i \in DOMAIN containerStack : containerStack[i] <= Top
      /\ Label \in Labels /\ at[Top] \in Seq(Labels)
      /\ p = Append(at[Top], Label) /\ p \in Seq(Labels)
      /\ Entry(z) = Top
      /\ Last(y.open).type = "array" => Label = <<0, Last(y.open).count>>
  BY <1>1, Insertion DEF cb_build_value, Live
<1>3. /\ containerStack # <<>> /\ Len(containerStack) = z + 1 /\ containerStack \in Seq(Nodes)
      /\ Last(containerStack) = 1 /\ y.paths = {<<at[k], type[k]>> : k \in Live}
  BY <1>1, RootLives DEF TypeOK, PlaceInv
<1>4. AddValue(t) /\ y' = Read(y, Value(t)) /\ pc' = pc /\ result' = result
  BY DEF cb_build_value
<1>5. Grown(t, n)
  BY <1>1, <1>2, <1>3, <1>4, Grows
<1>6. /\ y' = [open |-> y'.open, paths |-> y'.paths] /\ y'.open \in Seq(Frames)
      /\ y'.open # <<>> /\ z \in Nat \ {0}
      /\ y'.paths = {e \in y.paths : ~IsPrefix(p, e[1])} \cup {<<p, t>>}
      /\ Len(y'.open) = z + (IF t \in Container THEN 1 ELSE 0)
      /\ \A i \in 1..z :
              /\ y'.open[i].type = y.open[i].type /\ y'.open[i].at = y.open[i].at
              /\ y'.open[i].count = IF i = z THEN y.open[i].count + 1 ELSE y.open[i].count
              /\ y'.open[i].keyed = IF i = z THEN "no" ELSE y.open[i].keyed
      /\ t \in Container => y'.open[z + 1] = Frame(t, p)
  BY <1>1, <1>2, <1>4, TextGrows
<1>7. /\ containerStack' \in Seq(Nodes \cup {n})
      /\ t \in Container => /\ Len(containerStack') = z + 2 /\ containerStack'[1] = n
                            /\ \A i \in 1..z + 1 : containerStack'[i + 1] = containerStack[i]
      /\ t \notin Container => containerStack' = containerStack
  <2>1. containerStack' = Opened(t, n) \o containerStack
    BY <1>5 DEF Grown
  <2>2. /\ containerStack' \in Seq(Nodes \cup {n})
        /\ t \in Container => /\ Len(containerStack') = Len(containerStack) + 1
                              /\ containerStack'[1] = n
                              /\ \A i \in 1..Len(containerStack) :
                                   containerStack'[i + 1] = containerStack[i]
        /\ t \notin Container => containerStack' = containerStack
    BY <1>3, <2>1, StackGrows
  <2> QED BY <1>3, <1>6, <2>2
<1>8. Nodes' = Nodes \cup {n} /\ n \in Nat /\ Nodes = 1..Len(type) /\ Len(type) \in Nat
  BY <1>1, <1>5, NodeNumbers DEF Grown
<1>9. /\ Len(containerStack') = Len(y'.open) + 1 /\ Len(y'.open) \in Nat
      /\ Last(containerStack') = 1
  <2>1. CASE t \in Container
    <3>1. containerStack'[z + 2] = containerStack[z + 1]
      BY <1>6, <1>7, <2>1, SMTT(90)
    <3> QED BY <1>3, <1>6, <1>7, <2>1, <3>1 DEF Last
  <2>2. CASE t \notin Container
    BY <1>3, <1>6, <1>7, <2>2
  <2> QED BY <2>1, <2>2
<1>10. TypeOK'
  <2>1. ASSUME NEW k \in Nodes'
        PROVE  /\ DOMAIN kids'[k] \subseteq Labels
               /\ \A l \in DOMAIN kids'[k] : kids'[k][l] \in k + 1..Len(type')
    <3>1. Len(type') = Len(type) + 1
      BY <1>5 DEF Grown
    <3>2. CASE k = n
      BY <1>5, <3>2 DEF Grown
    <3>3. CASE k \in Nodes /\ k # Top
      <4>1. kids'[k] = kids[k]
        BY <1>5, <3>3 DEF Grown
      <4>2. /\ DOMAIN kids[k] \subseteq Labels
            /\ \A l \in DOMAIN kids[k] : kids[k][l] \in k + 1..Len(type)
        BY <1>1, <3>3 DEF TypeOK
      <4> QED BY <1>8, <3>1, <3>3, <4>1, <4>2
    <3>4. CASE k = Top
      <4>1. /\ DOMAIN kids[Top] \subseteq Labels
            /\ \A l \in DOMAIN kids[Top] : kids[Top][l] \in Top + 1..Len(type)
        BY <1>1, <1>2 DEF TypeOK
      <4>2. n \in Top + 1..Len(type')
        BY <1>2, <1>8, <3>1
      <4>3. /\ DOMAIN kids'[Top] = DOMAIN kids[Top] \cup {Label} /\ kids'[Top][Label] = n
            /\ \A l \in DOMAIN kids[Top] : l # Label => kids'[Top][l] = kids[Top][l]
        BY <1>5 DEF Grown
      <4> QED BY <1>2, <1>8, <3>1, <3>4, <4>1, <4>2, <4>3
    <3> QED BY <1>8, <3>2, <3>3, <3>4
  <2>2. /\ type' \in Seq(Scalar \cup Container) /\ kids' = [k \in Nodes' |-> kids'[k]]
        /\ at' \in Seq(Seq(Labels)) /\ Len(at') = Len(type') /\ tmpMapKay' = tmpMapKay
        /\ type' # <<>>
    <3>1. Len(type') = n
      BY <1>5 DEF Grown
    <3>2. type' # <<>>
      BY <1>8, <3>1
    <3> QED BY <1>5, <3>2 DEF Grown
  <2>3. freed' \subseteq Nodes'
    <3>1. Gone \subseteq Nodes /\ freed \subseteq Nodes
      BY <1>1, <1>2, Removal DEF Live, TypeOK
    <3> QED BY <1>5, <1>8, <3>1 DEF Grown
  <2>4. containerStack' \in Seq(Nodes')
    BY <1>7, <1>8
  <2> QED BY <1>1, <1>4, <1>6, <1>8, <1>9, <2>1, <2>2, <2>3, <2>4 DEF TypeOK
<1>11. Tree' /\ Live' = (Live \ Gone) \cup {n} /\ Top \notin Gone /\ n \notin Live
  <2>1. \A i \in DOMAIN containerStack' :
          containerStack'[i] = n \/ \E j \in DOMAIN containerStack :
                                      containerStack'[i] = containerStack[j]
    <3> SUFFICES ASSUME NEW i \in DOMAIN containerStack', containerStack'[i] # n
                 PROVE  \E j \in DOMAIN containerStack : containerStack'[i] = containerStack[j]
      OBVIOUS
    <3>1. CASE t \in Container
      <4>1. i \in 1..z + 2 /\ i # 1
        BY <1>7, <3>1
      <4>2. i - 1 \in 1..z + 1 /\ (i - 1) + 1 = i
        BY <1>6, <4>1
      <4>3. containerStack'[i] = containerStack[i - 1] /\ i - 1 \in DOMAIN containerStack
        BY <1>3, <1>7, <3>1, <4>2, SMTT(30)
      <4> QED BY <4>3
    <3>2. CASE t \notin Container
      BY <1>7, <3>2
    <3> QED BY <3>1, <3>2
  <2> QED BY <1>1, <1>2, <1>5, <2>1, TreeGrows
<1>12. StackInv'
  <2>1. ASSUME NEW i \in 1..Len(y'.open), NEW j \in 1..Len(y'.open), i < j
        PROVE  containerStack'[i] > containerStack'[j]
    <3>1. CASE t \notin Container
      BY <1>1, <1>6, <1>7, <2>1, <3>1 DEF StackInv
    <3>2. CASE t \in Container
      <4>1. j - 1 \in 1..z /\ (j - 1) + 1 = j /\ j - 1 \in 1..z + 1
        BY <1>6, <2>1, <3>2
      <4>2. containerStack'[j] = containerStack[j - 1] /\ containerStack[j - 1] \in Nodes
        BY <1>3, <1>7, <3>2, <4>1, SMTT(30)
      <4>3. CASE i = 1
        BY <1>7, <1>8, <3>2, <4>2, <4>3
      <4>4. CASE i # 1
        <5>1. i - 1 \in 1..z /\ (i - 1) + 1 = i /\ i - 1 \in 1..z + 1 /\ i - 1 < j - 1
          BY <1>6, <2>1, <4>1, <4>4
        <5>2. containerStack'[i] = containerStack[i - 1]
          BY <1>7, <3>2, <5>1
        <5> QED BY <1>1, <4>1, <4>2, <5>1, <5>2 DEF StackInv
      <4> QED BY <4>3, <4>4
    <3> QED BY <3>1, <3>2
  <2> QED BY <1>1, <1>4, <1>9, <2>1 DEF StackInv
<1>13. ASSUME NEW i \in 1..z
       PROVE  Entry(i)' = Entry(i) /\ Entry(i) \in Nodes /\ (i # z => Entry(i) # Top)
  <2>1. z + 1 - i \in 1..z /\ z + 1 - i \in 1..z + 1
    BY <1>6
  <2>2. Entry(i) = containerStack[z + 1 - i] /\ Entry(i) \in Nodes
    BY <1>3, <2>1 DEF Entry
  <2>3. Entry(i)' = containerStack'[Len(y'.open) + 1 - i]
    BY DEF Entry
  <2>4. Entry(i)' = Entry(i)
    <3>1. CASE t \in Container
      <4>1. Len(y'.open) + 1 - i = (z + 1 - i) + 1
        BY <1>6, <3>1
      <4> QED BY <1>7, <2>1, <2>2, <2>3, <3>1, <4>1
    <3>2. CASE t \notin Container
      <4>1. Len(y'.open) = z
        BY <1>6, <3>2
      <4> QED BY <1>7, <2>2, <2>3, <3>2, <4>1
    <3> QED BY <3>1, <3>2
  <2>5. ASSUME i # z PROVE Entry(i) # Top
    <3>1. 1 < z + 1 - i /\ 1 \in 1..z
      BY <1>6, <2>1, <2>5
    <3>2. Top > Entry(i)
      BY <1>1, <1>2, <2>1, <2>2, <3>1 DEF StackInv
    <3> QED BY <1>2, <1>8, <2>2, <3>2
  <2> QED BY <2>2, <2>4, <2>5
<1>14. OpenInv'
  <2>1. ASSUME NEW i \in DOMAIN y'.open
        PROVE  /\ type'[Entry(i)'] = y'.open[i].type /\ at'[Entry(i)'] = y'.open[i].at
               /\ y'.open[i].type = "array" =>
                    DOMAIN kids'[Entry(i)'] = {<<0, j>> : j \in 1..y'.open[i].count - 1}
               /\ y'.open[i].keyed # "yes"
    <3>1. CASE i \in 1..z
      <4>1. /\ type[Entry(i)] = y.open[i].type /\ at[Entry(i)] = y.open[i].at
            /\ y.open[i].type = "array" =>
                 DOMAIN kids[Entry(i)] = {<<0, j>> : j \in 1..y.open[i].count - 1}
            /\ y.open[i].keyed = "yes" => i = z
        <5>1. i \in DOMAIN y.open
          BY <1>1, <3>1 DEF TypeOK
        <5> QED BY <1>1, <5>1 DEF OpenInv
      <4>2. /\ type'[Entry(i)'] = type[Entry(i)] /\ at'[Entry(i)'] = at[Entry(i)]
        BY <1>5, <1>13, <3>1 DEF Grown
      <4>3. y'.open[i].keyed # "yes"
        BY <1>6, <3>1, <4>1
      <4>4. CASE i # z
        <5>1. kids'[Entry(i)'] = kids[Entry(i)] /\ y'.open[i].count = y.open[i].count
          BY <1>5, <1>6, <1>13, <3>1, <4>4 DEF Grown
        <5> QED BY <1>6, <3>1, <4>1, <4>2, <4>3, <5>1
      <4>5. CASE i = z
        <5>1. ASSUME y.open[z].type = "array"
              PROVE  DOMAIN kids'[Top] = {<<0, j>> : j \in 1..y'.open[z].count - 1}
          <6> DEFINE c == y.open[z].count
          <6>1. c \in Nat \ {0} /\ y'.open[z].count = c + 1
            <7>1. y.open[z] \in Frames
              BY <1>1, <1>6 DEF TypeOK
            <7>2. z \in 1..z
              BY <1>6
            <7>3. y'.open[z].count = y.open[z].count + 1
              BY <1>6, <7>2
            <7> QED BY <7>1, <7>3 DEF Frames
          <6>2. Label = <<0, c>>
            BY <1>2, <5>1 DEF Last
          <6>3. DOMAIN kids[Top] = {<<0, j>> : j \in 1..c - 1}
            BY <1>2, <4>1, <4>5, <5>1
          <6>4. DOMAIN kids'[Top] = {<<0, j>> : j \in 1..c - 1} \cup {<<0, c>>}
            BY <1>5, <6>2, <6>3 DEF Grown
          <6>5. y'.open[z].count - 1 = c /\ 1..c = (1..c - 1) \cup {c}
            BY <6>1, SMTT(30)
          <6> HIDE DEF c
          <6> QED BY <6>4, <6>5
        <5> QED BY <1>2, <1>6, <1>13, <3>1, <4>1, <4>2, <4>3, <4>5, <5>1
      <4> QED BY <4>4, <4>5
    <3>2. CASE i \notin 1..z
      <4>1. t \in Container /\ i = z + 1
        <5> DEFINE o == y'.open
        <5>1. o \in Seq(Frames) /\ i \in DOMAIN o /\ z \in Nat
          BY <1>6
        <5>2. Len(o) = z + (IF t \in Container THEN 1 ELSE 0)
          BY <1>6
        <5> HIDE DEF o, z
        <5>3. i \in 1..Len(o)
          BY <5>1
        <5>4. CASE t \in Container
          BY <3>2, <5>1, <5>2, <5>3, <5>4
        <5>5. CASE t \notin Container
          BY <3>2, <5>1, <5>2, <5>3, <5>5
        <5> QED BY <5>4, <5>5
      <4>2. Entry(i)' = n
        <5>1. Len(y'.open) + 1 - i = 1
          BY <1>6, <4>1
        <5> QED BY <1>7, <4>1, <5>1 DEF Entry
      <4>3. /\ y'.open[i].type = t /\ y'.open[i].at = p /\ y'.open[i].count = 1
            /\ y'.open[i].keyed = "no"
        <5>1. y'.open[i] = Frame(t, p)
          BY <1>6, <4>1
        <5> DEFINE f == y'.open[i]
        <5>2. t \in Container /\ p \in Seq(Labels) /\ f = Frame(t, p)
          BY <1>2, <4>1, <5>1
        <5> HIDE DEF f, p
        <5>3. f.type = t /\ f.at = p /\ f.count = 1 /\ f.keyed = "no"
          BY <5>2, FrameFields
        <5> QED BY <5>3 DEF f
      <4>4. type'[n] = t /\ at'[n] = p /\ DOMAIN kids'[n] = {}
        BY <1>5 DEF Grown
      <4>5. {<<0, j>> : j \in 1..y'.open[i].count - 1} = {}
        BY <4>3
      <4> QED BY <4>2, <4>3, <4>4, <4>5
    <3> QED BY <3>1, <3>2
  <2> QED BY <2>1 DEF OpenInv
<1>15. ASSUME NEW k \in Live \ Gone PROVE at'[k] = at[k] /\ type'[k] = type[k] /\ at[k] # p
  <2>1. k \in Nodes /\ k \in Live /\ k \notin Gone
    BY DEF Live
  <2>2. ~IsPrefix(p, at[k])
    BY <1>1, <1>2, <2>1, RemovedPaths
  <2>3. Len(p) \in Nat /\ IsPrefix(p, p)
    <3>1. Len(p) \in Nat
      BY <1>2
    <3>2. p \in Seq(Labels)
      BY <1>2
    <3> HIDE DEF p
    <3> QED BY <3>1, <3>2, PrefixElements
  <2> QED BY <1>5, <2>1, <2>2, <2>3 DEF Grown
<1>16. PlaceInv'
  <2>1. at'[1] = <<>>
    <3>1. 1 \in Nodes
      BY <1>2, <1>8
    <3> QED BY <1>1, <1>5, <3>1 DEF PlaceInv, Grown
  <2>2. ASSUME NEW m \in Nodes', NEW l \in DOMAIN kids'[m]
        PROVE  at'[kids'[m][l]] = Append(at'[m], l)
    <3>1. m # n /\ m \in Nodes
      BY <1>5, <1>8 DEF Grown
    <3>2. at'[m] = at[m] /\ at'[n] = p
      BY <1>5, <3>1 DEF Grown
    <3>3. CASE m = Top /\ l = Label
      BY <1>2, <1>5, <3>2, <3>3 DEF Grown
    <3>4. CASE ~(m = Top /\ l = Label)
      <4>1. l \in DOMAIN kids[m] /\ kids'[m][l] = kids[m][l]
        BY <1>5, <3>1, <3>4 DEF Grown
      <4>2. kids[m][l] \in Nodes /\ at[kids[m][l]] = Append(at[m], l)
        BY <1>1, <3>1, <4>1, BelowStep DEF PlaceInv
      <4>3. at'[kids[m][l]] = at[kids[m][l]]
        BY <1>5, <4>2 DEF Grown
      <4> QED BY <3>2, <4>1, <4>2, <4>3
    <3> QED BY <3>3, <3>4
  <2>3. ASSUME NEW m \in Live', NEW k \in Live', at'[m] = at'[k] PROVE m = k
    <3>1. at'[n] = p
      BY <1>5 DEF Grown
    <3>2. (m = n \/ m \in Live \ Gone) /\ (k = n \/ k \in Live \ Gone)
      BY <1>11
    <3> QED BY <1>1, <1>15, <2>3, <3>1, <3>2 DEF PlaceInv
  <2>4. y'.paths = {<<at'[k], type'[k]>> : k \in Live'}
    <3>1. at'[n] = p /\ type'[n] = t
      BY <1>5 DEF Grown
    <3>2. {e \in y.paths : ~IsPrefix(p, e[1])} = {<<at[k], type[k]>> : k \in Live \ Gone}
      <4>1. \A k \in Live : <<at[k], type[k]>>[1] = at[k]
        OBVIOUS
      <4>2. \A k \in Live : k \in Gone <=> IsPrefix(p, at[k])
        BY <1>1, <1>2, RemovedPaths
      <4> QED BY <1>3, <4>1, <4>2
    <3>3. {<<at[k], type[k]>> : k \in Live \ Gone} = {<<at'[k], type'[k]>> : k \in Live \ Gone}
      BY <1>15
    <3> HIDE DEF p
    <3> QED BY <1>6, <1>11, <3>1, <3>2, <3>3
  <2> QED BY <2>1, <2>2, <2>3, <2>4 DEF PlaceInv
<1> QED BY <1>1, <1>4, <1>10, <1>11, <1>12, <1>14, <1>16 DEF DomInv, OwnedOnce

\* The first value of a text becomes the root.
LEMMA FirstValue ==
  ASSUME DomInv, type = <<>>, NEW t \in Scalar \cup Container, cb_build_value(t)
  PROVE  DomInv'
<1>1. TypeOK /\ PlaceInv /\ pc = "parse"
  BY DEF DomInv, cb_build_value
<1>2. /\ y.open = <<>> /\ containerStack = <<>> /\ kids = <<>> /\ at = <<>> /\ freed = {}
      /\ Nodes = {} /\ y.paths = {} /\ result = 0 /\ tmpMapKay \in Key \cup {<<>>}
  <2>1. Nodes = {} /\ Len(type) = 0
    BY DEF Nodes
  <2>2. y.open = <<>> /\ freed = {} /\ tmpMapKay \in Key \cup {<<>>} /\ result = 0
    BY <1>1, <2>1 DEF TypeOK
  <2>3. Len(containerStack) = 0 /\ containerStack \in Seq(Nodes)
    BY <1>1 DEF TypeOK
  <2>4. Len(at) = 0 /\ at \in Seq(Seq(Labels))
    BY <1>1, <2>1 DEF TypeOK
  <2>5. kids = [k \in {} |-> kids[k]]
    BY <1>1, <2>1 DEF TypeOK
  <2>6. Live = {}
    BY <2>1 DEF Live
  <2>7. y.paths = {}
    BY <1>1, <2>6 DEF PlaceInv
  <2> QED BY <2>1, <2>2, <2>3, <2>4, <2>5, <2>7, EmptySeq
<1>3. /\ type' = <<t>> /\ at' = << <<>> >> /\ kids' = << <<>> >> /\ freed' = {}
      /\ containerStack' = Opened(t, 1) \o <<1>> /\ tmpMapKay' = tmpMapKay
      /\ y' = Read(y, Value(t)) /\ pc' = "parse" /\ result' = 0
  <2>1. Len(type) + 1 = 1 /\ Append(type, t) = <<t>> /\ Append(at, ValuePath(y)) = << <<>> >>
        /\ Append(kids, <<>>) = << <<>> >>
    BY <1>2 DEF ValuePath
  <2> QED BY <1>1, <1>2, <2>1 DEF cb_build_value, AddValue
<1>4. /\ Nodes' = {1} /\ type'[1] = t /\ at'[1] = <<>> /\ DOMAIN kids'[1] = {} /\ Live' = {1}
      /\ Len(type') = 1 /\ Len(at') = 1
  BY <1>3 DEF Nodes, Live
<1>5. /\ y' = [open |-> y'.open, paths |-> y'.paths]
      /\ y'.open = IF t \in Container THEN <<Frame(t, <<>>)>> ELSE <<>>
      /\ y'.paths = {<< <<>>, t >>}
  <2>1. ValuePath(y) = <<>> /\ Outer = <<>>
    BY <1>2 DEF ValuePath, Outer
  <2>2. y' = [open  |-> IF t \in Container THEN Append(<<>>, Frame(t, <<>>)) ELSE <<>>,
              paths |-> {e \in y.paths : ~IsPrefix(<<>>, e[1])} \cup {<< <<>>, t >>}]
    BY <1>3, <2>1, ReadValue
  <2>3. Append(<<>>, Frame(t, <<>>)) = <<Frame(t, <<>>)>>
    OBVIOUS
  <2>4. {e \in y.paths : ~IsPrefix(<<>>, e[1])} \cup {<< <<>>, t >>} = {<< <<>>, t >>}
    BY <1>2
  <2> QED BY <2>2, <2>3, <2>4
<1>6. /\ t \in Container => containerStack' = <<1, 1>>
      /\ t \notin Container => containerStack' = <<1>>
  <2>1. <<1>> \o <<1>> = <<1, 1>>
    <3> DEFINE a == <<1>> \o <<1>>
               b == <<1, 1>>
    <3>1. /\ a \in Seq(Nat) /\ b \in Seq(Nat) /\ Len(a) = 2 /\ Len(b) = 2
          /\ a[1] = 1 /\ a[2] = 1 /\ b[1] = 1 /\ b[2] = 1
      OBVIOUS
    <3> HIDE DEF a, b
    <3>2. \A i \in 1..Len(a) : a[i] = b[i]
      BY <3>1
    <3>3. a = b
      BY <3>1, <3>2, SeqEqual
    <3> QED BY <3>3 DEF a, b
  <2>2. t \in Container => containerStack' = <<1>> \o <<1>>
    BY <1>3 DEF Opened
  <2>3. t \notin Container => containerStack' = <<1>>
    BY <1>3 DEF Opened
  <2> QED BY <2>1, <2>2, <2>3
<1>7. /\ y'.open \in Seq(Frames) /\ Len(y'.open) = IF t \in Container THEN 1 ELSE 0
      /\ t \in Container => /\ y'.open[1].type = t /\ y'.open[1].at = <<>>
                            /\ y'.open[1].count = 1 /\ y'.open[1].keyed = "no"
  <2>1. CASE t \in Container
    <3> DEFINE f == Frame(t, <<>>)
    <3>1. f \in Frames /\ f.type = t /\ f.at = <<>> /\ f.count = 1 /\ f.keyed = "no"
      <4> DEFINE e == <<>>
      <4>1. e \in Seq(Labels) /\ t \in Container /\ f = Frame(t, e)
        BY <2>1
      <4> HIDE DEF e, f
      <4>2. f \in Frames /\ f.type = t /\ f.at = e /\ f.count = 1 /\ f.keyed = "no"
        BY <4>1, FrameFields
      <4> QED BY <4>2 DEF e
    <3>2. y'.open = <<f>>
      BY <1>5, <2>1
    <3> HIDE DEF f
    <3> QED BY <2>1, <3>1, <3>2
  <2>2. CASE t \notin Container
    BY <1>5, <2>2
  <2> QED BY <2>1, <2>2
<1>8. /\ containerStack' \in Seq(Nodes') /\ Len(containerStack') = Len(y'.open) + 1
      /\ \A i \in DOMAIN containerStack' : containerStack'[i] = 1
      /\ Last(containerStack') = 1
  <2>1. CASE t \in Container
    <3>1. containerStack' = <<1, 1>> /\ Len(y'.open) = 1
      BY <1>6, <1>7, <2>1
    <3> QED BY <1>4, <3>1 DEF Last
  <2>2. CASE t \notin Container
    <3>1. containerStack' = <<1>> /\ Len(y'.open) = 0
      BY <1>6, <1>7, <2>2
    <3> QED BY <1>4, <3>1 DEF Last
  <2> QED BY <2>1, <2>2
<1>9. TypeOK'
  <2>1. type' \in Seq(Scalar \cup Container) /\ type' # <<>> /\ at' \in Seq(Seq(Labels))
    <3>1. <<>> \in Seq(Labels)
      OBVIOUS
    <3> QED BY <1>3, <3>1
  <2>2. kids' = [k \in Nodes' |-> kids'[k]]
    BY <1>3, <1>4
  <2> QED BY <1>2, <1>3, <1>4, <1>5, <1>7, <1>8, <2>1, <2>2 DEF TypeOK
<1>10. OwnedOnce'
  BY <1>3, <1>4, <1>8 DEF OwnedOnce, Tree, Closed
<1>11. StackInv'
  BY <1>3, <1>7, <1>8 DEF StackInv
<1>12. OpenInv'
  <2>1. CASE t \in Container
    <3>1. ASSUME NEW i \in DOMAIN y'.open PROVE i = 1 /\ Entry(i)' = 1
      BY <1>6, <1>7, <2>1 DEF Entry
    <3>2. {<<0, j>> : j \in 1..y'.open[1].count - 1} = {}
      BY <1>7, <2>1
    <3> QED BY <1>4, <1>7, <2>1, <3>1, <3>2 DEF OpenInv
  <2>2. CASE t \notin Container
    BY <1>5, <2>2 DEF OpenInv
  <2> QED BY <2>1, <2>2
<1>13. PlaceInv'
  <2>1. y'.paths = {<<at'[k], type'[k]>> : k \in Live'}
    BY <1>4, <1>5
  <2> QED BY <1>4, <2>1 DEF PlaceInv
<1> QED BY <1>9, <1>10, <1>11, <1>12, <1>13 DEF DomInv

\* A key goes to the buffer and to the text.
LEMMA KeyRead ==
  ASSUME DomInv, NEW k \in Key, cb_build_map_key(k)
  PROVE  DomInv'
<1>1. /\ TypeOK /\ OwnedOnce /\ StackInv /\ OpenInv /\ PlaceInv
      /\ UNCHANGED <<type, kids, at, containerStack, freed, pc, result>>
      /\ y' = Read(y, KeyTok(k)) /\ k \in Labels
  BY KeysAreLabels DEF DomInv, cb_build_map_key
<1>2. y.open # <<>>
  <2>1. KeyTok(k).tok = "key" /\ \A t : Value(t).tok = "value"
    BY DEF KeyTok, Value
  <2> QED BY <2>1 DEF cb_build_map_key, Allowed
<1>3. tmpMapKay' = k
  <2>1. k \in Seq(Nat) /\ tmpMapKay \in Seq(Nat)
    BY <1>1, KeysAreLabels DEF TypeOK, Labels
  <2> DEFINE a == SubSeq(tmpMapKay, Len(k) + 1, Len(tmpMapKay))
  <2>2. a \in Seq(Nat) /\ Len(k) \in Nat
    BY <2>1
  <2>3. tmpMapKay' = SubSeq(k \o a, 1, Len(k))
    BY DEF cb_build_map_key, NewKey, Overwrite
  <2> HIDE DEF a
  <2>4. SubSeq(k \o a, 1, Len(k)) = k
    BY <2>1, <2>2
  <2> QED BY <2>3, <2>4
<1> DEFINE x == y.open
           z == Len(x)
           c == Last(x)
           d == [c EXCEPT !.key = k, !.keyed = "yes"]
           o == WithLast(x, d)
<1>4. y'.open = o /\ y'.paths = y.paths /\ y' = [open |-> y'.open, paths |-> y'.paths]
  <2>1. Read(y, KeyTok(k)) = [open |-> o, paths |-> y.paths]
    BY <1>1, ReadOther
  <2> HIDE DEF o
  <2> QED BY <1>1, <2>1
<1>5. x \in Seq(Frames) /\ z \in Nat \ {0} /\ c = x[z] /\ c \in Frames
  BY <1>1, <1>2 DEF TypeOK, Last
<1>6. /\ d \in Frames /\ d.type = c.type /\ d.at = c.at /\ d.count = c.count /\ d.key = k
      /\ d.keyed = "yes"
  <2>1. c \in Frames /\ k \in Labels /\ d = [c EXCEPT !.key = k, !.keyed = "yes"]
    BY <1>1, <1>5
  <2> HIDE DEF c, d
  <2> QED BY <2>1 DEF Frames
<1>7. /\ o \in Seq(Frames) /\ Len(o) = z /\ o # <<>> /\ o[z] = d
      /\ \A i \in 1..z : i # z => o[i] = x[i]
  <2> HIDE DEF d, x
  <2>1. o \in Seq(Frames) /\ Len(o) = z
    BY <1>5, <1>6 DEF WithLast
  <2>2. o[z] = d /\ \A i \in 1..z : i # z => o[i] = x[i]
    BY <1>5, <1>6 DEF WithLast
  <2>3. o # <<>>
    BY <1>5, <2>1
  <2> QED BY <2>1, <2>2, <2>3
<1>8. \A i \in 1..z : o[i].type = x[i].type /\ o[i].at = x[i].at /\ o[i].count = x[i].count
  BY <1>5, <1>6, <1>7
<1>9. ASSUME NEW i \in 1..z, o[i].keyed = "yes" PROVE i = Len(o) /\ o[i].key = k
  <2>1. i \in DOMAIN x
    BY <1>5
  <2>2. x[i].keyed = "yes" => i = z
    BY <1>1, <2>1 DEF OpenInv
  <2> QED BY <1>6, <1>7, <1>9, <2>2
<1> HIDE DEF d, o
<1>10. TypeOK'
  <2>1. Nodes' = Nodes /\ Len(y'.open) = Len(y.open)
    BY <1>1, <1>4, <1>7 DEF Nodes
  <2>2. type # <<>>
    BY <1>1, <1>2 DEF TypeOK
  <2> QED BY <1>1, <1>3, <1>4, <1>7, <2>1, <2>2 DEF TypeOK
<1>11. OwnedOnce'
  BY <1>1 DEF OwnedOnce, Tree, Closed, Live, Nodes
<1>12. StackInv'
  BY <1>1, <1>4, <1>7 DEF StackInv
<1>13. OpenInv'
  <2>1. \A i : Entry(i)' = Entry(i)
    BY <1>1, <1>4, <1>7 DEF Entry
  <2>2. DOMAIN y'.open = 1..z /\ DOMAIN x = 1..z
    BY <1>4, <1>5, <1>7
  <2> QED BY <1>1, <1>3, <1>4, <1>8, <1>9, <2>1, <2>2 DEF OpenInv
<1>14. PlaceInv'
  BY <1>1, <1>4 DEF PlaceInv, Live, Nodes
<1> QED BY <1>10, <1>11, <1>12, <1>13, <1>14 DEF DomInv

\* The end of a container: the next one on the stack is open again.
LEMMA ContainerEnds ==
  ASSUME DomInv, cb_build_end_container
  PROVE  DomInv'
<1>1. /\ TypeOK /\ OwnedOnce /\ StackInv /\ OpenInv /\ PlaceInv /\ pc = "parse"
      /\ UNCHANGED <<type, kids, at, tmpMapKay, freed, pc, result>>
      /\ y' = Read(y, End) /\ containerStack' = Tail(containerStack)
  BY DEF DomInv, cb_build_end_container, popContainerStack
<1>2. y.open # <<>>
  <2>1. End.tok = "end" /\ \A t : Value(t).tok = "value"
    BY DEF End, Value
  <2> QED BY <2>1 DEF cb_build_end_container, Allowed
<1> DEFINE z == Len(y.open)
           o == Front(y.open)
<1>3. y'.open = o /\ y'.paths = y.paths /\ y' = [open |-> y'.open, paths |-> y'.paths]
  <2>1. Read(y, End) = [open |-> o, paths |-> y.paths]
    BY <1>1, ReadOther
  <2> HIDE DEF o
  <2> QED BY <1>1, <2>1
<1>4. y.open \in Seq(Frames) /\ z \in Nat \ {0} /\ type # <<>>
  BY <1>1, <1>2 DEF TypeOK
<1>5. o \in Seq(Frames) /\ Len(o) = z - 1 /\ \A i \in 1..z - 1 : o[i] = y.open[i]
  BY <1>4 DEF Front
<1>6. /\ containerStack \in Seq(Nodes) /\ Len(containerStack) = z + 1 /\ containerStack # <<>>
      /\ Last(containerStack) = 1
  BY <1>1, <1>4 DEF TypeOK, StackInv
<1>7. /\ containerStack' \in Seq(Nodes) /\ Len(containerStack') = z
      /\ \A i \in 1..z : containerStack'[i] = containerStack[i + 1]
  BY <1>1, <1>4, <1>6, HeadTailProperties
<1> HIDE DEF o
<1>8. Last(containerStack') = 1
  BY <1>4, <1>6, <1>7 DEF Last
<1>9. TypeOK'
  <2>1. Nodes' = Nodes /\ Len(y'.open) = z - 1
    BY <1>1, <1>3, <1>5 DEF Nodes
  <2>2. Len(containerStack') = Len(y'.open) + 1
    BY <1>4, <1>7, <2>1
  <2> QED BY <1>1, <1>3, <1>4, <1>5, <1>7, <2>1, <2>2 DEF TypeOK
<1>10. OwnedOnce'
  <2>1. \A i \in DOMAIN containerStack' : containerStack'[i] \in Live
    <3>1. \A i \in DOMAIN containerStack : containerStack[i] \in Live
      BY <1>1 DEF OwnedOnce, Tree
    <3>2. \A i \in DOMAIN containerStack' : i \in 1..z /\ i + 1 \in DOMAIN containerStack
      BY <1>4, <1>6, <1>7
    <3> QED BY <1>7, <3>1, <3>2
  <2>2. Live' = Live /\ Nodes' = Nodes
    BY <1>1 DEF Live, Nodes
  <2> QED BY <1>1, <2>1, <2>2 DEF OwnedOnce, Tree, Closed
<1>11. StackInv'
  <2>1. ASSUME NEW i \in 1..Len(y'.open), NEW j \in 1..Len(y'.open), i < j
        PROVE  containerStack'[i] > containerStack'[j]
    <3>1. i \in 1..z /\ j \in 1..z /\ i + 1 \in 1..z /\ j + 1 \in 1..z /\ i + 1 < j + 1
      BY <1>3, <1>4, <1>5, <2>1
    <3> QED BY <1>1, <1>7, <3>1 DEF StackInv
  <2> QED BY <1>1, <1>8, <2>1 DEF StackInv
<1>12. OpenInv'
  <2>1. ASSUME NEW i \in 1..z - 1 PROVE Entry(i)' = Entry(i)
    <3>1. Entry(i)' = containerStack'[z - 1 + 1 - i]
      BY <1>3, <1>5 DEF Entry
    <3>2. z - 1 + 1 - i \in 1..z /\ (z - 1 + 1 - i) + 1 = z + 1 - i
      BY <1>4
    <3> QED BY <1>7, <3>1, <3>2 DEF Entry
  <2>2. DOMAIN y'.open = 1..z - 1 /\ DOMAIN y.open = 1..z
    BY <1>3, <1>4, <1>5
  <2>3. ASSUME NEW i \in DOMAIN y'.open
        PROVE  /\ type'[Entry(i)'] = y'.open[i].type /\ at'[Entry(i)'] = y'.open[i].at
               /\ y'.open[i].type = "array" =>
                    DOMAIN kids'[Entry(i)'] = {<<0, j>> : j \in 1..y'.open[i].count - 1}
               /\ y'.open[i].keyed # "yes"
    <3>1. i \in 1..z - 1 /\ i # z /\ i \in DOMAIN y.open /\ y'.open[i] = y.open[i]
      BY <1>3, <1>4, <1>5, <2>2
    <3> QED BY <1>1, <2>1, <3>1 DEF OpenInv
  <2> QED BY <2>3 DEF OpenInv
<1>13. PlaceInv'
  BY <1>1, <1>3 DEF PlaceInv, Live, Nodes
<1> QED BY <1>9, <1>10, <1>11, <1>12, <1>13 DEF DomInv

\* A step of jdParser_buildDom() or of the tree's user changes neither the tree nor the text.
LEMMA TreeKept ==
  ASSUME DomInv, UNCHANGED <<y, type, kids, at, containerStack, tmpMapKay>>,
         freed' \subseteq Nodes, freed \subseteq freed', result' \in Nodes \cup {0},
         pc' \in {"parse", "error", "crashed", "ok", "failed", "released"},
         pc' = "ok" => result' = 1,
         pc' \in {"parse", "error", "ok"} => pc \in {"parse", "error", "ok"} /\ freed' = freed,
         pc' \in {"failed", "released"} => freed' = Nodes
  PROVE  DomInv'
<1>1. TypeOK /\ OwnedOnce /\ StackInv /\ OpenInv /\ PlaceInv
  BY DEF DomInv
<1>2. Nodes' = Nodes /\ Live' \subseteq Live /\ (freed' = freed => Live' = Live)
  BY DEF Nodes, Live
<1>3. TypeOK'
  BY <1>1, <1>2 DEF TypeOK
<1>4. OwnedOnce'
  BY <1>1, <1>2 DEF OwnedOnce, Tree, Closed
<1>5. StackInv'
  BY <1>1 DEF StackInv
<1>6. OpenInv'
  BY <1>1 DEF OpenInv, Entry
<1>7. PlaceInv'
  BY <1>1, <1>2 DEF PlaceInv
<1> QED BY <1>3, <1>4, <1>5, <1>6, <1>7 DEF DomInv

\* Freeing the root frees everything that is left.
LEMMA RootFreed ==
  ASSUME DomInv, type # <<>>, pc \in {"error", "ok"}
  PROVE  freed \cup Below(1) = Nodes
<1>1. TypeOK /\ Tree /\ 1 \in Live
  BY RootLives DEF DomInv
<1>2. Below(1) = Live
  BY <1>1, AllBelowRoot
<1> QED BY <1>1, <1>2 DEF Live, TypeOK

\* Every step keeps the invariant.
LEMMA DomStep ==
  ASSUME DomInv, [Next]_vars
  PROVE  DomInv'
<1>1. TypeOK /\ freed \subseteq Nodes /\ result \in Nodes \cup {0}
  BY DEF DomInv, TypeOK
<1>2. ASSUME NEW t \in Scalar \cup Container, cb_build_value(t) PROVE DomInv'
  BY <1>2, FirstValue, ValueAdded
<1>3. ASSUME NEW t \in Scalar \cup Container, cb_build_oom(t) PROVE DomInv'
  BY <1>1, <1>3, TreeKept DEF cb_build_oom, domVars
<1>4. ASSUME NEW k \in Key, cb_build_map_key(k) PROVE DomInv'
  BY <1>4, KeyRead
<1>5. CASE cb_build_end_container
  BY <1>5, ContainerEnds
<1>6. CASE SyntaxError
  BY <1>1, <1>6, TreeKept DEF SyntaxError, domVars
<1>7. CASE Finish
  <2>1. type # <<>>
    <3>1. y.paths # {} /\ pc = "parse"
      BY <1>7 DEF Finish, Done
    <3>2. type = <<>> => Live = {}
      BY DEF Live, Nodes
    <3> QED BY <3>1, <3>2 DEF DomInv, PlaceInv
  <2>2. Last(containerStack) = 1 /\ 1 \in Nodes
    BY <1>7, <2>1, RootLives DEF Finish, Live
  <2> QED BY <1>1, <1>7, <2>2, TreeKept DEF Finish, Root, domVars
<1>8. CASE Clean
  <2>1. freed' = Nodes
    <3>1. CASE type = <<>>
      <4>1. Nodes = {} /\ containerStack = <<>>
        BY <1>1, <3>1, EmptySeq DEF TypeOK, Nodes
      <4> QED BY <1>1, <1>8, <4>1 DEF Clean
    <3>2. CASE type # <<>>
      <4>1. containerStack # <<>> /\ Last(containerStack) = 1
        BY <1>8, <3>2, RootLives DEF Clean
      <4> QED BY <1>8, <3>2, <4>1, RootFreed DEF Clean, Root
    <3> QED BY <3>1, <3>2
  <2> QED BY <1>1, <1>8, <2>1, TreeKept DEF Clean
<1>9. CASE JsonNode_free
  <2>1. result = 1 /\ type # <<>>
    <3>1. result = 1 /\ 1 \in Nodes
      BY <1>1, <1>9 DEF JsonNode_free, DomInv, StackInv
    <3> QED BY <3>1 DEF Nodes
  <2>2. freed' = Nodes
    BY <1>9, <2>1, RootFreed DEF JsonNode_free
  <2> QED BY <1>1, <1>9, <2>2, TreeKept DEF JsonNode_free
<1>10. CASE UNCHANGED vars
  BY <1>1, <1>10, TreeKept DEF vars, DomInv, TypeOK, OwnedOnce, StackInv
<1>11. CASE Ended
  BY <1>10, <1>11 DEF Ended
<1> QED BY <1>2, <1>3, <1>4, <1>5, <1>6, <1>7, <1>8, <1>9, <1>10, <1>11 DEF Next

\* At the start there is no node.
LEMMA DomStart ==
  ASSUME Init
  PROVE  DomInv
<1>1. Nodes = {} /\ Live = {} /\ y.open = <<>> /\ y.paths = {}
  BY DEF Init, Nodes, Live, Nothing
<1>2. TypeOK
  BY <1>1, EmptySeq DEF Init, TypeOK, Nothing
<1>3. OwnedOnce
  BY <1>1 DEF Init, OwnedOnce, Tree, Closed
<1> QED BY <1>1, <1>2, <1>3 DEF Init, DomInv, StackInv, OpenInv, PlaceInv

\* DomInv, the inductive invariant, always holds.
LEMMA DomInvariance == Spec => []DomInv
<1>1. Init => DomInv
  BY DomStart
<1>2. DomInv /\ [Next]_vars => DomInv'
  BY DomStep
<1> QED BY <1>1, <1>2, PTL DEF Spec

\* Children are added to the open container only, to an array under the next index.
LEMMA ShapeStep ==
  ASSUME DomInv, ShapeInv, [Next]_vars
  PROVE  ShapeInv'
<1>1. ASSUME NEW t \in Scalar \cup Container, cb_build_value(t), type = <<>> PROVE ShapeInv'
  <2>1. /\ type' = <<t>> /\ DOMAIN kids'[1] = {}
    <3>1. containerStack = <<>> /\ kids = <<>>
      <4>1. TypeOK /\ Nodes = {}
        BY <1>1 DEF DomInv, Nodes
      <4>2. Len(containerStack) = 0 /\ containerStack \in Seq(Nodes)
        BY <1>1, <4>1 DEF TypeOK
      <4>3. kids = [k \in {} |-> kids[k]]
        BY <4>1 DEF TypeOK
      <4> QED BY <4>2, <4>3, EmptySeq
    <3>2. Append(type, t) = <<t>> /\ Append(kids, <<>>) = << <<>> >>
      BY <1>1, <3>1
    <3> QED BY <1>1, <3>1, <3>2 DEF cb_build_value, AddValue
  <2>2. Nodes' = {1}
    BY <2>1 DEF Nodes
  <2>3. {<<0, j>> : j \in 1..0} = {}
    OBVIOUS
  <2> QED BY <2>1, <2>2, <2>3, FS_EmptySet DEF ShapeInv
<1>2. ASSUME NEW t \in Scalar \cup Container, cb_build_value(t), type # <<>> PROVE ShapeInv'
  <2> DEFINE n == Len(type) + 1
             z == Len(y.open)
             c == Last(y.open)
  <2>1. TypeOK /\ OpenInv /\ pc = "parse" /\ Value(t) \in Allowed(y) /\ AddValue(t)
    BY <1>2 DEF DomInv, cb_build_value
  <2>2. /\ y.open # <<>> /\ Top \in Nodes /\ Entry(z) = Top /\ ValuePath(y) \in Seq(Labels)
        /\ c.type = "array" => Label = <<0, c.count>>
    BY <1>2, <2>1, Insertion DEF Live
  <2>3. Grown(t, n)
    BY <1>2, <2>1, <2>2, Grows, RootLives
  <2>4. c = y.open[z] /\ z \in DOMAIN y.open /\ c \in Frames
    BY <2>1, <2>2 DEF TypeOK, Last
  <2>5. /\ type[Top] = c.type /\ type[Top] \in Container /\ c.count \in Nat \ {0}
        /\ c.type = "array" => DOMAIN kids[Top] = {<<0, j>> : j \in 1..c.count - 1}
    BY <2>1, <2>2, <2>4 DEF OpenInv, Frames
  <2>6. type'[Top] = "array" =>
          DOMAIN kids'[Top] = {<<0, j>> : j \in 1..Cardinality(DOMAIN kids'[Top])}
    <3> SUFFICES ASSUME c.type = "array"
                 PROVE  DOMAIN kids'[Top] = {<<0, j>> : j \in 1..c.count}
      <4>1. type'[Top] = c.type
        BY <2>2, <2>3, <2>5 DEF Grown
      <4>2. Cardinality({<<0, j>> : j \in 1..c.count}) = c.count
        BY <2>5, IndexCount
      <4> QED BY <4>1, <4>2
    <3>1. DOMAIN kids'[Top] = {<<0, j>> : j \in 1..c.count - 1} \cup {<<0, c.count>>}
      BY <2>2, <2>3, <2>5 DEF Grown
    <3> QED BY <2>5, <3>1
  <2>7. IsFiniteSet(DOMAIN kids'[Top])
    <3>1. IsFiniteSet(DOMAIN kids[Top]) /\ DOMAIN kids'[Top] = DOMAIN kids[Top] \cup {Label}
      BY <2>2, <2>3 DEF ShapeInv, Grown
    <3> QED BY <3>1, FS_AddElement
  <2>8. ASSUME NEW k \in Nodes, k # Top PROVE kids'[k] = kids[k] /\ type'[k] = type[k]
    BY <2>3, <2>8 DEF Grown
  <2>9. Nodes' = Nodes \cup {n} /\ DOMAIN kids'[n] = {} /\ type'[Top] = type[Top]
    BY <2>2, <2>3 DEF Grown
  <2>10. Cardinality({}) = 0 /\ IsFiniteSet({}) /\ {<<0, j>> : j \in 1..0} = {}
    BY FS_EmptySet
  <2> SUFFICES ASSUME NEW k \in Nodes'
               PROVE  /\ IsFiniteSet(DOMAIN kids'[k])
                      /\ type'[k] = "array" =>
                           DOMAIN kids'[k] = {<<0, j>> : j \in 1..Cardinality(DOMAIN kids'[k])}
                      /\ type'[k] \notin Container => DOMAIN kids'[k] = {}
    BY DEF ShapeInv
  <2> HIDE DEF n
  <2>11. CASE k = n
    BY <2>9, <2>10, <2>11
  <2>12. CASE k = Top
    BY <2>5, <2>6, <2>7, <2>9, <2>12
  <2>13. CASE k \in Nodes /\ k # Top
    BY <2>8, <2>13 DEF ShapeInv
  <2> QED BY <2>9, <2>11, <2>12, <2>13
<1>3. CASE UNCHANGED <<type, kids>>
  BY <1>3 DEF ShapeInv, Nodes
<1>4. (\E t \in Scalar \cup Container : cb_build_value(t)) \/ UNCHANGED <<type, kids>>
  BY DEF Next, cb_build_oom, cb_build_map_key, cb_build_end_container, SyntaxError, Finish,
         Clean, JsonNode_free, Ended, vars, domVars
<1> QED BY <1>1, <1>2, <1>3, <1>4

\* ShapeInv, of closed containers too, always holds.
LEMMA ShapeInvariance == Spec => []ShapeInv
<1>1. Init => ShapeInv
  BY DEF Init, ShapeInv, Nodes
<1>2. DomInv /\ ShapeInv /\ [Next]_vars => ShapeInv'
  BY ShapeStep
<1> QED BY <1>1, <1>2, DomInvariance, PTL DEF Spec

-----------------------------------------------------------------------------
(* The meaning of a text *)

\* f is where the reading of text t from s on has got after each token.
Run(f, s, t) == f = [i \in 0..Len(t) |-> IF i = 0 THEN s ELSE Read(f[i - 1], t[i])]

\* Reading t from s on ends at u.
Reads(s, t, u) == \E f : Run(f, s, t) /\ f[Len(t)] = u

\* No token leaves everything, and one does what Read() says.
LEMMA ReadsOne ==
  ASSUME NEW s, NEW x
  PROVE  Reads(s, <<>>, s) /\ Reads(s, <<x>>, Read(s, x))
<1>1. Reads(s, <<>>, s)
  <2> DEFINE f == [i \in 0..0 |-> s]
  <2>1. f = [i \in 0..Len(<<>>) |-> IF i = 0 THEN s ELSE Read(f[i - 1], <<>>[i])]
    OBVIOUS
  <2>2. f[Len(<<>>)] = s
    OBVIOUS
  <2> HIDE DEF f
  <2> QED BY <2>1, <2>2 DEF Reads, Run
<1>2. Reads(s, <<x>>, Read(s, x))
  <2> DEFINE t == <<x>>
             f == [i \in 0..1 |-> IF i = 0 THEN s ELSE Read(s, x)]
  <2>1. Len(t) = 1 /\ t[1] = x
    OBVIOUS
  <2>2. f[0] = s /\ f[1] = Read(s, x) /\ f = [i \in 0..1 |-> f[i]]
    OBVIOUS
  <2> HIDE DEF f, t
  <2>3. \A i \in 0..1 : f[i] = IF i = 0 THEN s ELSE Read(f[i - 1], t[i])
    <3> SUFFICES ASSUME NEW i \in 0..1 PROVE f[i] = IF i = 0 THEN s ELSE Read(f[i - 1], t[i])
      OBVIOUS
    <3>1. i = 0 \/ (i = 1 /\ i - 1 = 0)
      OBVIOUS
    <3> QED BY <2>1, <2>2, <3>1
  <2>4. Run(f, s, t)
    BY <2>1, <2>2, <2>3 DEF Run
  <2> QED BY <2>1, <2>2, <2>4 DEF Reads, t
<1> QED BY <1>1, <1>2

\* One text is read after another.
LEMMA ReadsOn ==
  ASSUME NEW U, NEW t \in Seq(U), NEW x \in Seq(U), NEW s, NEW u, NEW v,
         Reads(s, t, u), Reads(u, x, v)
  PROVE  Reads(s, t \o x, v)
<1>1. PICK f : Run(f, s, t) /\ f[Len(t)] = u
  BY DEF Reads
<1>2. PICK g : Run(g, u, x) /\ g[Len(x)] = v
  BY DEF Reads
<1> DEFINE a == Len(t)
           b == Len(x)
           w == t \o x
           h == [i \in 0..a + b |-> IF i <= a THEN f[i] ELSE g[i - a]]
<1>3. /\ a \in Nat /\ b \in Nat /\ Len(w) = a + b
      /\ \A i \in 1..a : w[i] = t[i]
      /\ \A i \in 1..b : w[a + i] = x[i]
      /\ f[a] = u /\ g[b] = v
  BY <1>1, <1>2
<1>4. /\ f[0] = s /\ \A i \in 1..a : f[i] = Read(f[i - 1], t[i])
      /\ g[0] = u /\ \A i \in 1..b : g[i] = Read(g[i - 1], x[i])
  <2>1. \A i \in 0..a : f[i] = IF i = 0 THEN s ELSE Read(f[i - 1], t[i])
    BY <1>1 DEF Run
  <2>2. \A i \in 0..b : g[i] = IF i = 0 THEN u ELSE Read(g[i - 1], x[i])
    BY <1>2 DEF Run
  <2>3. 0 \in 0..a /\ 0 \in 0..b /\ (\A i \in 1..a : i \in 0..a) /\ (\A i \in 1..b : i \in 0..b)
    BY <1>3
  <2>4. f[0] = s /\ g[0] = u
    BY <2>1, <2>2, <2>3
  <2> HIDE DEF a, b
  <2>5. ASSUME NEW i \in 1..a PROVE f[i] = Read(f[i - 1], t[i])
    BY <2>1, <2>3
  <2>6. ASSUME NEW i \in 1..b PROVE g[i] = Read(g[i - 1], x[i])
    BY <2>2, <2>3
  <2> QED BY <2>4, <2>5, <2>6
<1>5. /\ h = [i \in 0..a + b |-> h[i]]
      /\ \A i \in 0..a + b : h[i] = IF i <= a THEN f[i] ELSE g[i - a]
  OBVIOUS
<1> HIDE DEF w, a, b, h
<1>6. ASSUME NEW i \in 0..a + b PROVE h[i] = IF i = 0 THEN s ELSE Read(h[i - 1], w[i])
  <2>1. CASE i = 0
    <3>1. 0 <= a /\ a \in Nat /\ f[0] = s
      BY <1>3, <1>4
    <3> QED BY <1>5, <2>1, <3>1
  <2>2. CASE i \in 1..a
    <3>1. i - 1 \in 0..a + b /\ i - 1 <= a /\ i <= a /\ i # 0
      BY <1>3, <2>2
    <3>2. h[i] = f[i] /\ h[i - 1] = f[i - 1]
      BY <1>5, <3>1
    <3> QED BY <1>3, <1>4, <2>2, <3>1, <3>2
  <2>3. CASE i > a
    <3> DEFINE j == i - a
    <3>1. /\ j \in 1..b /\ a + j = i /\ i - 1 \in 0..a + b /\ ~(i <= a) /\ i # 0
          /\ i - 1 <= a => i - 1 = a /\ j - 1 = 0
          /\ (i - 1) - a = j - 1
      <4>1. i \in Nat /\ i <= a + b
        BY <1>3
      <4> QED BY <1>3, <2>3, <4>1
    <3>2. h[i] = g[j]
      BY <1>5, <3>1
    <3>3. h[i - 1] = g[j - 1]
      <4>1. CASE i - 1 <= a
        <5>1. h[i - 1] = f[a] /\ f[a] = u /\ g[0] = u /\ j - 1 = 0
          BY <1>3, <1>4, <1>5, <3>1, <4>1
        <5> QED BY <5>1
      <4>2. CASE ~(i - 1 <= a)
        BY <1>5, <3>1, <4>2
      <4> QED BY <4>1, <4>2
    <3>4. g[j] = Read(g[j - 1], x[j]) /\ w[i] = x[j]
      BY <1>3, <1>4, <3>1
    <3> QED BY <3>1, <3>2, <3>3, <3>4
  <2>4. i = 0 \/ i \in 1..a \/ i > a
    BY <1>3
  <2> QED BY <2>1, <2>2, <2>3, <2>4
<1>7. h[a + b] = v
  <2>1. /\ a \in Nat /\ b \in Nat /\ a + b \in 0..a + b
        /\ (a + b <= a => b = 0 /\ a + b = a) /\ a + b - a = b
    BY <1>3
  <2>2. f[a] = u /\ g[b] = v /\ g[0] = u
    BY <1>3, <1>4
  <2>3. PICK i \in 0..a + b : i = a + b
    BY <2>1
  <2>4. h[i] = IF i <= a THEN f[i] ELSE g[i - a]
    BY <1>5
  <2>5. CASE i <= a
    <3>1. i = a /\ b = 0
      BY <2>1, <2>3, <2>5
    <3> QED BY <2>2, <2>3, <2>4, <3>1
  <2>6. CASE ~(i <= a)
    <3>1. i - a = b
      BY <2>1, <2>3
    <3> QED BY <2>2, <2>3, <2>4, <2>6, <3>1
  <2> QED BY <2>5, <2>6
<1>8. Run(h, s, w)
  BY <1>3, <1>5, <1>6 DEF Run
<1> QED BY <1>3, <1>7, <1>8 DEF Reads, w

\* The end is determined, and holds the meaning.
LEMMA ReadsMeaning ==
  ASSUME NEW U, NEW t \in Seq(U), NEW u, Reads(Nothing, t, u)
  PROVE  Meaning(t) = u.paths
<1>1. PICK f : Run(f, Nothing, t) /\ f[Len(t)] = u
  BY DEF Reads
<1> DEFINE g == CHOOSE g : g = [i \in 0..Len(t) |-> IF i = 0 THEN Nothing
                                                    ELSE Read(g[i - 1], t[i])]
<1>2. Meaning(t) = g[Len(t)].paths
  BY DEF Meaning
<1>3. Run(g, Nothing, t)
  BY <1>1 DEF Run
<1> HIDE DEF g
<1>4. Len(t) \in Nat
  OBVIOUS
<1> DEFINE S == {i \in Nat : i <= Len(t) => f[i] = g[i]}
<1>5. 0 \in S
  BY <1>1, <1>3, <1>4 DEF Run
<1>6. ASSUME NEW j \in Nat, j \in S PROVE j + 1 \in S
  <2> SUFFICES ASSUME j + 1 <= Len(t) PROVE f[j + 1] = g[j + 1]
    OBVIOUS
  <2>1. j + 1 \in 0..Len(t) /\ j + 1 # 0 /\ j + 1 - 1 = j /\ f[j] = g[j]
    BY <1>4, <1>6
  <2>2. f[j + 1] = Read(f[j], t[j + 1])
    BY <1>1, <2>1 DEF Run
  <2>3. g[j + 1] = Read(g[j], t[j + 1])
    BY <1>3, <2>1 DEF Run
  <2> QED BY <2>1, <2>2, <2>3
<1>7. Nat \subseteq S
  <2> HIDE DEF S
  <2> QED BY <1>5, <1>6, Induction
<1> QED BY <1>1, <1>2, <1>4, <1>7

-----------------------------------------------------------------------------
(* The text that is generated *)

\* The children of a container come once each, those of an array by their index.
LEMMA LabelledOnce ==
  ASSUME ShapeInv, NEW n \in Nodes, type[n] \in Container, NEW L, L = Labelled(n)
  PROVE  /\ L \in Seq(DOMAIN kids[n]) /\ Len(L) \in Nat
         /\ \A i, j \in 1..Len(L) : L[i] = L[j] => i = j
         /\ \A l \in DOMAIN kids[n] : \E i \in 1..Len(L) : L[i] = l
         /\ type[n] = "array" => \A i \in 1..Len(L) : L[i] = <<0, i>>
<1> DEFINE D == DOMAIN kids[n]
           k == Cardinality(D)
<1>1. IsFiniteSet(D) /\ k \in Nat /\ ExistsBijection(1..k, D)
  BY FS_CardinalityType DEF ShapeInv
<1>2. IsFiniteSet(1..k) /\ Cardinality(1..k) = k
  BY <1>1, FS_Interval
<1>3. CASE type[n] = "array"
  <2>1. D = {<<0, j>> : j \in 1..k}
    BY <1>3 DEF ShapeInv
  <2>2. L = [i \in 1..k |-> <<0, i>>]
    BY <1>3 DEF Labelled, elements
  <2> HIDE DEF D, k
  <2>3. L \in [1..k -> D] /\ \A i \in 1..k : L[i] = <<0, i>>
    BY <2>1, <2>2
  <2>4. L \in Seq(D) /\ Len(L) = k
    BY <1>1, <2>3
  <2>5. \A i, j \in 1..k : L[i] = L[j] => i = j
    BY <2>3
  <2>6. \A l \in D : \E i \in 1..k : L[i] = l
    BY <2>1, <2>3
  <2> QED BY <1>1, <2>3, <2>4, <2>5, <2>6 DEF D
<1>4. CASE type[n] # "array"
  <2>1. L = CHOOSE f \in [1..k -> D] : IsInjective(f)
    BY <1>4 DEF Labelled, SetToSeq
  <2> HIDE DEF D, k
  <2>2. \E f \in [1..k -> D] : IsInjective(f)
    BY <1>1 DEF ExistsBijection, Bijection, Injection
  <2>3. L \in [1..k -> D] /\ IsInjective(L)
    BY <2>1, <2>2
  <2>4. L \in Injection(1..k, D)
    BY <2>3 DEF Injection
  <2>5. L \in Surjection(1..k, D)
    BY <1>1, <1>2, <2>4, FS_Injection DEF k
  <2>6. L \in Seq(D) /\ Len(L) = k
    BY <1>1, <2>3
  <2>7. \A i, j \in 1..k : L[i] = L[j] => i = j
    BY <2>3 DEF IsInjective
  <2>8. \A l \in D : \E i \in 1..k : L[i] = l
    BY <2>5 DEF Surjection
  <2> QED BY <1>1, <1>4, <2>6, <2>7, <2>8 DEF D
<1> QED BY <1>3, <1>4

\* What the generator writes for the children of n, when f holds their texts.
Parts(f, n) ==
  [i \in DOMAIN Labelled(n) |-> KeyOf(n, Labelled(n)[i]) \o f[kids[n][Labelled(n)[i]]]]

\* One level of the definition of generate.
TextFrom(f, n) ==
  IF Refuses(n) THEN <<Undefined>>
  ELSE IF type[n] \in Container THEN <<Value(type[n])>> \o FlattenSeq(Parts(f, n)) \o <<End>>
                                ELSE <<Value(type[n])>>

\* It depends on the texts of the children alone.
LEMMA TextDepends ==
  ASSUME ShapeInv, NEW n \in Nodes, NEW f, NEW g,
         \A l \in DOMAIN kids[n] : f[kids[n][l]] = g[kids[n][l]]
  PROVE  TextFrom(f, n) = TextFrom(g, n)
<1>1. CASE type[n] \in Container
  <2> DEFINE L == Labelled(n)
  <2>1. L \in Seq(DOMAIN kids[n]) /\ Len(L) \in Nat
    BY <1>1, LabelledOnce
  <2>2. \A i \in DOMAIN L : L[i] \in DOMAIN kids[n]
    BY <2>1
  <2>3. \A i \in DOMAIN L : KeyOf(n, L[i]) \o f[kids[n][L[i]]] = KeyOf(n, L[i]) \o g[kids[n][L[i]]]
    BY <2>2
  <2>4. Parts(f, n) = Parts(g, n)
    BY <2>3 DEF Parts
  <2> QED BY <2>4 DEF TextFrom
<1>2. CASE type[n] \notin Container
  BY <1>2 DEF TextFrom
<1> QED BY <1>1, <1>2

\* generate is such a function: it is found from the last node to the first.
LEMMA GenerateStep ==
  ASSUME TypeOK, ShapeInv
  PROVE  \A n \in Nodes : generate[n] = TextFrom(generate, n)
<1> DEFINE N == Len(type)
           From(k) == {n \in Nodes : n > N - k}
           S == {k \in Nat : k <= N => \E f : \A n \in From(k) : f[n] = TextFrom(f, n)}
<1>1. N \in Nat /\ Nodes = 1..N
  BY NodeNumbers
<1>2. 0 \in S
  BY <1>1
<1>3. ASSUME NEW k \in Nat, k \in S PROVE k + 1 \in S
  <2> SUFFICES ASSUME k + 1 <= N
               PROVE  \E g : \A n \in From(k + 1) : g[n] = TextFrom(g, n)
    OBVIOUS
  <2>1. PICK f : \A n \in From(k) : f[n] = TextFrom(f, n)
    BY <1>1, <1>3
  <2> DEFINE m == N - k
             g == [n \in Nodes |-> IF n = m THEN TextFrom(f, m) ELSE f[n]]
  <2>2. ASSUME NEW n \in From(k + 1) PROVE g[n] = TextFrom(g, n)
    <3>1. n \in Nodes /\ n >= m /\ (n = m \/ n \in From(k)) /\ m \in Nodes /\ n \in Nat
      BY <1>1
    <3>2. ASSUME NEW l \in DOMAIN kids[n] PROVE f[kids[n][l]] = g[kids[n][l]]
      <4>1. kids[n][l] \in Nodes /\ kids[n][l] > n
        BY <3>1, BelowStep
      <4>2. kids[n][l] # m
        BY <1>1, <3>1, <4>1
      <4> QED BY <4>1, <4>2
    <3> HIDE DEF g, From
    <3>3. TextFrom(f, n) = TextFrom(g, n)
      BY <3>1, <3>2, TextDepends
    <3>4. g[n] = TextFrom(f, n)
      <4>1. g[n] = IF n = m THEN TextFrom(f, m) ELSE f[n]
        BY <3>1 DEF g
      <4> HIDE DEF m
      <4> QED BY <2>1, <3>1, <4>1
    <3> QED BY <3>3, <3>4
  <2> HIDE DEF g
  <2> QED BY <2>2
<1>4. Nat \subseteq S
  <2> HIDE DEF S
  <2> QED BY <1>2, <1>3, Induction
<1>5. PICK f : \A n \in Nodes : f[n] = TextFrom(f, n)
  <2>1. From(N) = Nodes /\ N \in S
    BY <1>1, <1>4
  <2> QED BY <1>1, <2>1
<1> DEFINE g == [n \in Nodes |-> f[n]]
<1>6. g = [n \in Nodes |-> TextFrom(g, n)]
  <2> SUFFICES ASSUME NEW n \in Nodes PROVE f[n] = TextFrom(g, n)
    OBVIOUS
  <2>1. \A l \in DOMAIN kids[n] : f[kids[n][l]] = g[kids[n][l]]
    BY BelowStep
  <2> HIDE DEF g
  <2>2. TextFrom(f, n) = TextFrom(g, n)
    BY <2>1, TextDepends
  <2> QED BY <1>5, <2>2
<1> HIDE DEF g
<1>7. generate = CHOOSE h : h = [n \in Nodes |-> TextFrom(h, n)]
  BY DEF generate, TextFrom, Parts
<1>8. generate = [n \in Nodes |-> TextFrom(generate, n)]
  BY <1>6, <1>7
<1> QED BY <1>8

-----------------------------------------------------------------------------
(* Reading what was generated *)

\* A place in a text, and the open containers after a value.
Place(o, q) == [open |-> o, paths |-> q]
After(o) == IF o = <<>> THEN <<>> ELSE WithLast(o, Counted(Last(o)))

\* The containers open after a value of type t at path p, and the paths with it.
OpenAfter(o, t, p) == IF t \in Container THEN Append(After(o), Frame(t, p)) ELSE After(o)
With(q, t, p) == {e \in q : ~IsPrefix(p, e[1])} \cup {<<p, t>>}

\* What a value does at any place of a text.
LEMMA ValueAt ==
  ASSUME NEW o, NEW q, NEW t, NEW p, p = ValuePath(Place(o, q))
  PROVE  Read(Place(o, q), Value(t)) = Place(OpenAfter(o, t, p), With(q, t, p))
<1>1. Place(o, q).open = o /\ Place(o, q).paths = q
  BY DEF Place
<1> QED BY <1>1 DEF Read, Value, After, Place, OpenAfter, With

\* The same of a key and of an end.
LEMMA OtherAt ==
  ASSUME NEW o, NEW q, NEW k
  PROVE  /\ Read(Place(o, q), KeyTok(k)) =
              Place(WithLast(o, [Last(o) EXCEPT !.key = k, !.keyed = "yes"]), q)
         /\ Read(Place(o, q), End) = Place(Front(o), q)
<1>1. Place(o, q).open = o /\ Place(o, q).paths = q
  BY DEF Place
<1>2. \A a : [Place(o, q) EXCEPT !.open = a] = Place(a, q)
  BY DEF Place
<1>3. Read(Place(o, q), KeyTok(k)) =
        [Place(o, q) EXCEPT !.open = WithLast(o, [Last(o) EXCEPT !.key = k, !.keyed = "yes"])]
  BY <1>1 DEF Read, KeyTok
<1>4. Read(Place(o, q), End) = [Place(o, q) EXCEPT !.open = Front(o)]
  BY <1>1 DEF Read, End
<1> QED BY <1>2, <1>3, <1>4

\* One more container, and where its next value belongs.
Push(o, c) == Append(o, c)
NextIn(c) == Append(c.at, IF c.type = "array" THEN <<0, c.count>> ELSE c.key)

\* The last of the open containers.
LEMMA LastOpen ==
  ASSUME NEW o \in Seq(Frames), NEW c \in Frames
  PROVE  /\ Push(o, c) \in Seq(Frames) /\ Push(o, c) # <<>> /\ Last(Push(o, c)) = c
         /\ Front(Push(o, c)) = o
         /\ \A d \in Frames : WithLast(Push(o, c), d) = Push(o, d)
         /\ After(Push(o, c)) = Push(o, Counted(c))
         /\ \A q : ValuePath(Place(Push(o, c), q)) = NextIn(c)
<1> DEFINE a == Append(o, c)
           z == Len(o)
<1>1. /\ a \in Seq(Frames) /\ Len(a) = z + 1 /\ z \in Nat /\ a[z + 1] = c
      /\ \A i \in 1..z : a[i] = o[i]
  BY AppendProperties
<1>2. a # <<>> /\ Last(a) = c
  BY <1>1 DEF Last
<1>3. Front(a) = o
  <2> HIDE DEF a
  <2>1. Front(a) \in Seq(Frames) /\ Len(Front(a)) = z /\ \A i \in 1..z : Front(a)[i] = a[i]
    BY <1>1 DEF Front
  <2> QED BY <1>1, <2>1, SeqEqual
<1>4. ASSUME NEW e \in Frames PROVE WithLast(a, e) = Append(o, e)
  <2>1. /\ Append(o, e) \in Seq(Frames) /\ Len(Append(o, e)) = z + 1
        /\ Append(o, e)[z + 1] = e /\ \A i \in 1..z : Append(o, e)[i] = o[i]
    BY AppendProperties
  <2> DEFINE b == Append(o, e)
             w == WithLast(a, e)
  <2> HIDE DEF a, b
  <2>2. w \in Seq(Frames) /\ Len(w) = z + 1
    BY <1>1 DEF WithLast
  <2>3. w[z + 1] = e /\ \A i \in 1..z : w[i] = a[i]
    BY <1>1 DEF WithLast
  <2> HIDE DEF w
  <2>4. \A i \in 1..Len(w) : w[i] = b[i]
    BY <1>1, <2>1, <2>2, <2>3 DEF b
  <2>5. w = b
    BY <1>1, <2>1, <2>2, <2>4, SeqEqual DEF b
  <2> QED BY <2>5 DEF b, w
<1>5. After(a) = Append(o, Counted(c))
  <2>1. Counted(c) \in Frames
    BY CountedFields
  <2> HIDE DEF a
  <2> QED BY <1>2, <1>4, <2>1 DEF After
<1>6. ASSUME NEW q PROVE ValuePath(Place(a, q)) = NextIn(c)
  <2> HIDE DEF a
  <2>1. Place(a, q).open = a
    BY DEF Place
  <2> QED BY <1>2, <2>1 DEF ValuePath, NextIn
<1> QED BY <1>1, <1>2, <1>3, <1>4, <1>5, <1>6 DEF Push

\* What a text is made of.
Token == {Value(t) : t \in Scalar \cup Container} \cup {KeyTok(l) : l \in Labels} \cup {End}

\* The places of what is below a node.
Placed(n) == {<<at[m], type[m]>> : m \in Below(n)}

\* Where the value of n is expected, its text is read as the value of n.
GivesBack(n) ==
  /\ generate[n] \in Seq(Token)
  /\ \A o \in Seq(Frames) : \A q :
       (\A e \in q : e[1] \in Seq(Labels)) /\ ValuePath(Place(o, q)) = at[n] =>
         Reads(Place(o, q), generate[n],
               Place(After(o), {e \in q : ~IsPrefix(at[n], e[1])} \cup Placed(n)))

\* What is below one child is not at or below the place of another.
LEMMA ChildrenApart ==
  ASSUME TypeOK, PlaceInv, NEW n \in Nodes, NEW l \in DOMAIN kids[n], NEW w \in Seq(Labels),
         IsPrefix(at[kids[n][l]], w)
  PROVE  /\ IsPrefix(at[n], w) /\ w # at[n]
         /\ \A k \in DOMAIN kids[n] : IsPrefix(at[kids[n][k]], w) => k = l
<1>1. \A m \in Nodes : at[m] \in Seq(Labels) /\ Len(at[m]) \in Nat
  BY NodeNumbers DEF TypeOK, Labels
<1> DEFINE p == at[n]
           z == Len(p)
<1>2. ASSUME NEW k \in DOMAIN kids[n], IsPrefix(at[kids[n][k]], w)
      PROVE  z + 1 <= Len(w) /\ w[z + 1] = k /\ \A i \in 1..z : p[i] = w[i]
  <2> DEFINE c == kids[n][k]
  <2>1. c \in Nodes /\ at[c] = Append(p, k) /\ k \in Labels /\ p \in Seq(Labels)
    BY <1>1, BelowStep DEF PlaceInv, TypeOK, Labels
  <2>2. at[c] \in Seq(Labels) /\ Len(at[c]) = z + 1 /\ at[c][z + 1] = k /\ z \in Nat
        /\ \A i \in 1..z : at[c][i] = p[i]
    BY <1>1, <2>1, AppendProperties
  <2>3. Len(at[c]) <= Len(w) /\ \A i \in 1..Len(at[c]) : at[c][i] = w[i]
    <3> HIDE DEF c
    <3> QED BY <1>2, <2>2, PrefixElements DEF c
  <2> HIDE DEF p, c
  <2> QED BY <2>2, <2>3
<1>3. p \in Seq(Labels) /\ z \in Nat /\ Len(w) \in Nat
  BY <1>1
<1>4. z + 1 <= Len(w) /\ w[z + 1] = l /\ \A i \in 1..z : p[i] = w[i]
  BY <1>2
<1> HIDE DEF p
<1>5. IsPrefix(p, w) /\ w # p
  BY <1>3, <1>4, PrefixElements
<1> QED BY <1>2, <1>4, <1>5 DEF p

\* The text of a child, behind its key in a map, adds what is below the child.
LEMMA ChildRead ==
  ASSUME TypeOK, PlaceInv, NEW n \in Nodes, type[n] \in Container, NEW l \in DOMAIN kids[n],
         GivesBack(kids[n][l]), NEW o \in Seq(Frames), NEW c \in Frames,
         c.type = type[n], c.at = at[n], type[n] = "array" => l = <<0, c.count>>,
         NEW q, \A e \in q : e[1] \in Seq(Labels) /\ ~IsPrefix(at[kids[n][l]], e[1])
  PROVE  /\ KeyOf(n, l) \o generate[kids[n][l]] \in Seq(Token)
         /\ \E d \in Frames :
              /\ d.type = c.type /\ d.at = c.at /\ d.count = c.count + 1
              /\ Reads(Place(Push(o, c), q), KeyOf(n, l) \o generate[kids[n][l]],
                       Place(Push(o, d), q \cup Placed(kids[n][l])))
<1> DEFINE m == kids[n][l]
<1>1. at[m] = Append(at[n], l) /\ l \in Labels
  BY DEF PlaceInv, TypeOK
<1>2. KeyOf(n, l) \in Seq(Token) /\ generate[m] \in Seq(Token)
  <2>1. KeyTok(l) \in Token /\ <<>> \in Seq(Token)
    BY <1>1 DEF Token
  <2>2. generate[m] \in Seq(Token)
    BY DEF GivesBack
  <2> HIDE DEF m
  <2> QED BY <2>1, <2>2 DEF KeyOf
<1>3. PICK b \in Frames :
        /\ b.type = c.type /\ b.at = c.at /\ b.count = c.count
        /\ ValuePath(Place(Push(o, b), q)) = at[m]
        /\ Reads(Place(Push(o, c), q), KeyOf(n, l), Place(Push(o, b), q))
  <2>1. CASE type[n] = "array"
    <3>1. ValuePath(Place(Push(o, c), q)) = at[m]
      <4>1. ValuePath(Place(Push(o, c), q)) = NextIn(c)
        BY LastOpen
      <4> QED BY <1>1, <2>1, <4>1 DEF NextIn
    <3>2. KeyOf(n, l) = <<>>
      BY <2>1 DEF KeyOf
    <3>3. Reads(Place(Push(o, c), q), KeyOf(n, l), Place(Push(o, c), q))
      BY <3>2, ReadsOne
    <3> QED BY <3>1, <3>3
  <2>2. CASE type[n] # "array"
    <3> DEFINE b == [c EXCEPT !.key = l, !.keyed = "yes"]
    <3>1. /\ b \in Frames /\ b.type = c.type /\ b.at = c.at /\ b.count = c.count /\ b.key = l
      BY <1>1 DEF Frames
    <3>2. Read(Place(Push(o, c), q), KeyTok(l)) = Place(Push(o, b), q)
      <4>1. Last(Push(o, c)) = c
        BY LastOpen
      <4>2. Read(Place(Push(o, c), q), KeyTok(l)) = Place(WithLast(Push(o, c), b), q)
        BY <4>1, OtherAt, Zenon
      <4> HIDE DEF b
      <4>3. WithLast(Push(o, c), b) = Push(o, b)
        BY <3>1, LastOpen
      <4> QED BY <4>2, <4>3
    <3> HIDE DEF b
    <3>3. KeyOf(n, l) = <<KeyTok(l)>>
      BY <2>2 DEF KeyOf
    <3>4. Reads(Place(Push(o, c), q), KeyOf(n, l), Place(Push(o, b), q))
      BY <3>2, <3>3, ReadsOne
    <3>5. ValuePath(Place(Push(o, b), q)) = at[m]
      <4>1. ValuePath(Place(Push(o, b), q)) = NextIn(b)
        BY <3>1, LastOpen
      <4> QED BY <1>1, <2>2, <3>1, <4>1 DEF NextIn
    <3> QED BY <3>1, <3>4, <3>5
  <2> QED BY <2>1, <2>2
<1> DEFINE d == Counted(b)
<1>4. d \in Frames /\ d.type = c.type /\ d.at = c.at /\ d.count = c.count + 1
  BY <1>3, CountedFields
<1>5. Push(o, b) \in Seq(Frames) /\ After(Push(o, b)) = Push(o, d)
  BY LastOpen
<1>6. {e \in q : ~IsPrefix(at[m], e[1])} = q
  OBVIOUS
<1>7. Reads(Place(Push(o, b), q), generate[m], Place(Push(o, d), q \cup Placed(m)))
  <2>1. GivesBack(m) /\ \A e \in q : e[1] \in Seq(Labels)
    OBVIOUS
  <2> HIDE DEF m, d
  <2>2. Reads(Place(Push(o, b), q), generate[m],
              Place(After(Push(o, b)), {e \in q : ~IsPrefix(at[m], e[1])} \cup Placed(m)))
    BY <1>3, <1>5, <2>1 DEF GivesBack
  <2> QED BY <1>5, <1>6, <2>2
<1> HIDE DEF d, m
<1>8. Reads(Place(Push(o, c), q), KeyOf(n, l) \o generate[m],
            Place(Push(o, d), q \cup Placed(m)))
  BY <1>2, <1>3, <1>7, ReadsOn
<1>9. KeyOf(n, l) \o generate[m] \in Seq(Token)
  BY <1>2
<1> QED BY <1>4, <1>8, <1>9 DEF m

\* So does the text of all children of a container, one after the other.
LEMMA ChildrenRead ==
  ASSUME TypeOK, PlaceInv, ShapeInv, NEW n \in Nodes, type[n] \in Container,
         \A l \in DOMAIN kids[n] : GivesBack(kids[n][l]),
         NEW o \in Seq(Frames), NEW c \in Frames,
         c.type = type[n], c.at = at[n], c.count = 1,
         NEW q, \A e \in q : e[1] \in Seq(Labels) /\ (IsPrefix(at[n], e[1]) => e[1] = at[n])
  PROVE  /\ Parts(generate, n) \in Seq(Seq(Token))
         /\ \E d \in Frames :
              Reads(Place(Push(o, c), q), FlattenSeq(Parts(generate, n)),
                    Place(Push(o, d),
                          q \cup UNION {Placed(kids[n][l]) : l \in DOMAIN kids[n]}))
<1> DEFINE L == Labelled(n)
           k == Len(L)
           P == Parts(generate, n)
           Kid(i) == kids[n][L[i]]
           Q(i) == q \cup UNION {Placed(Kid(j)) : j \in 1..i}
<1>1. /\ L \in Seq(DOMAIN kids[n]) /\ k \in Nat
      /\ \A i, j \in 1..k : L[i] = L[j] => i = j
      /\ \A l \in DOMAIN kids[n] : \E i \in 1..k : L[i] = l
      /\ type[n] = "array" => \A i \in 1..k : L[i] = <<0, i>>
  BY LabelledOnce
<1>2. \A i \in 1..k : L[i] \in DOMAIN kids[n]
  BY <1>1
<1>3. ASSUME NEW i \in 1..k PROVE KeyOf(n, L[i]) \o generate[Kid(i)] \in Seq(Token)
  <2>1. GivesBack(Kid(i)) /\ L[i] \in DOMAIN kids[n]
    BY <1>2
  <2>2. L[i] \in Labels
    BY <2>1 DEF TypeOK
  <2>3. KeyTok(L[i]) \in Token /\ <<>> \in Seq(Token) /\ generate[Kid(i)] \in Seq(Token)
    BY <2>1, <2>2 DEF Token, GivesBack
  <2> HIDE DEF Kid, L
  <2>4. KeyOf(n, L[i]) \in Seq(Token)
    BY <2>3 DEF KeyOf
  <2> QED BY <2>3, <2>4
<1>4. /\ P \in Seq(Seq(Token)) /\ Len(P) = k
      /\ \A i \in 1..k : P[i] = KeyOf(n, L[i]) \o generate[Kid(i)]
  <2>1. DOMAIN L = 1..k
    BY <1>1
  <2>2. P = [i \in 1..k |-> KeyOf(n, L[i]) \o generate[Kid(i)]]
    BY <2>1 DEF Parts
  <2> HIDE DEF L, P, Kid, k
  <2>3. P \in [1..k -> Seq(Token)] /\ k \in Nat
    BY <1>1, <1>3, <2>2
  <2> DEFINE T == Seq(Token)
  <2>4. P \in [1..k -> T] /\ k \in Nat
    BY <2>3
  <2> HIDE DEF T
  <2>5. P \in Seq(T) /\ Len(P) = k
    BY <2>4
  <2> QED BY <2>2, <2>5 DEF T
<1> DEFINE At(i, d) == /\ d.type = c.type /\ d.at = c.at /\ d.count = i + 1
                       /\ Reads(Place(Push(o, c), q), FlattenSeq(SubSeq(P, 1, i)),
                                Place(Push(o, d), Q(i)))
           S == {i \in Nat : i <= k => \E d \in Frames : At(i, d)}
<1> HIDE DEF At
<1>5. 0 \in S
  <2>1. SubSeq(P, 1, 0) = <<>>
    <3> HIDE DEF P
    <3> QED BY <1>4, SubSeqEmpty
  <2>2. FlattenSeq(SubSeq(P, 1, 0)) = <<>>
    BY <2>1, FlattenEmpty
  <2>3. Q(0) = q
    OBVIOUS
  <2>4. Reads(Place(Push(o, c), q), <<>>, Place(Push(o, c), q))
    BY ReadsOne
  <2> HIDE DEF Q, P
  <2>5. At(0, c)
    BY <2>2, <2>3, <2>4 DEF At
  <2> QED BY <2>5
<1>6. ASSUME NEW i \in Nat, i \in S PROVE i + 1 \in S
  <2> SUFFICES ASSUME i + 1 <= k PROVE \E d \in Frames : At(i + 1, d)
    OBVIOUS
  <2>1. i <= k /\ i + 1 \in 1..k
    BY <1>1
  <2>2. PICK b \in Frames : At(i, b)
    BY <1>6, <2>1
  <2> DEFINE l == L[i + 1]
             m == Kid(i + 1)
  <2>3. l \in DOMAIN kids[n] /\ m = kids[n][l] /\ m \in Nodes /\ GivesBack(m)
    BY <1>2, <2>1, BelowStep
  <2>4. ASSUME NEW e \in Q(i) PROVE e[1] \in Seq(Labels) /\ ~IsPrefix(at[m], e[1])
    <3>1. CASE e \in q
      <4>1. e[1] \in Seq(Labels) /\ (IsPrefix(at[n], e[1]) => e[1] = at[n])
        BY <3>1
      <4> QED BY <2>3, <4>1, ChildrenApart
    <3>2. ASSUME NEW j \in 1..i, e \in Placed(Kid(j))
          PROVE  e[1] \in Seq(Labels) /\ ~IsPrefix(at[m], e[1])
      <4>1. j \in 1..k /\ j # i + 1
        BY <2>1
      <4>2. L[j] \in DOMAIN kids[n] /\ L[j] # l /\ Kid(j) \in Nodes
        BY <1>1, <1>2, <2>1, <4>1, BelowStep
      <4>3. PICK x \in Below(Kid(j)) : e = <<at[x], type[x]>>
        BY <3>2 DEF Placed
      <4>4. at[x] \in Seq(Labels) /\ IsPrefix(at[Kid(j)], at[x])
        BY <4>2, BelowPrefix
      <4>5. e[1] = at[x]
        BY <4>3
      <4> QED BY <2>3, <4>2, <4>4, <4>5, ChildrenApart
    <3> QED BY <3>1, <3>2
  <2>5. type[n] = "array" => l = <<0, b.count>>
    BY <1>1, <2>1, <2>2 DEF At
  <2> DEFINE t == P[i + 1]
  <2>6. t = KeyOf(n, l) \o generate[m]
    BY <1>4, <2>1
  <2>7. PICK d \in Frames :
          /\ d.type = b.type /\ d.at = b.at /\ d.count = b.count + 1
          /\ Reads(Place(Push(o, b), Q(i)), t, Place(Push(o, d), Q(i) \cup Placed(m)))
    <3> DEFINE r == Q(i)
    <3>1. \A e \in r : e[1] \in Seq(Labels) /\ ~IsPrefix(at[m], e[1])
      BY <2>4
    <3>2. b.type = type[n] /\ b.at = at[n]
      BY <2>2 DEF At
    <3> HIDE DEF r, l, m, t, Q, P, L
    <3> QED BY <2>3, <2>5, <2>6, <3>1, <3>2, ChildRead DEF r
  <2>8. Q(i + 1) = Q(i) \cup Placed(m)
    <3>1. 1..i + 1 = 1..i \cup {i + 1}
      OBVIOUS
    <3> QED BY <3>1
  <2>9. FlattenSeq(SubSeq(P, 1, i + 1)) = FlattenSeq(SubSeq(P, 1, i)) \o t
    <3> HIDE DEF P, k
    <3>1. SubSeq(P, 1, i) \in Seq(Seq(Token)) /\ t \in Seq(Token)
      BY <1>4, <2>1
    <3>2. SubSeq(P, 1, i + 1) = Append(SubSeq(P, 1, i), t)
      BY <1>4, <2>1
    <3> HIDE DEF t
    <3> QED BY <3>1, <3>2, FlattenAppend
  <2>10. FlattenSeq(SubSeq(P, 1, i)) \in Seq(Token) /\ t \in Seq(Token)
    <3> HIDE DEF P, k
    <3>1. SubSeq(P, 1, i) \in Seq(Seq(Token)) /\ t \in Seq(Token)
      BY <1>4, <2>1
    <3> QED BY <3>1, FlattenType
  <2>11. At(i + 1, d)
    <3>1. Reads(Place(Push(o, c), q), FlattenSeq(SubSeq(P, 1, i)), Place(Push(o, b), Q(i)))
      BY <2>2 DEF At
    <3>2. d.type = c.type /\ d.at = c.at /\ d.count = i + 1 + 1
      BY <2>2, <2>7 DEF At
    <3> HIDE DEF Q, P, t, m
    <3>3. Reads(Place(Push(o, c), q), FlattenSeq(SubSeq(P, 1, i)) \o t,
                Place(Push(o, d), Q(i) \cup Placed(m)))
      BY <2>7, <2>10, <3>1, ReadsOn
    <3> QED BY <2>8, <2>9, <3>2, <3>3 DEF At
  <2> QED BY <2>11
<1>7. Nat \subseteq S
  <2> HIDE DEF S
  <2> QED BY <1>5, <1>6, Induction
<1>8. PICK d \in Frames : At(k, d)
  BY <1>1, <1>7
<1>9. SubSeq(P, 1, k) = P
  <2> HIDE DEF P, k
  <2> QED BY <1>4, SubSeqFull
<1>10. Q(k) = q \cup UNION {Placed(kids[n][l]) : l \in DOMAIN kids[n]}
  <2>1. {Placed(Kid(j)) : j \in 1..k} = {Placed(kids[n][l]) : l \in DOMAIN kids[n]}
    <3>1. \A j \in 1..k : L[j] \in DOMAIN kids[n] /\ Placed(Kid(j)) = Placed(kids[n][L[j]])
      BY <1>2
    <3>2. \A l \in DOMAIN kids[n] : \E j \in 1..k : Placed(kids[n][l]) = Placed(Kid(j))
      BY <1>1
    <3> HIDE DEF L, k, Kid
    <3> QED BY <3>1, <3>2
  <2> QED BY <2>1
<1> HIDE DEF Q, P
<1>11. Reads(Place(Push(o, c), q), FlattenSeq(P),
             Place(Push(o, d), q \cup UNION {Placed(kids[n][l]) : l \in DOMAIN kids[n]}))
  BY <1>8, <1>9, <1>10 DEF At
<1> QED BY <1>4, <1>11 DEF P

\* A node's text is read as its value when those of its children are.
LEMMA NodeRead ==
  ASSUME TypeOK, PlaceInv, ShapeInv, NEW n \in Nodes, ~Refuses(n),
         \A l \in DOMAIN kids[n] : GivesBack(kids[n][l])
  PROVE  GivesBack(n)
<1> DEFINE t == type[n]
           p == at[n]
<1>1. p \in Seq(Labels) /\ t \in Scalar \cup Container
  <2>1. \A k \in Nodes : at[k] \in Seq(Labels)
    BY NodeNumbers DEF TypeOK, Labels
  <2>2. \A k \in Nodes : type[k] \in Scalar \cup Container
    <3>1. type \in Seq(Scalar \cup Container)
      BY DEF TypeOK
    <3>2. Nodes = 1..Len(type)
      BY NodeNumbers
    <3> DEFINE T == Scalar \cup Container
    <3>3. type \in Seq(T)
      BY <3>1
    <3> HIDE DEF T
    <3>4. \A k \in Nodes : type[k] \in T
      BY <3>2, <3>3, ElementOfSeq
    <3> QED BY <3>4 DEF T
  <2> QED BY <2>1, <2>2
<1>2. generate[n] = TextFrom(generate, n)
  BY GenerateStep
<1>3. Value(t) \in Token /\ End \in Token
  BY <1>1 DEF Token
<1>4. Placed(n) = {<<p, t>>} \cup UNION {Placed(kids[n][l]) : l \in DOMAIN kids[n]}
  <2>1. ASSUME NEW e \in Placed(n)
        PROVE  e = <<p, t>> \/ \E l \in DOMAIN kids[n] : e \in Placed(kids[n][l])
    BY BelowStep DEF Placed
  <2>2. <<p, t>> \in Placed(n)
    BY BelowFacts DEF Placed
  <2>3. \A l \in DOMAIN kids[n] : Placed(kids[n][l]) \subseteq Placed(n)
    BY BelowStep DEF Placed
  <2> QED BY <2>1, <2>2, <2>3
<1> HIDE DEF t, p
<1>5. CASE t \notin Container
  <2>1. generate[n] = <<Value(t)>>
    BY <1>2, <1>5 DEF TextFrom, t
  <2>2. Placed(n) = {<<p, t>>}
    <3>1. DOMAIN kids[n] = {}
      BY <1>5 DEF ShapeInv, t
    <3> QED BY <1>4, <3>1
  <2>3. ASSUME NEW o \in Seq(Frames), NEW q, ValuePath(Place(o, q)) = at[n]
        PROVE  Reads(Place(o, q), generate[n],
                     Place(After(o), {e \in q : ~IsPrefix(at[n], e[1])} \cup Placed(n)))
    <3>1. Read(Place(o, q), Value(t)) =
            Place(After(o), {e \in q : ~IsPrefix(p, e[1])} \cup {<<p, t>>})
      <4>1. p = ValuePath(Place(o, q))
        BY <2>3 DEF p
      <4>2. Read(Place(o, q), Value(t)) = Place(OpenAfter(o, t, p), With(q, t, p))
        BY <4>1, ValueAt
      <4> QED BY <1>5, <4>2, Zenon DEF OpenAfter, With
    <3>2. Reads(Place(o, q), <<Value(t)>>, Read(Place(o, q), Value(t)))
      BY ReadsOne
    <3> QED BY <2>1, <2>2, <3>1, <3>2 DEF p
  <2>4. generate[n] \in Seq(Token)
    BY <1>3, <2>1
  <2> QED BY <2>3, <2>4 DEF GivesBack
<1>6. CASE t \in Container
  <2> DEFINE P == Parts(generate, n)
             B == UNION {Placed(kids[n][l]) : l \in DOMAIN kids[n]}
  <2>1. generate[n] = <<Value(t)>> \o FlattenSeq(P) \o <<End>>
    BY <1>2, <1>6 DEF TextFrom, t
  <2>2. ASSUME NEW o \in Seq(Frames), NEW q, \A e \in q : e[1] \in Seq(Labels),
               ValuePath(Place(o, q)) = at[n]
        PROVE  /\ P \in Seq(Seq(Token))
               /\ Reads(Place(o, q), generate[n],
                        Place(After(o), {e \in q : ~IsPrefix(at[n], e[1])} \cup Placed(n)))
    <3> DEFINE c == Frame(t, p)
               r == {e \in q : ~IsPrefix(p, e[1])} \cup {<<p, t>>}
    <3>1. After(o) \in Seq(Frames)
      <4>1. CASE o = <<>>
        BY <4>1 DEF After
      <4>2. CASE o # <<>>
        <5>1. Last(o) \in Frames /\ Len(o) \in Nat \ {0}
          BY <4>2 DEF Last
        <5>2. Counted(Last(o)) \in Frames
          BY <5>1, CountedFields
        <5> DEFINE d == Counted(Last(o))
        <5> HIDE DEF d
        <5>3. d \in Frames
          BY <5>2 DEF d
        <5>4. WithLast(o, d) \in Seq(Frames)
          BY <5>1, <5>3 DEF WithLast
        <5> QED BY <4>2, <5>4 DEF After, d
      <4> QED BY <4>1, <4>2
    <3>2. c \in Frames /\ c.type = t /\ c.at = p /\ c.count = 1
      BY <1>1, <1>6, FrameFields
    <3>3. Reads(Place(o, q), <<Value(t)>>, Place(Push(After(o), c), r))
      <4>1. p = ValuePath(Place(o, q))
        BY <2>2 DEF p
      <4>2. Read(Place(o, q), Value(t)) = Place(OpenAfter(o, t, p), With(q, t, p))
        BY <4>1, ValueAt
      <4>3. Read(Place(o, q), Value(t)) = Place(Push(After(o), c), r)
        BY <1>6, <4>2, Zenon DEF Push, OpenAfter, With
      <4> HIDE DEF c, r
      <4> QED BY <4>3, ReadsOne
    <3>4. \A e \in r : e[1] \in Seq(Labels) /\ (IsPrefix(p, e[1]) => e[1] = p)
      BY <1>1, <2>2
    <3> DEFINE a == After(o)
    <3> HIDE DEF c, r, B, P, a
    <3>5. P \in Seq(Seq(Token)) /\
          \E d \in Frames : Reads(Place(Push(a, c), r), FlattenSeq(P), Place(Push(a, d), r \cup B))
      <4>1. /\ a \in Seq(Frames) /\ c.type = type[n] /\ c.at = at[n] /\ type[n] \in Container
            /\ \A e \in r : e[1] \in Seq(Labels) /\ (IsPrefix(at[n], e[1]) => e[1] = at[n])
        BY <1>6, <3>1, <3>2, <3>4 DEF a, t, p
      <4> QED BY <3>2, <4>1, ChildrenRead DEF B, P
    <3>6. PICK d \in Frames :
            Reads(Place(Push(a, c), r), FlattenSeq(P), Place(Push(a, d), r \cup B))
      BY <3>5
    <3>7. Reads(Place(Push(a, d), r \cup B), <<End>>, Place(a, r \cup B))
      <4>1. Front(Push(a, d)) = a
        BY <3>1, LastOpen DEF a
      <4>2. Read(Place(Push(a, d), r \cup B), End) = Place(Front(Push(a, d)), r \cup B)
        BY OtherAt, Zenon
      <4>3. Reads(Place(Push(a, d), r \cup B), <<End>>, Read(Place(Push(a, d), r \cup B), End))
        BY ReadsOne
      <4> QED BY <4>1, <4>2, <4>3
    <3>8. FlattenSeq(P) \in Seq(Token)
      BY <3>5, FlattenType
    <3> DEFINE F == FlattenSeq(P)
               h == <<Value(t)>>
    <3>9. h \in Seq(Token) /\ <<End>> \in Seq(Token) /\ F \in Seq(Token) /\ h \o F \in Seq(Token)
      BY <1>3, <3>8
    <3> HIDE DEF F, h
    <3>10. Reads(Place(o, q), h \o F, Place(Push(a, d), r \cup B))
      <4>1. Reads(Place(o, q), h, Place(Push(a, c), r))
        BY <3>3 DEF h, a
      <4>2. Reads(Place(Push(a, c), r), F, Place(Push(a, d), r \cup B))
        BY <3>6 DEF F
      <4> QED BY <3>9, <4>1, <4>2, ReadsOn
    <3>11. Reads(Place(o, q), h \o F \o <<End>>, Place(a, r \cup B))
      BY <3>7, <3>9, <3>10, ReadsOn
    <3>12. r \cup B = {e \in q : ~IsPrefix(at[n], e[1])} \cup Placed(n)
      BY <1>4 DEF r, B, p
    <3> QED BY <2>1, <3>5, <3>11, <3>12 DEF a, h, F
  <2>3. generate[n] \in Seq(Token)
    <3>1. P \in Seq(Seq(Token))
      <4>1. Frame(t, p) \in Frames /\ Frame(t, p).type = t /\ Frame(t, p).at = p
            /\ Frame(t, p).count = 1
        BY <1>1, <1>6, FrameFields
      <4> DEFINE c == Frame(t, p)
                 q == {}
                 a == <<>>
      <4>2. /\ c \in Frames /\ c.type = type[n] /\ c.at = at[n] /\ c.count = 1
            /\ a \in Seq(Frames) /\ type[n] \in Container
            /\ \A e \in q : e[1] \in Seq(Labels) /\ (IsPrefix(at[n], e[1]) => e[1] = at[n])
        BY <1>6, <4>1 DEF t, p
      <4> HIDE DEF c, q, a
      <4> QED BY <4>2, ChildrenRead
    <3>2. FlattenSeq(P) \in Seq(Token)
      BY <3>1, FlattenType
    <3> DEFINE F == FlattenSeq(P)
    <3> HIDE DEF F, P
    <3>3. <<Value(t)>> \o F \o <<End>> \in Seq(Token)
      BY <1>3, <3>2 DEF F
    <3> QED BY <2>1, <3>3 DEF F
  <2> QED BY <2>2, <2>3 DEF GivesBack
<1> QED BY <1>5, <1>6

\* So is the text of every node of a tree that is not too deep.
LEMMA AllRead ==
  ASSUME TypeOK, PlaceInv, ShapeInv, Closed(Live), \A k \in Live : ~Refuses(k), NEW n \in Live
  PROVE  GivesBack(n)
<1> SUFFICES ASSUME ~GivesBack(n) PROVE FALSE
  OBVIOUS
<1>0. \A m \in Live : m \in Nodes
  BY DEF Live
<1> DEFINE S == {k \in Nat : \E m \in Live : k = Len(type) - m /\ ~GivesBack(m)}
<1>1. PICK k \in S : \A j \in S : k <= j
  <2>1. Len(type) - n \in S
    BY <1>0, NodeNumbers
  <2>2. S \subseteq Nat /\ S # {}
    BY <2>1
  <2> HIDE DEF S
  <2> QED BY <2>2, NatMin
<1>2. PICK m \in Live : k = Len(type) - m /\ ~GivesBack(m)
  OBVIOUS
<1>3. ASSUME NEW l \in DOMAIN kids[m] PROVE GivesBack(kids[m][l])
  <2>1. kids[m][l] \in Nodes /\ kids[m][l] > m /\ kids[m][l] \in Live
    <3>1. kids[m][l] \in Nodes /\ kids[m][l] > m
      BY <1>0, BelowStep
    <3>2. kids[m][l] \in Live
      BY DEF Closed
    <3> QED BY <3>1, <3>2
  <2> DEFINE j == Len(type) - kids[m][l]
  <2>2. j \in Nat /\ ~(k <= j)
    BY <1>0, <1>2, <2>1, NodeNumbers
  <2>3. j \notin S
    BY <1>1, <2>2
  <2> QED BY <2>1, <2>2, <2>3
<1> QED BY <1>0, <1>2, <1>3, NodeRead

\* The text of the whole tree, where it is not too deep, means what the text means that it was
\* parsed from.
LEMMA TextMeansTree ==
  ASSUME DomInv, ShapeInv, pc = "ok", \A n \in Live : ~Refuses(n)
  PROVE  Meaning(generate[result]) = y.paths
<1>1. TypeOK /\ PlaceInv /\ Tree /\ result = 1 /\ y.paths = {<<at[n], type[n]>> : n \in Live}
  BY DEF DomInv, OwnedOnce, StackInv, PlaceInv
<1>2. type # <<>>
  <2>1. result \in Nodes \cup {0}
    BY <1>1 DEF TypeOK
  <2>2. 1 \in Nodes
    BY <1>1, <2>1
  <2> QED BY <2>2 DEF Nodes
<1>3. 1 \in Nodes /\ 1 \in Live /\ at[1] = <<>>
  BY <1>1, <1>2, RootLives DEF PlaceInv, Live
<1>4. Placed(1) = y.paths
  BY <1>1, <1>3, AllBelowRoot DEF Placed
<1>5. GivesBack(1)
  BY <1>1, <1>3, AllRead DEF Tree
<1>6. Nothing = Place(<<>>, {}) /\ ValuePath(Place(<<>>, {})) = <<>> /\ <<>> \in Seq(Frames)
  BY DEF Nothing, Place, ValuePath
<1>7. Reads(Nothing, generate[1], Place(After(<<>>), {} \cup Placed(1)))
  <2> DEFINE o == <<>>
             q == {}
  <2>1. /\ o \in Seq(Frames) /\ (\A e \in q : e[1] \in Seq(Labels))
        /\ ValuePath(Place(o, q)) = at[1]
        /\ {e \in q : ~IsPrefix(at[1], e[1])} = {}
    BY <1>3, <1>6
  <2>2. Nothing = Place(o, q)
    BY <1>6
  <2> HIDE DEF o, q
  <2>3. Reads(Place(o, q), generate[1],
              Place(After(o), {e \in q : ~IsPrefix(at[1], e[1])} \cup Placed(1)))
    BY <1>5, <2>1 DEF GivesBack
  <2>4. Reads(Place(o, q), generate[1], Place(After(o), {} \cup Placed(1)))
    BY <2>1, <2>3
  <2> QED BY <2>2, <2>4 DEF o
<1>8. generate[1] \in Seq(Token)
  BY <1>5 DEF GivesBack
<1>9. Meaning(generate[1]) = Place(After(<<>>), {} \cup Placed(1)).paths
  BY <1>7, <1>8, ReadsMeaning
<1>10. Place(After(<<>>), {} \cup Placed(1)).paths = Placed(1)
  BY DEF Place
<1> QED BY <1>1, <1>4, <1>9, <1>10

\* OwnedOnce: of every text, with every key that comes twice, each node of the tree has one
\* owner, nothing that was freed can be reached, and when the parser has failed or the tree
\* was given back no node is left.
THEOREM TreeOwned == Spec => []OwnedOnce
<1>1. DomInv => OwnedOnce
  BY DEF DomInv
<1> QED BY <1>1, DomInvariance, PTL

\* BuildsValue: the callbacks build the tree that has the paths and the types of the text.
THEOREM TreeIsValue == Spec => []BuildsValue
<1>1. DomInv /\ ShapeInv => BuildsValue
  BY PathsAreRead DEF BuildsValue
<1> QED BY <1>1, DomInvariance, ShapeInvariance, PTL

\* RoundTrip: what jdGenerator_generate() writes of a tree that is not deeper than yajl_gen
\* goes, in whatever order a hash table gives its keys, means what the text means that the tree
\* was built from.
THEOREM TreeRoundTrip == Spec => []RoundTrip
<1>1. DomInv /\ ShapeInv => RoundTrip
  BY TextMeansTree DEF RoundTrip
<1> QED BY <1>1, DomInvariance, ShapeInvariance, PTL
=============================================================================
