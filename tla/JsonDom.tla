------------------------------ MODULE JsonDom -------------------------------
(***************************************************************************)
(* The JSON tree of json-dom.c, the parser callbacks that build it from    *)
(* the tokens yajl finds in a text (json-dom-parser.c), and the generator  *)
(* that walks it (json-dom-generator.c).                                   *)
(*                                                                         *)
(* Nodes are numbered in the order of their allocation. What the text      *)
(* means is kept apart from the tree: `y' follows yajl's grammar and holds *)
(* the set of all paths of the text with the type of the value found there.*)
(* A step of a path is a map key, a sequence of character codes, or <<0,i>>*)
(* for element i of an array.                                              *)
(***************************************************************************)
EXTENDS Integers, Sequences, FiniteSets, SequencesExt

CONSTANTS
  Scalar,     \* the types of values that are no containers
  Key,        \* the keys of the texts
  MaxNodes,   \* bound: values in a text
  MaxDepth,   \* the containers yajl_gen writes inside each other, 127
  Faults      \* {"malloc"} when the allocation of a node may fail

ASSUME ConstantsAssumption ==
  /\ Scalar \subseteq {"null", "boolean", "long", "double", "string"}
  /\ Key \subseteq Seq(Nat \ {0}) /\ MaxNodes \in Nat \ {0} /\ MaxDepth \in Nat
  /\ Faults \subseteq {"malloc"}

Container == {"map", "array"}

VARIABLES
  y,               \* yajl's place in the text and the meaning of what it has read
  type, kids,      \* of every node: its type, and its children by map key or index
  at,              \* history, of every node: the path of its value in the text
  containerStack,  \* head first
  tmpMapKay,
  freed,           \* nodes that have been freed
  pc,              \* "parse", "error", "crashed"; "ok", "failed", then "released"
  result

vars == <<y, type, kids, at, containerStack, tmpMapKay, freed, pc, result>>
domVars == <<type, kids, at, containerStack, tmpMapKay, freed>>

-----------------------------------------------------------------------------
(* yajl: the grammar, and the meaning of a sequence of tokens *)

Value(t)  == [tok |-> "value", type |-> t, key |-> <<>>]
KeyTok(k) == [tok |-> "key", type |-> "none", key |-> k]
End       == [tok |-> "end", type |-> "none", key |-> <<>>]

Nothing == [open |-> <<>>, paths |-> {}]
Done(s) == s.open = <<>> /\ s.paths # {}

\* Where the next value belongs.
ValuePath(s) ==
  IF s.open = <<>> THEN <<>>
  ELSE LET c == Last(s.open)
       IN  Append(c.at, IF c.type = "array" THEN <<0, c.count>> ELSE c.key)

\* A container after one more value, and a new one at path p.
Counted(c) == [c EXCEPT !.count = @ + 1, !.keyed = "no"]
Frame(t, p) == [type |-> t, at |-> p, count |-> 1, key |-> <<>>, keyed |-> "no"]

\* The open containers with the last one changed.
WithLast(open, c) == [open EXCEPT ![Len(open)] = c]

\* What a token adds to the meaning: a value replaces whatever its path held before.
Read(s, token) ==
  LET p == ValuePath(s)
      c == Last(s.open)
      outer == IF s.open = <<>> THEN <<>> ELSE WithLast(s.open, Counted(c))
  IN  CASE token.tok = "key" ->
             [s EXCEPT !.open = WithLast(@, [c EXCEPT !.key = token.key, !.keyed = "yes"])]
        [] token.tok = "end" -> [s EXCEPT !.open = Front(@)]
        [] token.tok = "value" ->
             [open  |-> IF token.type \in Container THEN Append(outer, Frame(token.type, p))
                                                    ELSE outer,
              paths |-> {e \in s.paths : ~IsPrefix(p, e[1])} \cup {<<p, token.type>>}]

\* The tokens the grammar allows next.
Allowed(s) ==
  IF Done(s) THEN {}
  ELSE IF s.open = <<>> THEN {Value(t) : t \in Scalar \cup Container}
  ELSE LET c == Last(s.open)
           values == {Value(t) : t \in Scalar \cup Container}
       IN  IF c.type = "array" THEN values \cup {End}
           ELSE IF c.keyed = "yes" THEN values ELSE {KeyTok(k) : k \in Key} \cup {End}

\* What a whole text means.
Meaning(tokens) ==
  LET after[i \in 0..Len(tokens)] == IF i = 0 THEN Nothing ELSE Read(after[i - 1], tokens[i])
  IN  after[Len(tokens)].paths

-----------------------------------------------------------------------------
(* The tree *)

Nodes == DOMAIN type

\* The sets of nodes that hold the children of their members.
Closed(S) == \A m \in S : \A l \in DOMAIN kids[m] : kids[m][l] \in S

\* A node and everything below it, what JsonNode_free() frees.
Below(n) == {m \in Nodes : \A S \in SUBSET Nodes : n \in S /\ Closed(S) => m \in S}

\* The paths of the tree with the types of its nodes.
Paths ==
  LET paths[n \in Nodes] ==
        {<< <<>>, type[n] >>} \cup
        UNION {{<< <<l>> \o e[1], e[2] >> : e \in paths[kids[n][l]]} : l \in DOMAIN kids[n]}
  IN  paths

\* A bug: the table is made without a function that frees the values.
Mutant_Replaced(head, l) == {}

\* JsonNode_map_insert(): g_hash_table_insert() frees the value that had the key before.
Replaced(head, l) == IF l \in DOMAIN kids[head] THEN Below(kids[head][l]) ELSE {}

Init ==
  /\ y = Nothing /\ type = <<>> /\ kids = <<>> /\ at = <<>> /\ containerStack = <<>>
  /\ tmpMapKay = <<>> /\ freed = {} /\ pc = "parse" /\ result = 0

-----------------------------------------------------------------------------
(* The callbacks *)

\* cb_build_safeContainerAdd() pushes a container, so that what follows goes into it.
Opened(t, n) == IF t \in Container THEN <<n>> ELSE <<>>

\* jdBuilder_addValue(): the first node becomes the root, at the end of the stack; a root that
\* is a container is pushed a second time, as an open one.
AddValue(t) ==
  LET n == Len(type) + 1
      head == Head(containerStack)
      label == IF type[head] = "array" THEN <<0, Cardinality(DOMAIN kids[head]) + 1>>
                                       ELSE tmpMapKay
      open == Opened(t, n)
  IN  /\ type' = Append(type, t) /\ at' = Append(at, ValuePath(y))
      /\ IF containerStack = <<>>
         THEN /\ containerStack' = open \o <<n>>
              /\ kids' = Append(kids, <<>>)
              /\ UNCHANGED freed
         ELSE /\ containerStack' = open \o containerStack
              /\ kids' = Append([kids EXCEPT ![head] = [l \in DOMAIN @ \cup {label} |->
                                                          IF l = label THEN n ELSE @[l]]], <<>>)
              /\ freed' = freed \cup Replaced(head, label)
      /\ UNCHANGED tmpMapKay

\* cb_build_null, _boolean, _long, _double, _string, _start_map and _start_array.
cb_build_value(t) ==
  /\ pc = "parse" /\ Value(t) \in Allowed(y) /\ Len(type) < MaxNodes
  /\ AddValue(t)
  /\ y' = Read(y, Value(t))
  /\ UNCHANGED <<pc, result>>

\* JsonNode_new() gives no node: the callback stops the parser. A container's table is lost;
\* cb_build_string uses the node before it looks at it.
cb_build_oom(t) ==
  /\ pc = "parse" /\ Value(t) \in Allowed(y) /\ "malloc" \in Faults
  /\ pc' = IF t = "string" THEN "crashed" ELSE "error"
  /\ UNCHANGED <<y, domVars, result>>

\* g_string_overwrite_len() at position 0.
Overwrite(old, k) == k \o SubSeq(old, Len(k) + 1, Len(old))

\* A bug: the rest of a longer key is not cut off.
Mutant_NewKey(k) == Overwrite(tmpMapKay, k)

NewKey(k) == SubSeq(Overwrite(tmpMapKay, k), 1, Len(k))

cb_build_map_key(k) ==
  /\ pc = "parse" /\ KeyTok(k) \in Allowed(y)
  /\ tmpMapKay' = NewKey(k)
  /\ y' = Read(y, KeyTok(k))
  /\ UNCHANGED <<type, kids, at, containerStack, freed, pc, result>>

popContainerStack == Tail(containerStack)

cb_build_end_container ==
  /\ pc = "parse" /\ End \in Allowed(y)
  /\ containerStack' = popContainerStack
  /\ y' = Read(y, End)
  /\ UNCHANGED <<type, kids, at, tmpMapKay, freed, pc, result>>

-----------------------------------------------------------------------------
(* jdParser_buildDom() *)

\* Something else than the grammar allows, or the end of the text before the value is done.
SyntaxError ==
  /\ pc = "parse"
  /\ pc' = "error"
  /\ UNCHANGED <<y, domVars, result>>

\* g_queue_peek_tail().
Root == Last(containerStack)

Finish ==
  /\ pc = "parse" /\ Done(y)
  /\ result' = Root
  /\ pc' = "ok"
  /\ UNCHANGED <<y, domVars>>

Clean ==
  /\ pc = "error"
  /\ freed' = IF containerStack = <<>> THEN freed ELSE freed \cup Below(Root)
  /\ pc' = "failed"
  /\ UNCHANGED <<y, type, kids, at, containerStack, tmpMapKay, result>>

\* JsonNode_free() by whoever uses the tree.
JsonNode_free ==
  /\ pc = "ok"
  /\ freed' = freed \cup Below(result)
  /\ pc' = "released"
  /\ UNCHANGED <<y, type, kids, at, containerStack, tmpMapKay, result>>

Ended == pc \in {"failed", "released", "crashed"} /\ UNCHANGED vars

Next ==
  \/ \E t \in Scalar \cup Container : cb_build_value(t) \/ cb_build_oom(t)
  \/ \E k \in Key : cb_build_map_key(k)
  \/ cb_build_end_container \/ SyntaxError \/ Finish \/ Clean \/ JsonNode_free \/ Ended

Spec == Init /\ [][Next]_vars

-----------------------------------------------------------------------------
(* jdGenerator_generate() *)

\* A bug: the loop over an array reads its first element again and again.
Mutant_elements(n) == [i \in 1..Cardinality(DOMAIN kids[n]) |-> <<0, 1>>]

\* Elements in their order, up to the terminating NULL of the array.
elements(n) == [i \in 1..Cardinality(DOMAIN kids[n]) |-> <<0, i>>]

\* The children in the order of the text; that of a hash table is arbitrary.
Labelled(n) == IF type[n] = "array" THEN elements(n) ELSE SetToSeq(DOMAIN kids[n])

\* A child of a map comes after its key.
KeyOf(n, l) == IF type[n] = "array" THEN <<>> ELSE <<KeyTok(l)>>

\* yajl_gen_map_open() and yajl_gen_array_open() refuse a container inside too many others. The
\* statuses are not looked at: what the text holds in its place is not defined.
Refuses(n) == type[n] \in Container /\ Len(at[n]) >= MaxDepth
Undefined == [tok |-> "undefined", type |-> "none", key |-> <<>>]

\* The tokens of the text generated for each node.
generate ==
  LET gen[n \in Nodes] ==
        IF Refuses(n) THEN <<Undefined>>
        ELSE IF type[n] \in Container
        THEN <<Value(type[n])>> \o
             FlattenSeq([i \in DOMAIN Labelled(n) |->
                           KeyOf(n, Labelled(n)[i]) \o gen[kids[n][Labelled(n)[i]]]]) \o <<End>>
        ELSE <<Value(type[n])>>
  IN  gen

-----------------------------------------------------------------------------
(* Properties *)

Labels == Seq(Nat)

Frames == [type : Container, at : Seq(Labels), count : Nat \ {0}, key : Labels,
           keyed : {"no", "yes"}]

\* Every variable holds what the code keeps in it; the stack holds the root and one entry for
\* every container yajl has open.
TypeOK ==
  /\ type \in Seq(Scalar \cup Container)
  /\ kids = [n \in Nodes |-> kids[n]]
  /\ \A n \in Nodes : /\ DOMAIN kids[n] \subseteq Labels
                      /\ \A l \in DOMAIN kids[n] : kids[n][l] \in n + 1..Len(type)
  /\ at \in Seq(Seq(Labels)) /\ Len(at) = Len(type)
  /\ y = [open |-> y.open, paths |-> y.paths] /\ y.open \in Seq(Frames)
  /\ containerStack \in Seq(Nodes) /\ tmpMapKay \in Key \cup {<<>>}
  /\ Len(containerStack) = IF type = <<>> THEN 0 ELSE Len(y.open) + 1
  /\ type = <<>> => y.open = <<>>
  /\ freed \subseteq Nodes /\ result \in Nodes \cup {0}
  /\ pc \in {"parse", "error", "crashed", "ok", "failed", "released"}

Live == Nodes \ freed

Tree ==
  /\ Closed(Live)
  /\ \A i \in DOMAIN containerStack : containerStack[i] \in Live
  /\ \A n \in Live \ {1} : \E m \in Live : \E l \in DOMAIN kids[m] : kids[m][l] = n
  /\ \A m, n \in Live : \A l \in DOMAIN kids[m], k \in DOMAIN kids[n] :
       kids[m][l] = kids[n][k] => m = n /\ l = k

\* Every node that is not freed but the root belongs to exactly one other, at one place, and
\* no node that was freed is below one that was not or on the stack: a key that comes twice
\* frees exactly the value it replaces. Whether parsing fails anywhere or the tree is used and
\* freed, no node is left.
OwnedOnce ==
  /\ pc \in {"parse", "error", "ok"} => Tree
  /\ pc \in {"failed", "released"} => freed = Nodes

\* The stack: the root is at its end, and an open container is above the ones it is in.
StackInv ==
  /\ type # <<>> => Last(containerStack) = 1
  /\ \A i, j \in 1..Len(y.open) : i < j => containerStack[i] > containerStack[j]
  /\ pc = "ok" => result = 1

\* The entry of the stack for the i-th open container.
Entry(i) == containerStack[Len(y.open) + 1 - i]

\* The containers on the stack are those the text has open, with what it has put into them.
OpenInv ==
  /\ \A i \in DOMAIN y.open :
       /\ type[Entry(i)] = y.open[i].type /\ at[Entry(i)] = y.open[i].at
       /\ y.open[i].type = "array" =>
            DOMAIN kids[Entry(i)] = {<<0, j>> : j \in 1..y.open[i].count - 1}
       /\ y.open[i].keyed = "yes" => i = Len(y.open) /\ y.open[i].key = tmpMapKay

\* A node is where the text has its value.
PlaceInv ==
  /\ type # <<>> => at[1] = <<>>
  /\ \A m \in Nodes : \A l \in DOMAIN kids[m] : at[kids[m][l]] = Append(at[m], l)
  /\ \A m, n \in Live : at[m] = at[n] => m = n
  /\ pc \in {"parse", "error", "ok"} => y.paths = {<<at[n], type[n]>> : n \in Live}

\* The inductive invariant.
DomInv == TypeOK /\ OwnedOnce /\ StackInv /\ OpenInv /\ PlaceInv

\* What is kept of a closed container too: the children of an array are its elements, and only
\* containers have children.
ShapeInv ==
  \A n \in Nodes :
    /\ IsFiniteSet(DOMAIN kids[n])
    /\ type[n] = "array" =>
         DOMAIN kids[n] = {<<0, j>> : j \in 1..Cardinality(DOMAIN kids[n])}
    /\ type[n] \notin Container => DOMAIN kids[n] = {}

\* The tree is the value of the text read so far, although one buffer holds the keys of all
\* nested maps and the root is on the stack twice; of equal keys the last one counts. The
\* inductive invariant holds too.
BuildsValue ==
  /\ DomInv /\ ShapeInv
  /\ type # <<>> /\ pc \in {"parse", "ok"} => Paths[Last(containerStack)] = y.paths

\* The text generated from a tree that is not too deep means what the text it was parsed from
\* means.
RoundTrip ==
  pc = "ok" /\ (\A n \in Live : ~Refuses(n)) => Meaning(generate[result]) = y.paths
=============================================================================
