---------------------------- MODULE ChildProcess ----------------------------
(***************************************************************************)
(* What the client relies on of an ioprocess child, seen through its pipes *)
(* only: it takes requests, answers each of them at most once and in any   *)
(* order, never says anything it was not asked for, and may die at any     *)
(* moment. Server implements this specification, and Client uses nothing   *)
(* else of the processes it starts.                                        *)
(***************************************************************************)
EXTENDS Sequences

CONSTANT Message     \* the requests; a response is named by its request

VARIABLES
  state,     \* "none" before the process is started, "up", "dead"
  pending,   \* requests that were sent and are not answered
  responses  \* answers the client has not read, in the order they were written

vars == <<state, pending, responses>>

Init == state \in {"none", "up"} /\ pending = {} /\ responses = <<>>

Start == state = "none" /\ state' = "up" /\ UNCHANGED <<pending, responses>>

Receive(m) ==
  /\ state = "up" /\ m \notin pending
  /\ pending' = pending \cup {m}
  /\ UNCHANGED <<state, responses>>

Answer(m) ==
  /\ state = "up" /\ m \in pending
  /\ pending' = pending \ {m}
  /\ responses' = Append(responses, m)
  /\ UNCHANGED state

\* The client takes an answer. It may do so when the process is dead already.
Take ==
  /\ responses # <<>>
  /\ responses' = Tail(responses)
  /\ UNCHANGED <<state, pending>>

\* The process ends and leaves what it had in hand; the pipes keep what was written.
Die == state = "up" /\ state' = "dead" /\ UNCHANGED <<pending, responses>>

\* The client closes the pipes: what is in them is gone, and so is the process.
Discard == state # "none" /\ state' = "dead" /\ pending' = {} /\ responses' = <<>>

Next ==
  \/ Start \/ Take \/ Die \/ Discard
  \/ \E m \in Message : Receive(m) \/ Answer(m)

Spec == Init /\ [][Next]_vars
=============================================================================
