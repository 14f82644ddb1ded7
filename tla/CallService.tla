---------------------------- MODULE CallService -----------------------------
(***************************************************************************)
(* What a thread that calls a method of IOProcess relies on: its call ends *)
(* at most once, with its own result, with the report of a crash, with     *)
(* Timeout, or with Closed after the client was closed, and no later event *)
(* changes how it ended.                                                   *)
(***************************************************************************)
CONSTANT Call

VARIABLES
  outcome,   \* outcome[c]: "idle", "pending", or how the call has ended
  open       \* TRUE until the client is closed

vars == <<outcome, open>>

Ends == {"result", "crash", "Timeout", "Closed"}

Init == outcome = [c \in Call |-> "idle"] /\ open = TRUE

Begin(c) ==
  /\ outcome[c] = "idle"
  /\ outcome' = [outcome EXCEPT ![c] = "pending"]
  /\ UNCHANGED open

\* Several calls may end in one step: a crash ends all that are under way.
Finish ==
  /\ \E S \in SUBSET Call : \E e \in [S -> Ends] :
       /\ \A c \in S : outcome[c] = "pending" /\ (e[c] = "Closed" => ~open)
       /\ \A c, d \in S : c # d => e[c] = "crash" /\ e[d] = "crash"
       /\ outcome' = [c \in Call |-> IF c \in S THEN e[c] ELSE outcome[c]]
  /\ UNCHANGED open

Close == open' = FALSE /\ UNCHANGED outcome

Next == (\E c \in Call : Begin(c)) \/ Finish \/ Close

Spec == Init /\ [][Next]_vars
=============================================================================
