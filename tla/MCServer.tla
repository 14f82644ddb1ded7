------------------------------ MODULE MCServer ------------------------------
(***************************************************************************)
(* Instances of Server for TLC. A request is a model value; its kind is    *)
(* given by which of the constant sets it belongs to.                      *)
(***************************************************************************)
EXTENDS Server, TLC

CONSTANTS Calls, Hangs, NoMethods, NoIds, Crashes, Garbages

MCRequest == Calls \cup Hangs \cup NoMethods \cup NoIds \cup Crashes \cup Garbages

MCKind == [r \in MCRequest |->
             CASE r \in Calls -> "call"
               [] r \in Hangs -> "hang"
               [] r \in NoMethods -> "nomethod"
               [] r \in NoIds -> "noid"
               [] r \in Crashes -> "crash"
               [] r \in Garbages -> "garbage"]

\* Requests of one kind are interchangeable.
Symmetry == Permutations(Calls)
=============================================================================
