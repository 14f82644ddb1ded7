----------------------------- MODULE MCFraming ------------------------------
(***************************************************************************)
(* Three requests for TLC: a short one, one longer than the pipe and one   *)
(* with a character that is not ASCII; their responses differ in length.   *)
(***************************************************************************)
EXTENDS Framing

CONSTANTS short, long, wide

MCText == short :> [ascii |-> 1, wide |-> 0] @@ long :> [ascii |-> 4, wide |-> 0]
            @@ wide :> [ascii |-> 1, wide |-> 1]
MCSize == short :> 2 @@ long :> 1 @@ wide :> 4
=============================================================================
