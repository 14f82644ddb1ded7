----------------------------- MODULE MCJsonDom ------------------------------
(***************************************************************************)
(* Keys for TLC: one is the beginning of the other.                        *)
(***************************************************************************)
EXTENDS JsonDom

MCKey == {<<1>>, <<1, 2>>}
=============================================================================
