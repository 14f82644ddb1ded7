----------------------------- MODULE MCLogging ------------------------------
(***************************************************************************)
(* Instances of Logging for TLC: an ordinary message, the one of           *)
(* responseWriter() that holds a line end of its own, and two with a path  *)
(* that holds a "\r\n" or a "\r".                                          *)
(***************************************************************************)
EXTENDS Logging

Plain == <<"text", "text", "nl">>
TwoEnds == <<"text", "nl", "nl">>
WithCrLf == <<"text", "cr", "nl">>
WithCr == <<"text", "cr", "text", "nl">>

MCTexts == {Plain, TwoEnds, WithCrLf, WithCr}
=============================================================================
