------------------------------- MODULE MCWire -------------------------------
(* A small instance of Wire: a message without a payload, and one with an   *)
(* attribute that has to be padded.                                         *)
EXTENDS Wire
Empty == {<<>>}
Both == {<<>>, <<1>>}
=============================================================================
