--------------------------- MODULE MCTextFunctions ---------------------------
(* TextFunctions with a bound for each kind of input.  The calls are a step *)
(* back, tell, and reads of one and two bytes.                              *)
EXTENDS TextFunctions

MCCall == {-1, 0, 1, 2}

MCMaxLength == [bytes |-> 5, chars |-> 8, text |-> 6, calls |-> 5, lines |-> 6]
=============================================================================
