----------------------------- MODULE MCKeywords ------------------------------
(* Keywords with the table of the source, on every keyword and on a word   *)
(* between each two of them.                                               *)
EXTENDS Keywords

MCWords == 0 .. 90
=============================================================================
