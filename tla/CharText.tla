------------------------------ MODULE CharText -------------------------------
(***************************************************************************)
(* What chbuffer.h promises: a text that grows at its end, can be cut, and *)
(* can be read as a C string.                                              *)
(***************************************************************************)
EXTENDS Integers, Sequences

CONSTANTS Byte, NUL, Strings, Ints, Index

VARIABLES text, reply, usable

textVars == <<text, reply, usable>>

Init == text = << >> /\ reply = << >> /\ usable = TRUE

(* The shortest form of a number: a part of its bytes before which all are *)
(* zero, of which it takes the last at least.                              *)
IsShortest(bytes, number) ==
  \E n \in 1 .. Len(number) :
    /\ bytes = SubSeq(number, n, Len(number))
    /\ \A i \in 1 .. n - 1 : number[i] = NUL
    /\ number[n] # NUL \/ n = Len(number)

Until(n) == IF n \in 0 .. Len(text) THEN SubSeq(text, 1, n) ELSE text

Clear == text' = << >>

Add == \E s \in Strings \cup {<<c>> : c \in Byte} : text' = text \o s

AddNumber ==
  \E number \in Ints : \E n \in DOMAIN number :
    LET bytes == SubSeq(number, n, Len(number))
    IN  IsShortest(bytes, number) /\ text' = text \o bytes

Cut       == \E n \in Index : text' = Until(n)
Overwrite == \E n \in Index, s \in Strings : text' = Until(n) \o s

(* The string ends at the first zero. *)
Get ==
  \E n \in 0 .. Len(text) :
    /\ reply' = SubSeq(text, 1, n)
    /\ \A i \in 1 .. n : text[i] # NUL
    /\ n = Len(text) \/ text[n + 1] = NUL

Next ==
  /\ usable
  /\ \/ (Clear \/ Add \/ AddNumber \/ Cut \/ Overwrite) /\ UNCHANGED <<reply, usable>>
     \/ Get /\ UNCHANGED <<text, usable>>
     \/ usable' = FALSE /\ UNCHANGED <<text, reply>>

Spec == Init /\ [][Next]_textVars
=============================================================================
