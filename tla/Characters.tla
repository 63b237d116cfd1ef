----------------------------- MODULE Characters ------------------------------
(***************************************************************************)
(* What scanner.c tells apart among the characters it reads.  A character  *)
(* that no test of the scanner distinguishes from another is left out:     *)
(* "9" stands for 8 and 9, "7" for the digits from 1 to 7, "a" for a, b,   *)
(* c and f, "z" for letters without a meaning of their own, and capitals   *)
(* are their small letters.                                                *)
(*                                                                         *)
(* fgetc() returns bytes, and get_char() adds END_FILE and END_INPUT to    *)
(* them, which are the numbers 203 and 202: the bytes 0xCB and 0xCA of a   *)
(* text are these same two characters.                                     *)
(***************************************************************************)
EXTENDS Integers, Sequences

OctalDigit == {"0", "7"}
Digit      == OctalDigit \cup {"9"}
HexDigit   == Digit \cup {"a", "d", "e"}
Letter     == {"a", "d", "e", "n", "x", "z"}
WordChar   == Letter \cup Digit \cup {"_"}
Space      == {" ", "newline"}
Sign       == {"+", "-"}

(* read_punct(): operators of one character ... *)
SingleOperator ==
  [c \in {"*", "%", ",", ";", ":", ".", "[", "]", "{", "}", "(", ")", "|", "&"} |->
     CASE c = "*" -> "MUL_TOKEN"   [] c = "%" -> "MOD_TOKEN"  [] c = "," -> "COMMA_TOKEN"
       [] c = ";" -> "SEMIC_TOKEN" [] c = ":" -> "COLON_TOKEN" [] c = "." -> "DOT_TOKEN"
       [] c = "[" -> "OSQU_TOKEN"  [] c = "]" -> "CSQU_TOKEN" [] c = "{" -> "OCUR_TOKEN"
       [] c = "}" -> "CCUR_TOKEN"  [] c = "(" -> "OPAR_TOKEN" [] c = ")" -> "CPAR_TOKEN"
       [] c = "|" -> "OR_TOKEN"    [] c = "&" -> "AND_TOKEN"]

(* ... and those that another character may follow. *)
OpenOperator ==
  [c \in {"=", "<", ">", "-", "+", "!"} |->
     CASE c = "=" -> "EQU_TOKEN" [] c = "<" -> "LT_TOKEN"  [] c = ">" -> "GT_TOKEN"
       [] c = "-" -> "SUB_TOKEN" [] c = "+" -> "ADD_TOKEN" [] c = "!" -> "NOT_TOKEN"]

DoubleOperator ==
  [p \in {<<"EQU_TOKEN", "=">>, <<"LT_TOKEN", "=">>, <<"LT_TOKEN", ">">>, <<"GT_TOKEN", "=">>,
          <<"NOT_TOKEN", "=">>, <<"SUB_TOKEN", "-">>, <<"ADD_TOKEN", "+">>} |->
     CASE p = <<"EQU_TOKEN", "=">> -> "EQUALITY_TOKEN"
       [] p = <<"LT_TOKEN", "=">>  -> "LTE_TOKEN"
       [] p = <<"LT_TOKEN", ">">>  -> "NEQ_TOKEN"
       [] p = <<"GT_TOKEN", "=">>  -> "GTE_TOKEN"
       [] p = <<"NOT_TOKEN", "=">> -> "NEQ_TOKEN"
       [] p = <<"SUB_TOKEN", "-">> -> "DEC_TOKEN"
       [] p = <<"ADD_TOKEN", "+">> -> "INC_TOKEN"]

(* All of them. *)
Character ==
  WordChar \cup Space \cup DOMAIN SingleOperator \cup DOMAIN OpenOperator
    \cup {"/", "dquote", "squote", "\\", "@", "control", "NUL", "END_FILE", "END_INPUT"}

(* get_string_esc(): what a character after a backslash stands for, when   *)
(* it is not the start of a number.                                        *)
Unescaped(c) == IF c = "n" THEN "newline" ELSE c

(* The escapes with a number: its digits, the sizes of the three buffers   *)
(* tbuf, and how many digits (of a decimal number, with its sign) are read *)
(* for it at most, which is sizeof(tbuf): a number that long has no zero   *)
(* behind it.                                                              *)
EscapeStart == [c \in {"x", "0", "d"} |->
  IF c = "x" THEN "hex_escape" ELSE IF c = "0" THEN "octal_escape" ELSE "decimal_sign"]

EscapeDigit == [hex_escape |-> HexDigit, octal_escape |-> OctalDigit, decimal_escape |-> Digit]

TbufSize == [hex_escape |-> 9, octal_escape |-> 4, decimal_escape |-> 11]

(* Mutant: one digit more than the octal buffer holds. *)
EscapeSizeOverrun == [TbufSize EXCEPT !.octal_escape = 5]

EscapeSize == TbufSize

-----------------------------------------------------------------------------
(* strtol() and add_char_buffer_int(): what a number puts into the buffer. *)
(* Of a byte only whether it is zero is told apart.  There is no leading   *)
(* byte that is zero, but for the number 0.                                *)
Bytes(n) == {b \in [1 .. n -> {"NUL", "binary"}] : b[1] = "binary"}

AnyBytes == {<<"NUL">>} \cup UNION {Bytes(n) : n \in 1 .. 4}

(* The digits from the first one on that counts; none of a zero, which     *)
(* also a sign alone is.                                                   *)
Counts(number, i) ==
  /\ number[i] \notin Sign \cup {"0"}
  /\ \A j \in 1 .. i - 1 : number[j] \in Sign \cup {"0"}

Significant(number) ==
  IF \E i \in DOMAIN number : Counts(number, i)
    THEN SubSeq(number, CHOOSE i \in DOMAIN number : Counts(number, i), Len(number))
    ELSE << >>

(* Two hexadecimal digits are a byte. *)
HexBytes(digits) ==
  LET n == (Len(digits) + 1) \div 2 IN
  [k \in 1 .. n |->
     IF \A i \in DOMAIN digits : (Len(digits) - i) \div 2 = n - k => digits[i] = "0"
       THEN "NUL" ELSE "binary"]

(* The octal number is cut to a char, of which "7", "0", "0" (0400, say)   *)
(* may leave nothing.                                                      *)
OctalBytes(digits) ==
  {<<"binary">>} \cup IF digits = <<"7", "0", "0">> THEN {<<"NUL">>} ELSE {}

(* How many bytes a number of one to nine decimal digits may have; one of  *)
(* ten may be more than an int, which is cut.  A negative one has all four.*)
ByteCount == <<{1}, {1}, {1, 2}, {2}, {2, 3}, {3}, {3}, {3, 4}, {4}>>

DecimalBytes(number, digits) ==
  IF number[1] = "-" THEN Bytes(4)
  ELSE IF Len(digits) > Len(ByteCount) THEN AnyBytes
  ELSE UNION {Bytes(n) : n \in ByteCount[Len(digits)]}

NumberBytes(escape, number) ==
  LET digits == Significant(number) IN
  IF digits = << >> THEN {<<"NUL">>}
  ELSE CASE escape = "hex_escape"   -> {HexBytes(digits)}
         [] escape = "octal_escape" -> OctalBytes(digits)
         [] OTHER                   -> DecimalBytes(number, digits)

(* Of a number that fills its tbuf, strlen() and strtol() read on in what  *)
(* is behind tbuf in memory: the number is any.                            *)
OverrunBytes(escape) ==
  IF escape = "octal_escape" THEN {<<"NUL">>, <<"binary">>} ELSE AnyBytes
=============================================================================
