-------------------------- MODULE ScannerReference ---------------------------
(***************************************************************************)
(* What a text scans to, said without a scanner: between gaps of blanks    *)
(* and comments, the next lexeme is the longest stretch of text that has   *)
(* the form of one.  The forms are those of scanner.c, which also says     *)
(* where a character is lost: behind a number in hexadecimal, in octal or  *)
(* with an exponent without a sign, and behind a number in a string, if    *)
(* the number does not fill its buffer.                                    *)
(***************************************************************************)
EXTENDS Characters, FiniteSetsExt, SequencesExt

CONSTANT WordToken(_)   (* the token of a word *)

AllIn(s, S) == ToSet(s) \subseteq S
From(s, i)  == SubSeq(s, i, Len(s))
UpTo(s, i)  == SubSeq(s, 1, i)

-----------------------------------------------------------------------------
IsWord(s)    == AllIn(s, WordChar) /\ s[1] \notin Digit
IsNumeral(s) == s # << >> /\ AllIn(s, Digit)
IsInteger(s) == IsNumeral(s) /\ (s[1] = "0" => s = <<"0">>)
IsHex(s)     == IsPrefix(<<"0", "x">>, s) /\ AllIn(From(s, 3), HexDigit)
IsOctal(s)   == Len(s) > 1 /\ s[1] = "0" /\ AllIn(s, OctalDigit)
BadOctal(s)  == Len(s) > 1 /\ s[1] = "0" /\ AllIn(s, Digit) /\ ~IsOctal(s)

(* s is an integer, a point, digits, and an "e" with what IsTail accepts.  *)
WithExponent(s, IsTail(_)) ==
  \E p, e \in DOMAIN s :
    /\ p < e /\ s[p] = "." /\ s[e] = "e"
    /\ IsInteger(UpTo(s, p - 1))
    /\ AllIn(SubSeq(s, p + 1, e - 1), Digit)
    /\ IsTail(From(s, e + 1))

PlainFloat(s) ==
  \E p \in DOMAIN s :
    s[p] = "." /\ IsInteger(UpTo(s, p - 1)) /\ AllIn(From(s, p + 1), Digit)

IsSigned(x) == Len(x) > 1 /\ x[1] \in Sign /\ IsNumeral(Tail(x))
IsFloat(s)  == \/ PlainFloat(s)
               \/ WithExponent(s, IsSigned)
               \/ WithExponent(s, IsNumeral)

(* An exponent without digits; what stands in their place is part of it.   *)
NoExponent(x) ==
  \/ Len(x) <= 1 /\ AllIn(x, Sign)
  \/ Len(x) > 0 /\ x[1] \notin Digit \cup Sign /\ AllIn(Tail(x), Digit)
BadFloat(s) == WithExponent(s, NoExponent)

IsOperator(s) ==
  \/ Len(s) = 1 /\ s[1] \in DOMAIN SingleOperator \cup DOMAIN OpenOperator \cup {"/"}
  \/ /\ Len(s) = 2 /\ s[1] \in DOMAIN OpenOperator
     /\ <<OpenOperator[s[1]], s[2]>> \in DOMAIN DoubleOperator

OperatorToken(s) ==
  IF Len(s) = 2 THEN DoubleOperator[<<OpenOperator[s[1]], s[2]>>]
  ELSE IF s[1] = "/" THEN "SLASH_TOKEN"
  ELSE (SingleOperator @@ OpenOperator)[s[1]]

Forms(s) ==
  IF s[1] \in Letter \cup {"_"} THEN IsWord(s)
  ELSE IF s[1] \in Digit
    THEN IsInteger(s) \/ IsHex(s) \/ IsOctal(s) \/ IsFloat(s) \/ BadOctal(s) \/ BadFloat(s)
  ELSE IsOperator(s)

TypeOf(s) ==
  CASE IsWord(s)    -> WordToken(s)
    [] IsInteger(s) -> "INUM_TOKEN"
    [] IsHex(s)     -> "UNUM_TOKEN"
    [] IsOctal(s)   -> "ONUM_TOKEN"
    [] IsFloat(s)   -> "FNUM_TOKEN"
    [] BadOctal(s) \/ BadFloat(s) -> "ERROR_TOKEN"
    [] OTHER        -> OperatorToken(s)

LosesNext(s) == IsHex(s) \/ IsOctal(s) \/ WithExponent(s, IsNumeral)

-----------------------------------------------------------------------------
(* Strings.  A unit is a character or an escape.  The number of an escape  *)
(* is as long as its digits go, or as its buffer is; in the first case the *)
(* character behind it belongs to the unit.  The first digit of a decimal  *)
(* number does not count, a sign does.                                     *)
NumberOf(u) ==
  IF u[2] = "d" /\ u[3] \notin Sign THEN From(u, 4) ELSE From(u, 3)

EscapeOf(kind) == IF kind = "d" THEN "decimal_escape" ELSE EscapeStart[kind]
DigitsOf(kind) == EscapeDigit[EscapeOf(kind)]
SizeOf(kind)   == EscapeSize[EscapeOf(kind)]

(* The digits, without the character behind them. *)
Written(u) ==
  IF Last(u) \in DigitsOf(u[2]) THEN NumberOf(u) ELSE Front(NumberOf(u))

NumberUnit(u) ==
  /\ Len(u) >= 3 /\ u[1] = "\\" /\ u[2] \in DOMAIN EscapeStart
  /\ NumberOf(u) # << >>
  /\ LET w == Written(u) IN
     /\ w # << >>
     /\ w[1] \in DigitsOf(u[2]) \/ (u[2] = "d" /\ u[3] \in Sign)
     /\ AllIn(Tail(w), DigitsOf(u[2]))
     /\ IF w = NumberOf(u) THEN Len(w) = SizeOf(u[2]) ELSE Len(w) < SizeOf(u[2])

EmptyNumber(u) ==
  \/ u \in {<<"\\", "x">>, <<"\\", "0">>}
  \/ Len(u) = 3 /\ UpTo(u, 2) = <<"\\", "d">> /\ u[3] \notin Sign

IsUnit(u, quote) ==
  IF u[1] = "\\" /\ quote = "dquote"
    THEN NumberUnit(u) \/ EmptyNumber(u) \/ (Len(u) = 2 /\ u[2] # "d")
    ELSE Len(u) = 1 /\ u[1] \notin {quote, "newline"}

(* One digit more than scanner.c 438, 468 and 497 say that it may have.    *)
FullNumber(u) == NumberUnit(u) /\ Len(Written(u)) = SizeOf(u[2])

(* What a unit may stand for: the bytes of a number are not told apart.    *)
TextsOfUnit(u, quote) ==
  IF u[1] # "\\" \/ quote = "squote" THEN {u}
  ELSE IF FullNumber(u) THEN OverrunBytes(EscapeOf(u[2]))
  ELSE IF NumberUnit(u) THEN NumberBytes(EscapeOf(u[2]), Written(u))
  ELSE IF EmptyNumber(u) THEN {<< >>}
  ELSE {<<Unescaped(u[2])>>}

Lexeme(type, texts, next, disputed) ==
  [type |-> type, texts |-> texts, next |-> next, disputed |-> disputed]
Unended(type) == Lexeme(type, {<< >>}, 0, FALSE)

(* Only blanks are between p and another string. *)
StringBehind(t, p) ==
  \E q \in p .. Len(t) : t[q] \in {"dquote", "squote"} /\ AllIn(SubSeq(t, p, q - 1), Space)

(* The string whose rest starts at p, behind one of `texts'.  It is        *)
(* disputed, and nothing is said of what it scans to, where the comments   *)
(* of scanner.c say otherwise than its code: when it has a number of one   *)
(* digit too many, and when another string is behind it (557-560 and       *)
(* 595-598).                                                               *)
RECURSIVE StringFrom(_, _, _, _, _)
StringFrom(t, p, quote, texts, disputed) ==
  IF p > Len(t) THEN Unended("UNENDED_STRING")
  ELSE IF t[p] = quote
    THEN Lexeme("QSTRG_TOKEN", texts, p + 1, disputed \/ StringBehind(t, p + 1))
  ELSE IF t[p] = "newline"
    THEN LET blanks == {q \in p + 1 .. Len(t) : t[q] \in Space}
         IN  IF blanks = {} THEN Unended("UNENDED_STRING")
             ELSE Lexeme("ERROR_TOKEN", {<< >>}, Min(blanks), disputed)
  ELSE LET ends == {q \in p .. Len(t) : IsUnit(SubSeq(t, p, q), quote)}
           unit == SubSeq(t, p, Max(ends))
       IN  IF ends = {} THEN Unended("UNENDED_STRING")
           ELSE StringFrom(t, Max(ends) + 1, quote,
                           {x \o y : x \in texts, y \in TextsOfUnit(unit, quote)},
                           disputed \/ (quote = "dquote" /\ FullNumber(unit)))

-----------------------------------------------------------------------------
(* Where the gap that starts at p ends; 0 if a comment in it never does.   *)
RECURSIVE EndOfGap(_, _)
EndOfGap(t, p) ==
  IF p > Len(t) THEN p
  ELSE IF t[p] \in Space \cup {"@", "\\", "control", "NUL"} THEN EndOfGap(t, p + 1)
  ELSE IF IsPrefix(<<"/", "/">>, From(t, p))
    THEN LET ends == {q \in p + 2 .. Len(t) : t[q] \in {"newline", "END_FILE"}}
         IN  EndOfGap(t, Min(ends \cup {Len(t) + 1}))
  ELSE IF IsPrefix(<<"/", "*">>, From(t, p))
    THEN LET ends == {q \in p + 2 .. Len(t) :
                        \/ t[q] = "NUL"
                        \/ t[q] = "/" /\ t[q - 1] = "*" /\ q > p + 2}
         IN  IF ends = {} THEN 0 ELSE EndOfGap(t, Min(ends) + 1)
  ELSE p

(* The lexeme that is next when a text is read from p. *)
NextLexeme(t, p) ==
  LET q == EndOfGap(t, p) IN
  IF q = 0 THEN Unended("UNENDED_COMMENT")
  ELSE IF q > Len(t) \/ t[q] = "END_FILE" THEN Lexeme("END_OF_FILE", {<< >>}, 0, FALSE)
  ELSE IF t[q] \in {"dquote", "squote"} THEN StringFrom(t, q + 1, t[q], {<< >>}, FALSE)
  ELSE LET end  == Max({r \in q .. Len(t) : Forms(SubSeq(t, q, r))})
           s    == SubSeq(t, q, end)
           lost == IF LosesNext(s) THEN 1 ELSE 0
       IN  Lexeme(TypeOf(s), {IF IsOperator(s) THEN << >> ELSE s}, end + 1 + lost, FALSE)

(* All of them, up to the end of the text or to one that has no end. *)
RECURSIVE Lexemes(_, _)
Lexemes(t, p) ==
  LET lexeme == NextLexeme(t, p) IN
  IF lexeme.type = "END_OF_FILE" THEN << >>
  ELSE IF lexeme.next = 0 THEN <<lexeme>>
  ELSE <<lexeme>> \o Lexemes(t, lexeme.next)

Disputed(t) == LET lexemes == Lexemes(t, 1) IN \E i \in DOMAIN lexemes : lexemes[i].disputed
=============================================================================
