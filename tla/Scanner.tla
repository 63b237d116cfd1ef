------------------------------ MODULE Scanner --------------------------------
(***************************************************************************)
(* scanner.c: how get_tok() turns characters into tokens.  It is taken     *)
(* apart where get_char() is called: a step reads one character, and pc    *)
(* says which loop reads it.  Putting a character back with unget_char()   *)
(* is not moving past it.                                                  *)
(*                                                                         *)
(* scanner_buffer is the sequence of what was added to it; REALLOC() ends  *)
(* the process when it has no memory for more than MaxText.                *)
(***************************************************************************)
EXTENDS Characters, Keywords

CONSTANTS
  Texts,       (* what files and lines may hold *)
  MaxStreams,  (* how many of them are opened *)
  MaxText,
  Garbage,     (* what the uninitialised `ch' of eat_multi_line() may be *)
  Rank(_)      (* the place of a word in the order of strcmp() *)

ASSUME ScannerAssumption ==
  /\ Texts \subseteq Seq(Character)
  /\ MaxStreams \in Nat /\ MaxText \in Nat
  /\ Garbage \subseteq {"END_OF_INPUT", "other"}

VARIABLES
  streams,     (* the linked list headed by top: text and read position *)
  file_flag,   (* the stream on top is to be closed before the next get_char() *)
  pc,          (* where get_tok() is, "ready" between calls of advance() *)
  buffer,      (* scanner_buffer *)
  operator,    (* the token a first character stands for alone *)
  tbuf,        (* the digits of a number in a string *)
  token,       (* what the last get_tok() returned *)
  opened,      (* streams opened so far *)
  before,      (* history: streams and file_flag when advance() was called *)
  missed       (* history: a comment was left as soon as it was entered *)

scanVars == <<streams, file_flag, pc, buffer, operator, tbuf, token, opened, before, missed>>
scannerVars == <<scanVars, searchVars>>

(* Where a character is read. *)
Loop == {"skip_ws", "top", "operator", "word", "zero", "integer", "hex", "octal", "fraction",
         "exponent", "signed", "signed_digits", "unsigned_digits", "malformed",
         "dquote", "squote", "eat_until_ws", "escape", "decimal_sign",
         "slash", "line_comment", "comment", "comment_star", "comment_end"}
           \cup DOMAIN EscapeDigit

ScanTypeOK ==
  /\ \A i \in DOMAIN streams :
       streams[i].pos \in 1 .. Len(streams[i].text) + 1
  /\ file_flag \in BOOLEAN /\ missed \in BOOLEAN
  /\ pc \in Loop \cup {"ready", "again", "search", "aborted"}
  /\ Len(buffer) <= MaxText
  /\ pc \in DOMAIN TbufSize => Len(tbuf) <= TbufSize[pc]
  /\ operator \in {"NONE_TOKEN", "SLASH_TOKEN"} \cup {OpenOperator[c] : c \in DOMAIN OpenOperator}
  /\ Len(streams) <= opened /\ opened <= MaxStreams
  /\ searching => pc = "search"
  /\ SearchTypeOK

-----------------------------------------------------------------------------
(* get_char(): the deferred close, then a character of the stream on top.  *)
Reading == IF file_flag /\ streams # << >> THEN Tail(streams) ELSE streams

Ch ==
  IF Reading = << >> THEN "END_INPUT"
  ELSE LET s == Head(Reading) IN
       IF s.pos > Len(s.text) THEN "END_FILE" ELSE s.text[s.pos]

(* At the end of a text, reading on stays there. *)
Advanced(s) == IF s.pos > Len(s.text) THEN s ELSE [s EXCEPT !.pos = @ + 1]

(* Mutant: the stream that ended is closed again at each character. *)
ReadKeepsFlag ==
  /\ streams' = IF Reading = << >> THEN << >>
                ELSE <<Advanced(Head(Reading))>> \o Tail(Reading)
  /\ UNCHANGED file_flag

Read ==
  /\ streams' = IF Reading = << >> THEN << >>
                ELSE <<Advanced(Head(Reading))>> \o Tail(Reading)
  /\ file_flag' = FALSE

PutBack ==
  /\ streams' = Reading
  /\ file_flag' = FALSE

At(label) == pc = label

Rest == <<operator, tbuf, token, opened, before, missed, searchVars>>

(* The character is read and added to scanner_buffer, or there is no       *)
(* memory for it.                                                          *)
Collect(c, next) ==
  /\ Read
  /\ \/ /\ Len(buffer) < MaxText
        /\ buffer' = Append(buffer, c)
        /\ pc' = next
     \/ /\ Len(buffer) >= MaxText
        /\ pc' = "aborted"
        /\ UNCHANGED buffer
  /\ UNCHANGED Rest

(* The character is read and forgotten. *)
Drop(next) == Read /\ pc' = next /\ UNCHANGED <<buffer, Rest>>

Leave(next) == PutBack /\ pc' = next /\ UNCHANGED <<buffer, Rest>>

(* What STRDUP() copies of a string. *)
CString(s) ==
  IF \E i \in DOMAIN s : s[i] = "NUL"
    THEN SubSeq(s, 1, (CHOOSE i \in DOMAIN s : s[i] = "NUL" /\ \A j \in 1 .. i - 1 : s[j] # "NUL") - 1)
    ELSE s

(* get_tok() returns what create_token() makes of it.  Its caller          *)
(* advance() calls it again for an error.                                  *)
Return(type) ==
  /\ token' = [type |-> type, text |-> CString(buffer)]
  /\ pc' = IF type = "ERROR_TOKEN" THEN "again" ELSE "ready"
  /\ UNCHANGED <<buffer, opened, before, missed>>

Finish(type)       == Read    /\ Return(type) /\ UNCHANGED <<operator, tbuf, searchVars>>
FinishBefore(type) == PutBack /\ Return(type) /\ UNCHANGED <<operator, tbuf, searchVars>>

-----------------------------------------------------------------------------
ScanInit ==
  /\ streams = << >> /\ file_flag = FALSE
  /\ pc = "ready"
  /\ buffer = << >>
  /\ operator = "NONE_TOKEN"
  /\ tbuf = << >>
  /\ token = [type |-> "NONE_TOKEN", text |-> << >>]
  /\ opened = 0
  /\ before = [streams |-> << >>, file_flag |-> FALSE]
  /\ missed = FALSE
  /\ Idle

(* open_scanner_string(), open_scanner_file() *)
OpenStream(text) ==
  /\ At("ready")
  /\ opened < MaxStreams
  /\ opened' = opened + 1
  /\ streams' = <<[text |-> text, pos |-> 1]>> \o streams
  /\ UNCHANGED <<file_flag, pc, buffer, operator, tbuf, token, before, missed, searchVars>>

(* Mutant: the text of an error stays in the buffer. *)
GetTokKeepsBuffer ==
  /\ pc \in {"ready", "again"}
  /\ before' = IF At("ready") THEN [streams |-> streams, file_flag |-> file_flag] ELSE before
  /\ pc' = "skip_ws"
  /\ buffer' = IF At("ready") THEN << >> ELSE buffer
  /\ operator' = "NONE_TOKEN"
  /\ token' = [type |-> "NONE_TOKEN", text |-> << >>]
  /\ UNCHANGED <<streams, file_flag, tbuf, opened, missed, searchVars>>

(* get_tok(), called by advance() until there is no error.  The buffer is  *)
(* emptied after skip_ws(), which does not use it.                         *)
GetTok ==
  /\ pc \in {"ready", "again"}
  /\ before' = IF At("ready") THEN [streams |-> streams, file_flag |-> file_flag] ELSE before
  /\ pc' = "skip_ws"
  /\ buffer' = << >>
  /\ operator' = "NONE_TOKEN"
  /\ token' = [type |-> "NONE_TOKEN", text |-> << >>]
  /\ UNCHANGED <<streams, file_flag, tbuf, opened, missed, searchVars>>

(* skip_ws(), before the loop of get_tok() and after comment_or_operator() *)
SkipWs ==
  /\ At("skip_ws")
  /\ \/ Ch \in Space /\ Drop("skip_ws")
     \/ Ch \notin Space /\ operator = "NONE_TOKEN" /\ Leave("top")
     \/ Ch \notin Space /\ operator = "SLASH_TOKEN" /\ FinishBefore("SLASH_TOKEN")

(* The switch of get_tok(): the ends ... *)
EndOfFile ==
  /\ At("top")
  /\ Ch = "END_FILE"
  /\ streams' = <<Advanced(Head(Reading))>> \o Tail(Reading)
  /\ file_flag' = TRUE
  /\ Return("END_OF_FILE")
  /\ UNCHANGED <<operator, tbuf, searchVars>>

EndOfInput == At("top") /\ Ch = "END_INPUT" /\ Finish("END_OF_INPUT")

(* ... strings, comments, numbers and words ... *)
Opening ==
  /\ At("top")
  /\ \/ Ch = "dquote" /\ Drop("dquote")
     \/ Ch = "squote" /\ Drop("squote")
     \/ Ch = "/" /\ Drop("slash")
     \/ Ch = "0" /\ Collect(Ch, "zero")
     \/ Ch \in Digit \ {"0"} /\ Collect(Ch, "integer")
     \/ Ch \in Letter \cup {"_"} /\ Collect(Ch, "word")

(* ... operators ... *)
Operator ==
  /\ At("top")
  /\ \/ Ch \in DOMAIN SingleOperator /\ Finish(SingleOperator[Ch])
     \/ /\ Ch \in DOMAIN OpenOperator
        /\ Read
        /\ operator' = OpenOperator[Ch]
        /\ pc' = "operator"
        /\ UNCHANGED <<buffer, tbuf, token, opened, before, missed, searchVars>>

(* ... and what none of them knows is warned about and ignored, blanks     *)
(* that follow it included.                                                *)
Unknown ==
  /\ At("top")
  /\ Ch \in Space \cup {"@", "\\", "control", "NUL"}
  /\ Drop("top")

SecondOfOperator ==
  /\ At("operator")
  /\ \/ /\ <<operator, Ch>> \in DOMAIN DoubleOperator
        /\ Finish(DoubleOperator[<<operator, Ch>>])
     \/ /\ <<operator, Ch>> \notin DOMAIN DoubleOperator
        /\ FinishBefore(operator)

-----------------------------------------------------------------------------
(* read_number_top() and the readers it calls.  A hexadecimal, an octal,   *)
(* and an exponent without a sign read the character after the number and  *)
(* do not put it back.                                                     *)
Zero ==
  /\ At("zero")
  /\ \/ Ch = "x" /\ Collect(Ch, "hex")
     \/ Ch = "." /\ Collect(Ch, "fraction")
     \/ Ch \in OctalDigit /\ Collect(Ch, "octal")
     \/ Ch \in Digit \ OctalDigit /\ Drop("malformed")
     \/ Ch \notin Digit \cup {"x", "."} /\ FinishBefore("INUM_TOKEN")

Integer ==
  /\ At("integer")
  /\ \/ Ch \in Digit /\ Collect(Ch, "integer")
     \/ Ch = "." /\ Collect(Ch, "fraction")
     \/ Ch \notin Digit \cup {"."} /\ FinishBefore("INUM_TOKEN")

(* Mutant: the digits of a number stop at a letter. *)
HexDecimal ==
  /\ At("hex")
  /\ \/ Ch \in Digit /\ Collect(Ch, "hex")
     \/ Ch \notin Digit /\ Finish("UNUM_TOKEN")

Hex ==
  /\ At("hex")
  /\ \/ Ch \in HexDigit /\ Collect(Ch, "hex")
     \/ Ch \notin HexDigit /\ Finish("UNUM_TOKEN")

Octal ==
  /\ At("octal")
  /\ \/ Ch \in OctalDigit /\ Collect(Ch, "octal")
     \/ Ch \in Digit \ OctalDigit /\ Drop("malformed")
     \/ Ch \notin Digit /\ Finish("ONUM_TOKEN")

(* Mutant: the character after a fraction is not put back either. *)
FractionLosesNext ==
  /\ At("fraction")
  /\ \/ Ch \in Digit /\ Collect(Ch, "fraction")
     \/ Ch = "e" /\ Collect(Ch, "exponent")
     \/ Ch \notin Digit \cup {"e"} /\ Finish("FNUM_TOKEN")

Fraction ==
  /\ At("fraction")
  /\ \/ Ch \in Digit /\ Collect(Ch, "fraction")
     \/ Ch = "e" /\ Collect(Ch, "exponent")
     \/ Ch \notin Digit \cup {"e"} /\ FinishBefore("FNUM_TOKEN")

Exponent ==
  \/ /\ At("exponent")
     /\ \/ Ch \in Sign /\ Collect(Ch, "signed")
        \/ Ch \in Digit /\ Collect(Ch, "unsigned_digits")
        \/ Ch \notin Digit \cup Sign /\ Drop("malformed")
  \/ /\ At("signed")
     /\ \/ Ch \in Digit /\ Collect(Ch, "signed_digits")
        \/ Ch \notin Digit /\ FinishBefore("ERROR_TOKEN")
  \/ /\ At("signed_digits")
     /\ \/ Ch \in Digit /\ Collect(Ch, "signed_digits")
        \/ Ch \notin Digit /\ FinishBefore("FNUM_TOKEN")
  \/ /\ At("unsigned_digits")
     /\ \/ Ch \in Digit /\ Collect(Ch, "unsigned_digits")
        \/ Ch \notin Digit /\ Finish("FNUM_TOKEN")

Malformed ==
  /\ At("malformed")
  /\ \/ Ch \in Digit /\ Collect(Ch, "malformed")
     \/ Ch \notin Digit /\ FinishBefore("ERROR_TOKEN")

-----------------------------------------------------------------------------
(* Mutant: a string in single quotes has escapes, too. *)
InStringEscapes ==
  \/ /\ At("dquote")
     /\ \/ Ch = "\\" /\ Drop("escape")
        \/ Ch = "dquote" /\ Finish("QSTRG_TOKEN")
        \/ Ch = "newline" /\ Drop("eat_until_ws")
        \/ Ch \notin {"\\", "dquote", "newline"} /\ Collect(Ch, "dquote")
  \/ /\ At("squote")
     /\ \/ Ch = "\\" /\ Drop("escape")
        \/ Ch = "squote" /\ Finish("QSTRG_TOKEN")
        \/ Ch = "newline" /\ Drop("eat_until_ws")
        \/ Ch \notin {"\\", "squote", "newline"} /\ Collect(Ch, "squote")

(* read_dquote() and read_squote().  Their loops, and eat_until_ws(), add  *)
(* what they read at the end of a text to the buffer, too.                 *)
InString ==
  \/ /\ At("dquote")
     /\ \/ Ch = "\\" /\ Drop("escape")
        \/ Ch = "dquote" /\ Finish("QSTRG_TOKEN")
        \/ Ch = "newline" /\ Drop("eat_until_ws")
        \/ Ch \notin {"\\", "dquote", "newline"} /\ Collect(Ch, "dquote")
  \/ /\ At("squote")
     /\ \/ Ch = "squote" /\ Finish("QSTRG_TOKEN")
        \/ Ch = "newline" /\ Drop("eat_until_ws")
        \/ Ch \notin {"squote", "newline"} /\ Collect(Ch, "squote")

EatUntilWs ==
  /\ At("eat_until_ws")
  /\ \/ Ch \in Space /\ FinishBefore("ERROR_TOKEN")
     \/ Ch \notin Space /\ Collect(Ch, "eat_until_ws")

(* get_string_esc() *)
Escape ==
  /\ At("escape")
  /\ \/ /\ Ch \in DOMAIN EscapeStart
        /\ Read
        /\ pc' = EscapeStart[Ch]
        /\ tbuf' = << >>
        /\ UNCHANGED <<buffer, operator, token, opened, before, missed, searchVars>>
     \/ /\ Ch \notin DOMAIN EscapeStart
        /\ Collect(Unescaped(Ch), "dquote")

(* get_decimal_escape() up to its loop: what is not a sign is lost. *)
DecimalSign ==
  /\ At("decimal_sign")
  /\ Read
  /\ pc' = "decimal_escape"
  /\ tbuf' = IF Ch \in Sign THEN <<Ch>> ELSE << >>
  /\ UNCHANGED <<buffer, operator, token, opened, before, missed, searchVars>>

(* The bytes of a number are added to scanner_buffer, or there is no       *)
(* memory for them.                                                        *)
CollectBytes(bytes) ==
  /\ \/ /\ Len(buffer) + Len(bytes) <= MaxText
        /\ buffer' = buffer \o bytes
        /\ pc' = "dquote"
     \/ /\ Len(buffer) + Len(bytes) > MaxText
        /\ pc' = "aborted"
        /\ UNCHANGED buffer
  /\ UNCHANGED Rest

(* The loops of get_hex_escape(), get_octal_escape() and                   *)
(* get_decimal_escape(), and what is behind them.  The character after the *)
(* digits is not put back; when they fill tbuf, it is not read.            *)
NumberEscape ==
  /\ pc \in DOMAIN EscapeDigit
  /\ \/ /\ Len(tbuf) < EscapeSize[pc] /\ Ch \in EscapeDigit[pc]
        /\ Read
        /\ tbuf' = Append(tbuf, Ch)
        /\ UNCHANGED <<pc, buffer, operator, token, opened, before, missed, searchVars>>
     \/ /\ Len(tbuf) < EscapeSize[pc] /\ Ch \notin EscapeDigit[pc] /\ tbuf # << >>
        /\ Read
        /\ \E bytes \in NumberBytes(pc, tbuf) : CollectBytes(bytes)
     \/ /\ Len(tbuf) < EscapeSize[pc] /\ Ch \notin EscapeDigit[pc] /\ tbuf = << >>
        /\ Leave("dquote")
     \/ /\ Len(tbuf) = EscapeSize[pc]
        /\ \E bytes \in OverrunBytes(pc) : CollectBytes(bytes)
        /\ UNCHANGED <<streams, file_flag>>

-----------------------------------------------------------------------------
(* comment_or_operator() *)
Slash ==
  /\ At("slash")
  /\ \/ Ch = "/" /\ Drop("line_comment")
     \/ /\ Ch = "*"
        /\ \E ch \in Garbage :
             /\ pc' = IF ch = "END_OF_INPUT" THEN "skip_ws" ELSE "comment"
             /\ missed' = (missed \/ ch = "END_OF_INPUT")
        /\ Read
        /\ UNCHANGED <<buffer, operator, tbuf, token, opened, before, searchVars>>
     \/ /\ Ch \notin {"/", "*"}
        /\ PutBack
        /\ operator' = "SLASH_TOKEN"
        /\ pc' = "skip_ws"
        /\ UNCHANGED <<buffer, tbuf, token, opened, before, missed, searchVars>>

(* Mutant: a comment in the last line runs into the end of the text. *)
LineCommentUnended ==
  /\ At("line_comment")
  /\ \/ Ch = "newline" /\ Leave("skip_ws")
     \/ Ch # "newline" /\ Drop("line_comment")

(* eat_single_line() *)
LineComment ==
  /\ At("line_comment")
  /\ \/ Ch \in {"newline", "END_FILE"} /\ Leave("skip_ws")
     \/ Ch \notin {"newline", "END_FILE"} /\ Drop("line_comment")

(* eat_multi_line(): END_OF_INPUT, for which it looks, is 0. *)
Comment ==
  \/ /\ At("comment")
     /\ \/ Ch = "NUL" /\ Drop("skip_ws")
        \/ Ch = "*" /\ Drop("comment_star")
        \/ Ch \notin {"NUL", "*"} /\ Drop("comment")
  \/ /\ At("comment_star")
     /\ \/ Ch = "NUL" /\ Drop("skip_ws")
        \/ Ch = "/" /\ Drop("comment_end")
        \/ Ch = "*" /\ Drop("comment_star")
        \/ Ch \notin {"NUL", "/", "*"} /\ Drop("comment")
  \/ /\ At("comment_end")
     /\ Leave("skip_ws")

-----------------------------------------------------------------------------
(* read_word(), up to its call of str_to_token() *)
Word ==
  /\ At("word")
  /\ \/ Ch \in WordChar /\ Collect(Ch, "word")
     \/ /\ Ch \notin WordChar
        /\ PutBack
        /\ StrToToken(Rank(buffer))
        /\ pc' = "search"
        /\ UNCHANGED <<buffer, operator, tbuf, token, opened, before, missed>>

Search == At("search") /\ SearchStep /\ UNCHANGED scanVars

WordEnd ==
  /\ At("search")
  /\ ~searching
  /\ Return(retv)
  /\ str' = 0 /\ first' = 0 /\ last' = -1 /\ retv' = "SYMBOL_TOKEN" /\ UNCHANGED searching
  /\ UNCHANGED <<streams, file_flag, operator, tbuf>>

(* The rest of get_tok() and of the loop of advance() around it. *)
ScanStep ==
  \/ SkipWs \/ EndOfFile \/ EndOfInput \/ Opening \/ Operator \/ Unknown
  \/ SecondOfOperator
  \/ Zero \/ Integer \/ Hex \/ Octal \/ Fraction \/ Exponent \/ Malformed
  \/ InString \/ EatUntilWs \/ Escape \/ DecimalSign \/ NumberEscape
  \/ Slash \/ LineComment \/ Comment
  \/ Word \/ Search \/ WordEnd
  \/ At("again") /\ GetTok

ScannerNext ==
  \/ \E text \in Texts : OpenStream(text)
  \/ At("ready") /\ GetTok
  \/ ScanStep

(* The scanner is called, and never waits. *)
ScannerSpec == ScanInit /\ [][ScannerNext]_scannerVars /\ WF_scannerVars(ScanStep)

-----------------------------------------------------------------------------
(* What the call of advance() has to read from: the deferred close, which  *)
(* scanner.c leaves to the next get_char(), is done once in it.            *)
OpenBefore ==
  IF before.file_flag /\ before.streams # << >> THEN Tail(before.streams) ELSE before.streams

(* However many characters and errors a call passes, it closes no stream   *)
(* but the one that had ended, and reads only what was on top then, and    *)
(* only forwards.                                                          *)
OnlyTopIsRead ==
  ~At("ready") =>
    \/ streams = before.streams /\ file_flag = before.file_flag
    \/ /\ ~file_flag
       /\ Len(streams) = Len(OpenBefore)
       /\ \A i \in 2 .. Len(streams) : streams[i] = OpenBefore[i]
       /\ streams # << >> => /\ streams[1].text = OpenBefore[1].text
                            /\ streams[1].pos >= OpenBefore[1].pos

(* While a number or a word is read, the buffer is the stretch of the text *)
(* before the place that is read: nothing of an error or a comment that    *)
(* the call has passed, no character twice and none left out.              *)
BufferIsInput ==
  pc \in {"zero", "integer", "hex", "octal", "fraction", "exponent", "signed",
          "signed_digits", "unsigned_digits", "word", "search"} =>
    /\ streams # << >> /\ ~file_flag
    /\ LET s == streams[1]
           n == Len(buffer)
       IN  /\ n < s.pos
           /\ \A i \in 1 .. n : buffer[i] = s.text[s.pos - 1 - n + i]
=============================================================================
