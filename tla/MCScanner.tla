----------------------------- MODULE MCScanner -------------------------------
(***************************************************************************)
(* Scanner on short texts, with the reference to compare.                  *)
(***************************************************************************)
EXTENDS Scanner, FiniteSets

MCWords == {}

(* What the proofs take for granted about the table holds of the source's. *)
ASSUME MCTable == KeywordsAreWords

(* A word of i letters "a" and then j letters "d" stands for the word of   *)
(* rank 10 * i + j in the order of strcmp(), so that every keyword can be  *)
(* written; other words are no keywords.                                   *)
MCWord(rank) == [i \in 1 .. rank \div 10 |-> "a"] \o [j \in 1 .. rank % 10 |-> "d"]

MCRank(word) ==
  LET as == Cardinality({i \in DOMAIN word : word[i] = "a"})
      ds == Len(word) - as
  IN  IF ds < 10 /\ word = MCWord(10 * as + ds) THEN 10 * as + ds ELSE 0

MCWordToken(word) ==
  LET entries == {i \in DOMAIN token_map : token_map[i].str = MCRank(word)}
  IN  IF entries = {} THEN "SYMBOL_TOKEN"
      ELSE token_map[CHOOSE i \in entries : TRUE].tok

(* The four words whose entries are not in order are left to MCKeywords.   *)
MCWordTexts == {MCWord(n) : n \in 1 .. 90 \ {39, 41, 53, 55}}

Upto(n, alphabet) == UNION {[1 .. k -> alphabet] : k \in 0 .. n}

MCNumbers  == {<<c>> \o t : c \in {"0", "7"}, t \in Upto(3, {"0", "7", "9", "a", "x", ".", "+"})}
MCFloats   == {<<"7", ".">> \o t : t \in Upto(4, {"7", "e", "-", "z", "newline"})}
MCPunct    == Upto(3, {"/", "=", "<", ">", "!", "-", "+", "_", "@", " "})
MCComments == {<<"/", "*">> \o t : t \in Upto(4, {"/", "*", "z"})}
                \cup {<<"/", "/">> \o t : t \in Upto(3, {"/", "*", "newline", "z"})}
MCStrings  == {<<"dquote">> \o t : t \in Upto(4, {"dquote", "\\", "newline", "n", " "})}
                \cup {<<"squote">> \o t : t \in Upto(3, {"dquote", "squote", "\\", "newline", " ", "NUL"})}
MCLongEscapes == {<<c, "7">> \o [i \in 1 .. n |-> f] \o <<t>> :
                    c \in {"x", "0", "d"}, n \in {2, 3, 7, 8, 9, 10}, f \in {"0", "7"},
                    t \in {"0", "z"}}
MCEscapes  == {<<"dquote", "\\">> \o t \o <<"dquote", "z", "dquote", "newline", " ">> :
                 t \in Upto(3, {"x", "0", "d", "9", "7", "-"}) \cup MCLongEscapes}
MCBytes    == Upto(3, {"END_FILE", "NUL", "control", "a", "/", "*"})

MCSymbols  == Upto(3, {"z", "7", "_", " ", ";"})

MCOne == MCSymbols \cup MCNumbers \cup MCFloats \cup MCPunct \cup MCComments \cup MCStrings
           \cup MCEscapes \cup MCBytes \cup MCWordTexts

(* Streams that are opened while others are read. *)
MCSeveral == {<< >>, <<"a", " ", "z">>, <<"0", "x">>, <<"dquote", "newline", " ">>, <<"/", "*">>}

MCTexts == MCOne \cup MCSeveral

-----------------------------------------------------------------------------
Reference == INSTANCE ScannerReference WITH WordToken <- MCWordToken

(* What is still to be read from each stream.  An ended stream that is on  *)
(* top has nothing left, also if a byte that is END_FILE ended it.         *)
TokensOf(ss, flag) ==
  [i \in DOMAIN ss |->
     LET lexemes == IF flag /\ i = 1 THEN << >> ELSE Reference!Lexemes(ss[i].text, ss[i].pos)
     IN  [j \in DOMAIN lexemes |-> lexemes[j].type]]

VARIABLE tokens   (* history: TokensOf the streams when the scanner was last ready *)

(* A text of MCOne is the only one of its behaviour. *)
OpenAny ==
  \/ opened = 0 /\ \E text \in Texts : OpenStream(text)
  \/ /\ \A i \in DOMAIN streams : streams[i].text \in MCSeveral
     /\ opened > 0 /\ before.streams # << >>
     /\ \E text \in MCSeveral : OpenStream(text)

MCNext ==
  /\ OpenAny \/ (At("ready") /\ GetTok) \/ ScanStep
  /\ tokens' = IF At("ready")' THEN TokensOf(streams', file_flag') ELSE tokens

MCInit == ScanInit /\ tokens = << >>

MCSpec ==
  MCInit /\ [][MCNext]_<<scannerVars, tokens>> /\ WF_scannerVars(ScanStep)

-----------------------------------------------------------------------------
Input == INSTANCE InputStack WITH
  streams <- tokens,
  file_flag <- IF At("ready") THEN file_flag ELSE before.file_flag,
  nest_depth <- 0,
  MAX_FILE_NESTING <- 0

OpenedBefore == IF before.file_flag THEN Tail(before.streams) ELSE before.streams

(* Of texts where the comments of the source contradict its code, nothing  *)
(* is said.                                                                *)
NotDisputed == OpenedBefore # << >> => ~Reference!Disputed(Head(OpenedBefore).text)

(* What advance() gets is what InputStack says of the token streams that   *)
(* the reference makes of the texts: every token, the ends of the streams, *)
(* and the close that is late.                                             *)
ImplementsInputStack ==
  [][~At("ready") /\ At("ready")' /\ ~missed' /\ NotDisputed
       => Input!GetTok(token'.type)]_<<scannerVars, tokens>>

(* The next lexeme that is not an error. *)
Pending ==
  LET lexemes == Reference!Lexemes(Head(OpenedBefore).text, Head(OpenedBefore).pos)
      valid   == SelectSeq(lexemes, LAMBDA l : l.type # "ERROR_TOKEN")
  IN  Head(valid)

(* A token has the text of its lexeme, whatever the scanner read before it *)
(* and whatever errors it passed.                                          *)
TokensCarryTheirText ==
  At("ready") /\ before.streams # << >> /\ ~missed /\ NotDisputed
    /\ token.type \notin {"NONE_TOKEN", "END_OF_FILE", "END_OF_INPUT"} =>
      token.text \in {CString(text) : text \in Pending.texts}

(* scanner.c 557-560, 595-598: "If consecutive strings are encountered,    *)
(* separated only by white space, then it is a string continuance": no     *)
(* other string is left behind a string and blanks.                        *)
ConsecutiveStringsAreOne ==
  At("ready") /\ token.type = "QSTRG_TOKEN" =>
    LET s == Head(streams) IN
    ~(/\ s.pos <= Len(s.text) /\ s.text[s.pos] \in Space
      /\ Reference!StringBehind(s.text, s.pos)
      /\ Reference!NextLexeme(s.text, s.pos).type = "QSTRG_TOKEN")

(* The scanner ends the process for a string that nothing closes, and for  *)
(* no other text: each loop that collects characters meets its end.        *)
EndsOnlyForOpenString ==
  At("aborted") /\ ~missed => Pending.type = "UNENDED_STRING"

(* A comment that nothing closes is skipped for ever. *)
InOpenComment ==
  pc \in {"comment", "comment_star"} /\ streams[1].pos > Len(streams[1].text)

(* get_tok() returns, but for those. *)
GetTokReturns ==
  At("skip_ws") ~> At("ready") \/ At("aborted") \/ InOpenComment
=============================================================================
