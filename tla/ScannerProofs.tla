---------------------------- MODULE ScannerProofs ----------------------------
(***************************************************************************)
(* Proofs about Keywords and Scanner.  First the search, for every table:  *)
(* it halves the part of the table it looks at, and an entry that is in    *)
(* order stays in that part for as long as the search for its word goes    *)
(* on.  Then the scanner, for all texts, whatever is opened above what:    *)
(* every action reads a character or puts one back, and a few facts about  *)
(* these two carry each invariant through all of them.  Then that a call   *)
(* of advance() gets closer to its end with every step, and that numbers   *)
(* and symbols have the form of their token and are as long as they can be.*)
(***************************************************************************)
EXTENDS Scanner, SequenceTheorems, TLAPS

-----------------------------------------------------------------------------
(* Entry i is where the search still looks. *)
Ahead(i) == first <= i - 1 /\ i - 1 <= last

IsWanted(i) == str = token_map[i].str /\ InOrder(i)

SearchInv ==
  /\ SearchTypeOK
  /\ searching => /\ retv = "SYMBOL_TOKEN"
                  /\ \A i \in DOMAIN token_map : IsWanted(i) => Ahead(i)
  /\ SearchIsRight

LEMMA TableFacts ==
  /\ Len(token_map) \in Nat /\ DOMAIN token_map = 1 .. Len(token_map)
  /\ \A i \in DOMAIN token_map :
       token_map[i].str \in Nat \ {0} /\ token_map[i].tok \in Result
       /\ token_map[i] = Entry(token_map[i].str, token_map[i].tok)
<1> DEFINE Row == [str : Nat \ {0}, tok : STRING]
<1>1. token_map \in Seq(Row)
  BY TableAssumption
<1>2. \A row \in Row : row.str \in Nat \ {0} /\ row = Entry(row.str, row.tok)
  BY DEF Entry
<1> HIDE DEF Row
<1>3. \A i \in DOMAIN token_map : token_map[i] \in Row
  BY <1>1
<1> QED  BY <1>1, <1>2, <1>3 DEF Result

(* The middle is a place of the part that is looked at. *)
LEMMA MiddleFacts ==
  ASSUME SearchTypeOK, first <= last
  PROVE  /\ mid \in first .. last
         /\ mid + 1 \in DOMAIN token_map
         /\ Middle.str \in Nat /\ Middle.tok \in Result
         /\ Middle = Entry(Middle.str, Middle.tok)
<1>1. mid \in first .. last
  BY TableFacts DEF SearchTypeOK, mid
<1>2. mid + 1 \in DOMAIN token_map
  BY <1>1, TableFacts DEF SearchTypeOK
<1> QED  BY <1>1, <1>2, TableFacts DEF Middle

(* An entry that is in order differs from any other place of the table as  *)
(* the places do, or is the same entry.                                    *)
LEMMA OrderFacts ==
  ASSUME NEW i \in DOMAIN token_map, NEW j \in DOMAIN token_map, InOrder(i)
  PROVE  /\ token_map[i].str = token_map[j].str => token_map[i] = token_map[j]
         /\ token_map[i].str > token_map[j].str => j < i
         /\ token_map[i].str < token_map[j].str => i < j
<1>1. CASE i = j
  BY <1>1, TableFacts
<1>2. CASE i # j
  <2>1. token_map[j] = token_map[i]
        \/ IF j < i THEN token_map[j].str < token_map[i].str
                   ELSE token_map[j].str > token_map[i].str
    BY <1>2 DEF InOrder
  <2> QED  BY <1>2, <2>1, TableFacts
<1> QED  BY <1>1, <1>2

LEMMA InitSearchInv == Idle => SearchInv
<1> SUFFICES ASSUME Idle PROVE SearchInv
  OBVIOUS
<1>0. "SYMBOL_TOKEN" \in Result /\ -1 \in -1 .. Len(token_map) - 1
  BY TableFacts DEF Result
<1>1. SearchTypeOK
  <2>1. str \in Int /\ first \in 0 .. Len(token_map)
    BY TableFacts DEF Idle
  <2>2. last \in -1 .. Len(token_map) - 1 /\ retv \in Result /\ searching \in BOOLEAN
    BY <1>0, Zenon DEF Idle
  <2> QED  BY <2>1, <2>2 DEF SearchTypeOK
<1>2. SearchIsRight
  BY TableFacts DEF Idle, SearchIsRight
<1> QED  BY <1>1, <1>2 DEF SearchInv, Idle

LEMMA CallSearchInv ==
  ASSUME SearchInv, NEW word \in Int, StrToToken(word)
  PROVE  SearchInv'
<1>1. SearchTypeOK'
  BY TableFacts DEF StrToToken, SearchTypeOK, Result
<1>2. \A i \in DOMAIN token_map : Ahead(i)'
  BY TableFacts DEF StrToToken, Ahead
<1> QED  BY <1>1, <1>2 DEF StrToToken, SearchInv, SearchIsRight

LEMMA StepSearchInv ==
  ASSUME SearchInv, SearchStep
  PROVE  SearchInv'
<1>1. CASE SearchAbove
  <2> USE <1>1 DEF SearchAbove
  <2>1. SearchTypeOK'
    BY MiddleFacts, TableFacts DEF SearchInv, SearchTypeOK
  <2>2. ASSUME NEW i \in DOMAIN token_map, IsWanted(i)' PROVE Ahead(i)'
    <3>1. IsWanted(i) /\ Ahead(i)
      BY <2>2 DEF SearchInv, IsWanted, InOrder
    <3>2. mid + 1 \in DOMAIN token_map /\ mid \in Int
      BY MiddleFacts DEF SearchInv, SearchTypeOK
    <3>3. mid + 1 < i
      BY <3>1, <3>2, OrderFacts DEF IsWanted, Middle
    <3> QED  BY <3>1, <3>2, <3>3, TableFacts DEF Ahead
  <2> QED  BY <2>1, <2>2 DEF SearchInv, SearchIsRight
<1>2. CASE SearchBelow
  <2> USE <1>2 DEF SearchBelow
  <2>1. SearchTypeOK'
    BY MiddleFacts, TableFacts DEF SearchInv, SearchTypeOK
  <2>2. ASSUME NEW i \in DOMAIN token_map, IsWanted(i)' PROVE Ahead(i)'
    <3>1. IsWanted(i) /\ Ahead(i)
      BY <2>2 DEF SearchInv, IsWanted, InOrder
    <3>2. mid + 1 \in DOMAIN token_map /\ mid \in Int
      BY MiddleFacts DEF SearchInv, SearchTypeOK
    <3>3. i < mid + 1
      BY <3>1, <3>2, OrderFacts DEF IsWanted, Middle
    <3> QED  BY <3>1, <3>2, <3>3, TableFacts DEF Ahead
  <2> QED  BY <2>1, <2>2 DEF SearchInv, SearchIsRight
<1>3. CASE SearchFound
  <2> USE <1>3 DEF SearchFound
  <2>1. SearchTypeOK'
    BY MiddleFacts DEF SearchInv, SearchTypeOK
  <2>2. mid + 1 \in DOMAIN token_map /\ Middle = Entry(str, retv')
    BY MiddleFacts DEF SearchInv
  <2>3. ASSUME NEW i \in DOMAIN token_map, str = token_map[i].str, InOrder(i)
        PROVE  retv' = token_map[i].tok
    BY <2>2, <2>3, OrderFacts DEF Middle
  <2>4. SearchIsRight'
    BY <2>2, <2>3 DEF SearchIsRight, InOrder, Middle
  <2> QED  BY <2>1, <2>4 DEF SearchInv
<1>4. CASE SearchFails
  <2> USE <1>4 DEF SearchFails
  <2>1. SearchTypeOK'
    BY DEF SearchInv, SearchTypeOK
  <2>2. ASSUME NEW i \in DOMAIN token_map, str = token_map[i].str, InOrder(i)
        PROVE  FALSE
    <3>1. Ahead(i)
      BY <2>2 DEF SearchInv, IsWanted
    <3> QED  BY <3>1, TableFacts DEF Ahead, SearchInv, SearchTypeOK
  <2>3. SearchIsRight'
    BY <2>2 DEF SearchInv, SearchIsRight, InOrder
  <2> QED  BY <2>1, <2>3 DEF SearchInv
<1> QED  BY <1>1, <1>2, <1>3, <1>4 DEF SearchStep

LEMMA StutterSearchInv ==
  ASSUME SearchInv, UNCHANGED searchVars
  PROVE  SearchInv'
BY DEF searchVars, SearchInv, SearchTypeOK, SearchIsRight, IsWanted, InOrder, Ahead

LEMMA NextSearchInv == SearchInv /\ [KeywordNext]_searchVars => SearchInv'
BY TableAssumption, CallSearchInv, StepSearchInv, StutterSearchInv DEF KeywordNext

(* For every table, however disordered: a word whose entry is in order is  *)
(* converted to the token of that entry, and a word is never converted to  *)
(* the token of another.                                                   *)
THEOREM SearchAlwaysRight == KeywordSpec => []SearchIsRight
<1>1. SearchInv => SearchIsRight
  BY DEF SearchInv
<1> QED  BY <1>1, InitSearchInv, NextSearchInv, PTL DEF KeywordSpec

(* The search stays inside the table, also where it looks below its first  *)
(* entry or above its last one.                                            *)
THEOREM SearchTypeCorrect == KeywordSpec => []SearchTypeOK
<1>1. SearchInv => SearchTypeOK
  BY DEF SearchInv
<1> QED  BY <1>1, InitSearchInv, NextSearchInv, PTL DEF KeywordSpec

-----------------------------------------------------------------------------
Stream == {s \in [text : Seq(Character), pos : Nat \ {0}] : s.pos <= Len(s.text) + 1}

Label == Loop \cup {"ready", "again", "search", "aborted"}

PendingOperator ==
  {"NONE_TOKEN", "SLASH_TOKEN"} \cup {OpenOperator[c] : c \in DOMAIN OpenOperator}

(* What scanner_buffer may hold: escapes of a number put other bytes there. *)
Stored == Character \cup {"binary"}

(* The place of a word in the order of strcmp() is a number. *)
RankIsNumber == \A word \in Seq(Stored) : Rank(word) \in Int

StreamsInv ==
  /\ streams \in Seq(Stream) /\ file_flag \in BOOLEAN
  /\ opened \in 0 .. MaxStreams /\ Len(streams) <= opened
  /\ before \in [streams : Seq(Stream), file_flag : BOOLEAN]

CharsInv ==
  /\ buffer \in Seq(Stored) /\ Len(buffer) <= MaxText
  /\ tbuf \in Seq(Stored)
  /\ operator \in PendingOperator
  /\ missed \in BOOLEAN

ControlInv ==
  /\ pc \in Label
  /\ pc \in DOMAIN TbufSize => Len(tbuf) <= TbufSize[pc]
  /\ searching => pc = "search"
  /\ SearchInv

ScanInv == StreamsInv /\ CharsInv /\ ControlInv

-----------------------------------------------------------------------------
(* What get_char() does to the stack of streams. *)
LEMMA StreamFacts ==
  ASSUME NEW s \in Stream
  PROVE  /\ s.text \in Seq(Character) /\ s.pos \in 1 .. Len(s.text) + 1
         /\ s.pos <= Len(s.text) => s.text[s.pos] \in Character
         /\ Advanced(s) \in Stream
         /\ Advanced(s).text = s.text
         /\ Advanced(s).pos = IF s.pos > Len(s.text) THEN s.pos ELSE s.pos + 1
<1> DEFINE l == Len(s.text)
<1>1. s \in [text : Seq(Character), pos : Nat \ {0}] /\ s.pos <= l + 1
  BY DEF Stream
<1>2. s.text \in Seq(Character) /\ s.pos \in Nat \ {0} /\ l \in Nat
  BY <1>1, LenProperties
<1>3. s.pos <= l => s.text[s.pos] \in Character
  BY <1>2, ElementOfSeq
<1>4. CASE s.pos > l
  BY <1>1, <1>2, <1>3, <1>4 DEF Advanced
<1>5. CASE ~(s.pos > l)
  <2>1. Advanced(s) = [s EXCEPT !.pos = @ + 1]
    BY <1>5 DEF Advanced
  <2>2. Advanced(s) \in [text : Seq(Character), pos : Nat \ {0}]
        /\ Advanced(s).text = s.text /\ Advanced(s).pos = s.pos + 1
    BY <1>1, <1>2, <2>1
  <2>3. Advanced(s).pos <= Len(Advanced(s).text) + 1
    BY <1>2, <1>5, <2>2
  <2> QED  BY <1>1, <1>2, <1>3, <1>5, <2>2, <2>3 DEF Stream
<1> QED  BY <1>4, <1>5

LEMMA ReadingFacts ==
  ASSUME StreamsInv
  PROVE  /\ Reading \in Seq(Stream) /\ Len(Reading) <= Len(streams)
         /\ Reading # << >> =>
              /\ Head(Reading) = Reading[1] /\ Reading[1] \in Stream
              /\ Tail(Reading) \in Seq(Stream) /\ Len(Tail(Reading)) = Len(Reading) - 1
              /\ \A i \in 1 .. Len(Reading) - 1 : Tail(Reading)[i] = Reading[i + 1]
<1>1. streams \in Seq(Stream)
  BY DEF StreamsInv
<1>2. streams # << >> => Tail(streams) \in Seq(Stream) /\ Len(Tail(streams)) = Len(streams) - 1
  BY <1>1, HeadTailProperties
<1>3. Reading \in Seq(Stream) /\ Len(Reading) <= Len(streams)
  BY <1>1, <1>2, LenProperties DEF Reading
<1> DEFINE r == Reading
<1>4. r \in Seq(Stream)
  BY <1>3
<1> HIDE DEF r
<1>5. r # << >> =>
        /\ Head(r) = r[1] /\ r[1] \in Stream
        /\ Tail(r) \in Seq(Stream) /\ Len(Tail(r)) = Len(r) - 1
        /\ \A i \in 1 .. Len(r) - 1 : Tail(r)[i] = r[i + 1]
  BY <1>4, HeadTailProperties, EmptySeq, ElementOfSeq, LenProperties
<1> QED  BY <1>3, <1>5 DEF r

LEMMA ChIsCharacter ==
  ASSUME StreamsInv
  PROVE  Ch \in Character /\ (Ch # "END_INPUT" => Reading # << >>)
<1>1. CASE Reading = << >>
  <2>1. Ch = "END_INPUT"
    BY <1>1 DEF Ch
  <2> QED  BY <1>1, <2>1 DEF Character
<1>2. CASE Reading # << >>
  <2> DEFINE s == Head(Reading)
  <2>1. s \in Stream
    BY <1>2, ReadingFacts
  <2>2. Ch = IF s.pos > Len(s.text) THEN "END_FILE" ELSE s.text[s.pos]
    BY <1>2 DEF Ch
  <2> HIDE DEF s
  <2>3. s.pos \in Nat /\ Len(s.text) \in Nat
        /\ (s.pos <= Len(s.text) => s.text[s.pos] \in Character)
    BY <2>1, StreamFacts, LenProperties
  <2>4. Ch \in Character
    BY <2>2, <2>3 DEF Character
  <2> QED  BY <1>2, <2>4
<1> QED  BY <1>1, <1>2

(* The streams after a step that reads or puts back. *)
Moved ==
  /\ file_flag' = FALSE
  /\ streams' \in Seq(Stream) /\ Len(streams') = Len(Reading)
  /\ \A i \in 2 .. Len(Reading) : streams'[i] = Reading[i]
  /\ Reading # << >> => streams'[1].text = Reading[1].text /\ streams'[1].pos >= Reading[1].pos

LEMMA AdvancedMoves ==
  ASSUME StreamsInv, Reading # << >>,
         streams' = <<Advanced(Head(Reading))>> \o Tail(Reading)
  PROVE  /\ streams' \in Seq(Stream) /\ Len(streams') = Len(Reading)
         /\ \A i \in 2 .. Len(Reading) : streams'[i] = Reading[i]
         /\ streams'[1] = Advanced(Reading[1])
         /\ streams'[1].text = Reading[1].text /\ streams'[1].pos >= Reading[1].pos
<1> DEFINE a == Advanced(Reading[1])
           t == Tail(Reading)
           n == Len(Reading)
<1>1. /\ a \in Stream /\ a.text = Reading[1].text /\ a.pos >= Reading[1].pos
      /\ t \in Seq(Stream) /\ n \in Nat /\ Len(t) = n - 1
      /\ \A i \in 1 .. n - 1 : t[i] = Reading[i + 1]
      /\ streams' = <<a>> \o t
  <2>1. Reading[1] \in Stream /\ Head(Reading) = Reading[1]
    BY ReadingFacts
  <2>2. a \in Stream /\ a.text = Reading[1].text /\ a.pos >= Reading[1].pos
    BY <2>1, StreamFacts
  <2> QED  BY <2>1, <2>2, ReadingFacts, LenProperties
<1>2. \A i \in 2 .. n : t[i - 1] = Reading[i]
  <2> TAKE i \in 2 .. n
  <2>1. i - 1 \in 1 .. n - 1 /\ (i - 1) + 1 = i
    BY <1>1
  <2> QED  BY <1>1, <2>1
<1> HIDE DEF a, t, n
<1>3. <<a>> \in Seq(Stream) /\ Len(<<a>>) = 1 /\ <<a>>[1] = a
  BY <1>1
<1>4. /\ <<a>> \o t \in Seq(Stream) /\ Len(<<a>> \o t) = n
      /\ (<<a>> \o t)[1] = a
      /\ \A i \in 2 .. n : (<<a>> \o t)[i] = t[i - 1]
  BY <1>1, <1>3, ConcatProperties
<1> QED  BY <1>1, <1>2, <1>4 DEF a, n

LEMMA ReadMoves ==
  ASSUME StreamsInv, Read \/ PutBack
  PROVE  Moved
<1>1. CASE PutBack \/ (Read /\ Reading = << >>)
  <2>1. streams' = Reading /\ file_flag' = FALSE
    BY <1>1 DEF PutBack, Read
  <2>2. Reading \in Seq(Stream) /\ (Reading # << >> => Reading[1] \in Stream)
    BY ReadingFacts
  <2>3. Reading # << >> => Reading[1].pos >= Reading[1].pos
    BY <2>2, StreamFacts
  <2> QED  BY <2>1, <2>2, <2>3 DEF Moved
<1>2. CASE Read /\ Reading # << >>
  BY <1>2, AdvancedMoves DEF Read, Moved
<1> QED  BY <1>1, <1>2

-----------------------------------------------------------------------------
(* The ways a step leaves the characters and the control. *)
LEMMA LabelFacts ==
  /\ Loop \subseteq Label /\ {"ready", "again", "search", "aborted"} \subseteq Label
  /\ "search" \notin Loop
  /\ DOMAIN TbufSize = {"hex_escape", "octal_escape", "decimal_escape"}
  /\ {"ready", "again", "search", "aborted"} \cap DOMAIN TbufSize = {}
BY DEF Label, Loop, EscapeDigit, TbufSize

LEMMA MovedStreams ==
  ASSUME StreamsInv, Read \/ PutBack, UNCHANGED <<opened, before>>
  PROVE  StreamsInv'
<1>1. Moved
  BY ReadMoves
<1>2. Len(Reading) <= Len(streams) /\ Len(Reading) \in Nat /\ Len(streams) \in Nat
  BY ReadingFacts, LenProperties DEF StreamsInv
<1>3. streams' \in Seq(Stream) /\ file_flag' \in BOOLEAN /\ Len(streams') = Len(Reading)
  BY <1>1 DEF Moved
<1>4. opened' \in 0 .. MaxStreams /\ Len(streams') <= opened'
  BY <1>2, <1>3, ScannerAssumption DEF StreamsInv
<1>5. before' \in [streams : Seq(Stream), file_flag : BOOLEAN]
  BY DEF StreamsInv
<1> QED  BY <1>3, <1>4, <1>5 DEF StreamsInv

LEMMA KeptControl ==
  ASSUME ControlInv, pc # "search", pc' \in Label, UNCHANGED searchVars,
         pc' \in DOMAIN TbufSize => Len(tbuf') <= TbufSize[pc']
  PROVE  ControlInv'
<1>1. SearchInv'
  BY StutterSearchInv DEF ControlInv
<1>2. ~searching'
  BY DEF ControlInv, searchVars
<1> QED  BY <1>1, <1>2 DEF ControlInv

LEMMA StoredAppend ==
  ASSUME NEW s \in Seq(Stored), NEW c \in Stored
  PROVE  Append(s, c) \in Seq(Stored) /\ Len(Append(s, c)) = Len(s) + 1
BY AppendProperties

LEMMA CollectInv ==
  ASSUME ScanInv, pc # "search", NEW c \in Stored,
         NEW next \in Loop \ DOMAIN TbufSize, Collect(c, next)
  PROVE  ScanInv'
<1>1. Read /\ UNCHANGED <<operator, tbuf, token, opened, before, missed, searchVars>>
  BY DEF Collect, Rest
<1>2. StreamsInv'
  BY <1>1, MovedStreams DEF ScanInv
<1>3. \/ Len(buffer) < MaxText /\ buffer' = Append(buffer, c) /\ pc' = next
      \/ buffer' = buffer /\ pc' = "aborted"
  BY DEF Collect
<1>4. buffer' \in Seq(Stored) /\ Len(buffer') <= MaxText
  <2>1. buffer \in Seq(Stored) /\ Len(buffer) <= MaxText /\ Len(buffer) \in Nat
    BY LenProperties DEF ScanInv, CharsInv
  <2>2. Append(buffer, c) \in Seq(Stored) /\ Len(Append(buffer, c)) = Len(buffer) + 1
    BY <2>1, StoredAppend
  <2> QED  BY <1>3, <2>1, <2>2, ScannerAssumption
<1>5. CharsInv'
  BY <1>1, <1>4 DEF ScanInv, CharsInv
<1>6. ControlInv'
  BY <1>1, <1>3, KeptControl, LabelFacts DEF ScanInv
<1> QED  BY <1>2, <1>5, <1>6 DEF ScanInv

(* Nothing is added, and get_tok() goes on or returns. *)
LEMMA QuietInv ==
  ASSUME ScanInv, pc # "search", Read \/ PutBack, pc' \in Label,
         UNCHANGED <<buffer, opened, before, searchVars>>,
         missed' \in BOOLEAN, operator' \in PendingOperator,
         tbuf' \in Seq(Stored), pc' \in DOMAIN TbufSize => Len(tbuf') <= TbufSize[pc']
  PROVE  ScanInv'
<1>1. StreamsInv'
  BY MovedStreams DEF ScanInv
<1>2. CharsInv'
  BY DEF ScanInv, CharsInv
<1>3. ControlInv'
  BY KeptControl DEF ScanInv
<1> QED  BY <1>1, <1>2, <1>3 DEF ScanInv

LEMMA CharsTypes ==
  ASSUME ScanInv
  PROVE  /\ missed \in BOOLEAN /\ operator \in PendingOperator
         /\ tbuf \in Seq(Stored) /\ Len(tbuf) \in Nat
         /\ buffer \in Seq(Stored) /\ Len(buffer) \in Nat
BY LenProperties DEF ScanInv, CharsInv

LEMMA SkipInv ==
  ASSUME ScanInv, pc # "search", NEW next \in Loop \ DOMAIN TbufSize,
         Drop(next) \/ Leave(next)
  PROVE  ScanInv'
<1>1. (Read \/ PutBack) /\ pc' = next
      /\ UNCHANGED <<buffer, operator, tbuf, token, opened, before, missed, searchVars>>
  BY DEF Drop, Leave, Rest
<1> QED  BY <1>1, QuietInv, CharsTypes, LabelFacts

LEMMA FinishInv ==
  ASSUME ScanInv, pc # "search", NEW type, Finish(type) \/ FinishBefore(type)
  PROVE  ScanInv'
<1>1. (Read \/ PutBack) /\ pc' \in {"ready", "again"}
      /\ UNCHANGED <<buffer, operator, tbuf, opened, before, missed, searchVars>>
  BY DEF Finish, FinishBefore, Return
<1> QED  BY <1>1, QuietInv, CharsTypes, LabelFacts

LEMMA ChIsStored ==
  ASSUME ScanInv
  PROVE  Ch \in Character /\ Ch \in Stored
BY ChIsCharacter DEF ScanInv, Stored

-----------------------------------------------------------------------------
LEMMA InitScanInv == ScanInit => ScanInv
<1> SUFFICES ASSUME ScanInit PROVE ScanInv
  OBVIOUS
<1>1. << >> \in Seq(Stream) /\ << >> \in Seq(Stored) /\ Len(<< >>) = 0
  BY EmptySeq
<1>2. StreamsInv
  <2>1. streams \in Seq(Stream) /\ file_flag \in BOOLEAN
        /\ before \in [streams : Seq(Stream), file_flag : BOOLEAN]
    BY <1>1 DEF ScanInit
  <2>2. opened \in 0 .. MaxStreams /\ Len(streams) <= opened
    BY <1>1, ScannerAssumption DEF ScanInit
  <2> QED  BY <2>1, <2>2 DEF StreamsInv
<1>3. CharsInv
  <2>1. operator \in PendingOperator /\ missed \in BOOLEAN
    BY DEF ScanInit, PendingOperator
  <2>2. /\ buffer \in Seq(Stored) /\ Len(buffer) <= MaxText
        /\ tbuf \in Seq(Stored)
    BY <1>1, ScannerAssumption DEF ScanInit
  <2> QED  BY <2>1, <2>2 DEF CharsInv
<1>4. ControlInv
  BY InitSearchInv, LabelFacts DEF ScanInit, ControlInv, Idle
<1> QED  BY <1>2, <1>3, <1>4 DEF ScanInv

LEMMA OpenInv ==
  ASSUME ScanInv, NEW text \in Texts, OpenStream(text)
  PROVE  ScanInv'
<1> DEFINE s == [text |-> text, pos |-> 1]
<1>1. s \in Stream
  <2>1. text \in Seq(Character) /\ Len(text) \in Nat
    BY ScannerAssumption, LenProperties
  <2> QED  BY <2>1 DEF Stream
<1> HIDE DEF s
<1>2. streams' = <<s>> \o streams /\ opened' = opened + 1 /\ opened < MaxStreams
  BY DEF OpenStream, s
<1>3. <<s>> \in Seq(Stream) /\ Len(<<s>>) = 1
  BY <1>1
<1>4. streams \in Seq(Stream) /\ Len(streams) \in Nat /\ opened \in Nat /\ Len(streams) <= opened
  BY LenProperties DEF ScanInv, StreamsInv
<1>5. streams' \in Seq(Stream) /\ Len(streams') = Len(streams) + 1
  BY <1>2, <1>3, <1>4, ConcatProperties
<1>6. StreamsInv'
  BY <1>2, <1>4, <1>5, ScannerAssumption DEF ScanInv, StreamsInv, OpenStream
<1>7. CharsInv'
  BY DEF ScanInv, CharsInv, OpenStream
<1>8. ControlInv'
  BY KeptControl, LabelFacts DEF ScanInv, OpenStream, At
<1> QED  BY <1>6, <1>7, <1>8 DEF ScanInv

LEMMA CallInv ==
  ASSUME ScanInv, GetTok
  PROVE  ScanInv'
<1>1. StreamsInv'
  BY DEF ScanInv, StreamsInv, GetTok
<1>2. CharsInv'
  <2>1. << >> \in Seq(Stored) /\ Len(<< >>) = 0
    BY EmptySeq
  <2> QED  BY <2>1, ScannerAssumption DEF ScanInv, CharsInv, GetTok, PendingOperator
<1>3. ControlInv'
  BY KeptControl, LabelFacts DEF ScanInv, GetTok, Loop
<1> QED  BY <1>1, <1>2, <1>3 DEF ScanInv

-----------------------------------------------------------------------------
(* The actions of get_tok(). *)
LEMMA LoopNames ==
  /\ {"skip_ws", "top", "operator", "word", "zero", "integer", "hex", "octal", "fraction",
      "exponent", "signed", "signed_digits", "unsigned_digits", "malformed",
      "dquote", "squote", "eat_until_ws", "escape", "decimal_sign",
      "slash", "line_comment", "comment", "comment_star", "comment_end"}
       \subseteq Loop \ DOMAIN TbufSize
  /\ {"hex_escape", "octal_escape", "decimal_escape"} \subseteq Loop
  /\ DOMAIN EscapeDigit = {"hex_escape", "octal_escape", "decimal_escape"}
  /\ DOMAIN EscapeDigit = DOMAIN TbufSize
BY DEF Loop, EscapeDigit, TbufSize

LEMMA TopInv ==
  ASSUME ScanInv, SkipWs \/ EndOfFile \/ EndOfInput \/ Opening \/ Operator \/ Unknown
  PROVE  ScanInv'
<1> USE ChIsStored, LoopNames
<1>1. CASE SkipWs
  BY <1>1, SkipInv, FinishInv DEF SkipWs, At
<1>2. CASE EndOfFile
  <2>1. Reading # << >>
    BY <1>2, ChIsCharacter DEF EndOfFile, ScanInv
  <2>2. streams' \in Seq(Stream) /\ Len(streams') = Len(Reading)
    BY <1>2, <2>1, AdvancedMoves DEF EndOfFile, ScanInv
  <2>3. Len(Reading) <= Len(streams) /\ Len(Reading) \in Nat /\ Len(streams) \in Nat
    BY ReadingFacts, LenProperties DEF ScanInv, StreamsInv
  <2>4. StreamsInv'
    <3>1. file_flag' = TRUE /\ UNCHANGED <<opened, before>>
      BY <1>2 DEF EndOfFile, Return
    <3>2. Len(streams') <= opened
      BY <2>2, <2>3 DEF ScanInv, StreamsInv
    <3> QED  BY <2>2, <3>1, <3>2 DEF ScanInv, StreamsInv
  <2>5. CharsInv'
    BY <1>2 DEF EndOfFile, Return, ScanInv, CharsInv
  <2>6. ControlInv'
    BY <1>2, KeptControl, LabelFacts DEF EndOfFile, Return, ScanInv, At
  <2> QED  BY <2>4, <2>5, <2>6 DEF ScanInv
<1>3. CASE EndOfInput
  BY <1>3, FinishInv DEF EndOfInput, At
<1>4. CASE Opening
  BY <1>4, SkipInv, CollectInv DEF Opening, At
<1>5. CASE Operator
  <2>1. CASE \E type : Finish(type)
    BY <1>5, <2>1, FinishInv DEF Operator, At
  <2>2. CASE ~\E type : Finish(type)
    <3>1. Read /\ pc' = "operator" /\ operator' \in PendingOperator
          /\ UNCHANGED <<buffer, tbuf, token, opened, before, missed, searchVars>>
      BY <1>5, <2>2 DEF Operator, PendingOperator
    <3> QED  BY <1>5, <3>1, QuietInv, CharsTypes, LabelFacts DEF Operator, At
  <2> QED  BY <2>1, <2>2
<1>6. CASE Unknown
  BY <1>6, SkipInv DEF Unknown, At
<1> QED  BY <1>1, <1>2, <1>3, <1>4, <1>5, <1>6

LEMMA NumberInv ==
  ASSUME ScanInv,
         SecondOfOperator \/ Zero \/ Integer \/ Hex \/ Octal \/ Fraction \/ Exponent \/ Malformed
  PROVE  ScanInv'
<1> USE ChIsStored, LoopNames
<1>1. CASE SecondOfOperator
  BY <1>1, FinishInv DEF SecondOfOperator, At
<1>2. CASE Zero
  BY <1>2, SkipInv, CollectInv, FinishInv DEF Zero, At
<1>3. CASE Integer
  BY <1>3, CollectInv, FinishInv DEF Integer, At
<1>4. CASE Hex
  BY <1>4, CollectInv, FinishInv DEF Hex, At
<1>5. CASE Octal
  BY <1>5, SkipInv, CollectInv, FinishInv DEF Octal, At
<1>6. CASE Fraction
  BY <1>6, CollectInv, FinishInv DEF Fraction, At
<1>7. CASE Exponent
  BY <1>7, SkipInv, CollectInv, FinishInv DEF Exponent, At
<1>8. CASE Malformed
  BY <1>8, CollectInv, FinishInv DEF Malformed, At
<1> QED  BY <1>1, <1>2, <1>3, <1>4, <1>5, <1>6, <1>7, <1>8

-----------------------------------------------------------------------------
(* Escapes with a number.                                                  *)
LEMMA SizeFacts ==
  /\ \A label \in {"hex_escape", "octal_escape", "decimal_escape"} :
       TbufSize[label] \in 4 .. 11 /\ EscapeSize[label] = TbufSize[label]
  /\ TbufSize["hex_escape"] = 9 /\ TbufSize["decimal_escape"] = 11
BY DEF TbufSize, EscapeSize

Byte == {"NUL", "binary"}

LEMMA BytesAre ==
  ASSUME NEW n \in 1 .. 4, NEW b \in Bytes(n)
  PROVE  b \in Seq(Byte) /\ Len(b) = n
BY DEF Bytes, Byte

LEMMA OneByte ==
  ASSUME NEW b \in {<<"NUL">>, <<"binary">>}
  PROVE  b \in Seq(Byte) /\ Len(b) = 1
<1>1. CASE b = <<"NUL">>
  BY <1>1 DEF Byte
<1>2. CASE b = <<"binary">>
  BY <1>2 DEF Byte
<1> QED  BY <1>1, <1>2

LEMMA AnyBytesAre ==
  ASSUME NEW b \in AnyBytes
  PROVE  b \in Seq(Byte) /\ 1 <= Len(b) /\ Len(b) <= 4
<1>1. CASE b = <<"NUL">>
  BY <1>1, OneByte
<1>2. CASE b # <<"NUL">>
  <2>1. PICK n \in 1 .. 4 : b \in Bytes(n)
    BY <1>2 DEF AnyBytes
  <2>2. b \in Seq(Byte) /\ Len(b) = n
    BY <2>1, BytesAre
  <2> QED  BY <2>1, <2>2
<1> QED  BY <1>1, <1>2

LEMMA ByteCountIs ==
  /\ Len(ByteCount) = 9
  /\ \A m \in Nat \ {0} : m <= 9 => \A n \in ByteCount[m] : n \in 1 .. 4 /\ n <= m
<1>1. Len(ByteCount) = 9
  BY DEF ByteCount
<1>2. ASSUME NEW m \in 1 .. 9
      PROVE  \A n \in ByteCount[m] : n \in 1 .. 4 /\ n <= m
  <2>1. CASE m \in {1, 2}
    BY <2>1 DEF ByteCount
  <2>2. CASE m = 3
    BY <2>2 DEF ByteCount
  <2>3. CASE m = 4
    BY <2>3 DEF ByteCount
  <2>4. CASE m = 5
    BY <2>4 DEF ByteCount
  <2>5. CASE m \in {6, 7}
    BY <2>5 DEF ByteCount
  <2>6. CASE m = 8
    BY <2>6 DEF ByteCount
  <2>7. CASE m = 9
    BY <2>7 DEF ByteCount
  <2> QED  BY <2>1, <2>2, <2>3, <2>4, <2>5, <2>6, <2>7
<1>3. \A m \in Nat \ {0} : m <= 9 => m \in 1 .. 9
  OBVIOUS
<1> QED  BY <1>1, <1>2, <1>3

(* The digits of a number that count are some of its last ones.            *)
LEMMA SignificantIs ==
  ASSUME NEW number \in Seq(Stored)
  PROVE  /\ Significant(number) \in Seq(Stored)
         /\ Len(Significant(number)) \in 0 .. Len(number)
         /\ Significant(number) # << >> => Len(Significant(number)) >= 1
         /\ Significant(number) # << >> /\ number[1] = "-" => Len(number) >= 2
<1>0. Len(number) \in Nat /\ DOMAIN number = 1 .. Len(number)
  BY LenProperties
<1>1. CASE ~\E i \in DOMAIN number : Counts(number, i)
  BY <1>0, <1>1, EmptySeq DEF Significant
<1>2. CASE \E i \in DOMAIN number : Counts(number, i)
  <2> DEFINE i == CHOOSE i \in DOMAIN number : Counts(number, i)
  <2>1. i \in 1 .. Len(number) /\ Counts(number, i)
    BY <1>0, <1>2
  <2>2. Significant(number) = SubSeq(number, i, Len(number))
    BY <1>2 DEF Significant
  <2> HIDE DEF i
  <2>3. /\ SubSeq(number, i, Len(number)) \in Seq(Stored)
        /\ Len(SubSeq(number, i, Len(number))) = Len(number) - i + 1
    BY <1>0, <2>1, SubSeqProperties
  <2>4. number[1] = "-" => i # 1
    BY <2>1 DEF Counts, Sign
  <2> QED  BY <1>0, <2>1, <2>2, <2>3, <2>4
<1> QED  BY <1>1, <1>2

(* A number has no more bytes than the characters read for it and the two *)
(* before it.                                                              *)
LEMMA HexBytesAre ==
  ASSUME NEW digits \in Seq(Stored), Len(digits) \in Nat \ {0}
  PROVE  /\ HexBytes(digits) \in Seq(Byte)
         /\ 1 <= Len(HexBytes(digits)) /\ Len(HexBytes(digits)) <= Len(digits)
<1> DEFINE n == (Len(digits) + 1) \div 2
<1>1. n \in Nat /\ 1 <= n /\ n <= Len(digits)
  OBVIOUS
<1>2. HexBytes(digits) \in [1 .. n -> Byte]
  BY DEF HexBytes, Byte
<1> HIDE DEF n
<1>3. HexBytes(digits) \in Seq(Byte) /\ Len(HexBytes(digits)) = n
  BY <1>1, <1>2
<1> QED  BY <1>1, <1>3

LEMMA DecimalBytesAre ==
  ASSUME NEW number \in Seq(Stored), NEW digits \in Seq(Stored),
         Len(number) \in Nat, Len(digits) \in Nat \ {0}, Len(digits) <= Len(number),
         number[1] = "-" => 2 <= Len(number),
         NEW b \in DecimalBytes(number, digits)
  PROVE  b \in Seq(Byte) /\ 1 <= Len(b) /\ Len(b) <= Len(number) + 2
<1>1. CASE number[1] = "-"
  <2>1. b \in Bytes(4)
    BY <1>1 DEF DecimalBytes
  <2>2. b \in Seq(Byte) /\ Len(b) = 4
    BY <2>1, BytesAre
  <2> QED  BY <1>1, <2>2
<1>2. CASE number[1] # "-" /\ Len(digits) > 9
  <2>1. b \in AnyBytes
    BY <1>2, ByteCountIs DEF DecimalBytes
  <2>2. b \in Seq(Byte) /\ 1 <= Len(b) /\ Len(b) <= 4
    BY <2>1, AnyBytesAre
  <2> QED  BY <1>2, <2>2
<1>3. CASE number[1] # "-" /\ Len(digits) <= 9
  <2>1. ~(Len(digits) > Len(ByteCount))
    BY <1>3, ByteCountIs
  <2>2. b \in UNION {Bytes(n) : n \in ByteCount[Len(digits)]}
    BY <1>3, <2>1 DEF DecimalBytes
  <2>3. PICK n \in ByteCount[Len(digits)] : b \in Bytes(n)
    BY <2>2
  <2>4. n \in 1 .. 4 /\ n <= Len(digits)
    BY <1>3, <2>3, ByteCountIs
  <2>5. b \in Seq(Byte) /\ Len(b) = n
    BY <2>3, <2>4, BytesAre
  <2> QED  BY <2>4, <2>5
<1> QED  BY <1>1, <1>2, <1>3

LEMMA NumberBytesAre ==
  ASSUME NEW number \in Seq(Stored), number # << >>, NEW label \in DOMAIN EscapeDigit,
         NEW b \in NumberBytes(label, number)
  PROVE  b \in Seq(Byte) /\ 1 <= Len(b) /\ Len(b) <= Len(number) + 2
<1> DEFINE digits == Significant(number)
<1>1. /\ Len(number) \in Nat /\ digits \in Seq(Stored)
      /\ Len(digits) \in Nat /\ Len(digits) <= Len(number)
      /\ digits # << >> => Len(digits) >= 1
      /\ digits # << >> /\ number[1] = "-" => Len(number) >= 2
  BY SignificantIs, LenProperties
<1>2. label \in {"hex_escape", "octal_escape", "decimal_escape"}
  BY DEF EscapeDigit
<1>3. /\ digits = << >> => b \in {<<"NUL">>}
      /\ digits # << >> /\ label = "hex_escape" => b = HexBytes(digits)
      /\ digits # << >> /\ label = "octal_escape" => b \in OctalBytes(digits)
      /\ digits # << >> /\ label = "decimal_escape" => b \in DecimalBytes(number, digits)
  BY <1>2 DEF NumberBytes
<1> HIDE DEF digits
<1>4. CASE b \in {<<"NUL">>, <<"binary">>}
  <2>1. b \in Seq(Byte) /\ Len(b) = 1
    BY <1>4, OneByte
  <2> QED  BY <1>1, <2>1
<1>5. CASE digits # << >> /\ label = "hex_escape"
  <2>1. Len(digits) \in Nat \ {0}
    BY <1>1, <1>5
  <2>2. b \in Seq(Byte) /\ 1 <= Len(b) /\ Len(b) <= Len(digits)
    BY <1>1, <1>3, <1>5, <2>1, HexBytesAre
  <2> QED  BY <1>1, <2>2
<1>6. CASE digits # << >> /\ label = "octal_escape"
  BY <1>3, <1>4, <1>6 DEF OctalBytes
<1>7. CASE digits # << >> /\ label = "decimal_escape"
  BY <1>1, <1>3, <1>7, DecimalBytesAre
<1> QED  BY <1>2, <1>3, <1>4, <1>5, <1>6, <1>7

(* How an escape with a number ends: bytes are added to the string, no     *)
(* more of them than characters were read since the backslash.             *)
NumberStored ==
  /\ pc \in DOMAIN EscapeDigit
  /\ Read \/ UNCHANGED <<streams, file_flag>>
  /\ \E b \in Seq(Byte) :
       /\ 1 <= Len(b) /\ Len(b) <= Len(tbuf) + 2
       /\ CollectBytes(b)

LEMMA EscapeStores ==
  ASSUME ScanInv, pc \in DOMAIN EscapeDigit
  PROVE  /\ /\ tbuf # << >> /\ Read
            /\ \E b \in NumberBytes(pc, tbuf) : CollectBytes(b)
            => NumberStored
         /\ /\ Len(tbuf) = EscapeSize[pc] /\ UNCHANGED <<streams, file_flag>>
            /\ \E b \in OverrunBytes(pc) : CollectBytes(b)
            => NumberStored
<1>1. ASSUME tbuf # << >>, Read, NEW b \in NumberBytes(pc, tbuf), CollectBytes(b)
      PROVE  NumberStored
  <2>1. b \in Seq(Byte) /\ 1 <= Len(b) /\ Len(b) <= Len(tbuf) + 2
    BY <1>1, CharsTypes, NumberBytesAre
  <2> QED  BY <1>1, <2>1 DEF NumberStored
<1>2. ASSUME Len(tbuf) = EscapeSize[pc], UNCHANGED <<streams, file_flag>>,
             NEW b \in OverrunBytes(pc), CollectBytes(b)
      PROVE  NumberStored
  <2>1. Len(tbuf) \in Nat /\ Len(tbuf) >= 4
    BY <1>2, SizeFacts, LoopNames
  <2>2. b \in Seq(Byte) /\ 1 <= Len(b) /\ Len(b) <= 4
    <3>1. CASE b \in AnyBytes
      BY <3>1, AnyBytesAre
    <3>2. CASE b \in {<<"NUL">>, <<"binary">>}
      <4>1. b \in Seq(Byte) /\ Len(b) = 1
        BY <3>2, OneByte
      <4> QED  BY <4>1
    <3>3. b \in AnyBytes \/ b \in {<<"NUL">>, <<"binary">>}
      BY DEF OverrunBytes
    <3> QED  BY <3>1, <3>2, <3>3
  <2>3. Len(b) <= Len(tbuf) + 2
    BY <2>1, <2>2, LenProperties
  <2> QED  BY <1>2, <2>2, <2>3 DEF NumberStored
<1> QED  BY <1>1, <1>2

LEMMA BytesLength ==
  ASSUME ScanInv, NEW b \in Seq(Byte)
  PROVE  /\ buffer \o b \in Seq(Stored)
         /\ Len(buffer \o b) = Len(buffer) + Len(b)
         /\ Len(buffer) \in Nat /\ Len(b) \in Nat
<1>1. b \in Seq(Stored)
  BY DEF Stored, Byte, Character
<1> QED  BY <1>1, CharsTypes, ConcatProperties, LenProperties

LEMMA BytesInv ==
  ASSUME ScanInv, NumberStored
  PROVE  ScanInv'
<1>1. PICK b \in Seq(Byte) : CollectBytes(b)
  BY DEF NumberStored
<1>2. UNCHANGED <<operator, tbuf, token, opened, before, missed, searchVars>>
  BY <1>1 DEF CollectBytes, Rest
<1>3. StreamsInv'
  <2>1. CASE Read
    BY <1>2, <2>1, MovedStreams DEF ScanInv
  <2>2. CASE UNCHANGED <<streams, file_flag>>
    BY <1>2, <2>2 DEF ScanInv, StreamsInv
  <2> QED  BY <2>1, <2>2 DEF NumberStored
<1>4. buffer' \in Seq(Stored) /\ Len(buffer') <= MaxText
  BY <1>1, BytesLength DEF CollectBytes, ScanInv, CharsInv
<1>5. CharsInv'
  BY <1>2, <1>4 DEF ScanInv, CharsInv
<1>6. pc # "search" /\ pc' \in {"dquote", "aborted"}
  BY <1>1, LoopNames, LabelFacts DEF CollectBytes, NumberStored
<1>7. ControlInv'
  BY <1>2, <1>6, KeptControl, LabelFacts, LoopNames DEF ScanInv
<1> QED  BY <1>3, <1>5, <1>7 DEF ScanInv

LEMMA StringInv ==
  ASSUME ScanInv, InString \/ EatUntilWs \/ Escape \/ DecimalSign \/ NumberEscape
  PROVE  ScanInv'
<1> USE ChIsStored, LoopNames
<1>1. CASE InString
  BY <1>1, SkipInv, CollectInv, FinishInv DEF InString, At
<1>2. CASE EatUntilWs
  BY <1>2, CollectInv, FinishInv DEF EatUntilWs, At
<1>3. CASE Escape
  <2>1. pc # "search"
    BY <1>3 DEF Escape, At
  <2>2. CASE Ch \in DOMAIN EscapeStart
    <3>1. EscapeStart[Ch] \in {"hex_escape", "octal_escape", "decimal_sign"}
      BY <2>2 DEF EscapeStart
    <3>2. << >> \in Seq(Stored) /\ Len(<< >>) = 0
      BY EmptySeq
    <3>3. Read /\ pc' \in Label /\ tbuf' = << >>
          /\ UNCHANGED <<buffer, operator, token, opened, before, missed, searchVars>>
      BY <1>3, <2>2, <3>1, LabelFacts DEF Escape
    <3> QED  BY <2>1, <3>2, <3>3, SizeFacts, QuietInv, CharsTypes
  <2>3. CASE Ch \notin DOMAIN EscapeStart
    <3>1. Unescaped(Ch) \in Stored
      BY DEF Unescaped, Stored, Character, Space
    <3> QED  BY <1>3, <2>1, <2>3, <3>1, CollectInv DEF Escape
  <2> QED  BY <2>2, <2>3
<1>4. CASE DecimalSign
  <2>1. tbuf' \in Seq(Stored) /\ Len(tbuf') <= 1
    <3>1. << >> \in Seq(Stored) /\ Len(<< >>) = 0 /\ <<Ch>> \in Seq(Stored) /\ Len(<<Ch>>) = 1
      BY EmptySeq
    <3> QED  BY <1>4, <3>1 DEF DecimalSign
  <2>2. pc # "search" /\ Read /\ pc' \in Label
        /\ UNCHANGED <<buffer, operator, token, opened, before, missed, searchVars>>
    BY <1>4, LabelFacts DEF DecimalSign, At
  <2> QED  BY <2>1, <2>2, SizeFacts, QuietInv, CharsTypes
<1>5. CASE NumberEscape
  <2>1. pc # "search" /\ pc \in DOMAIN EscapeDigit
    BY <1>5 DEF NumberEscape
  <2>2. CASE /\ Len(tbuf) < EscapeSize[pc]
             /\ Ch \in EscapeDigit[pc] /\ Read /\ tbuf' = Append(tbuf, Ch)
             /\ UNCHANGED <<pc, buffer, operator, token, opened, before, missed, searchVars>>
    <3>1. Append(tbuf, Ch) \in Seq(Stored) /\ Len(Append(tbuf, Ch)) = Len(tbuf) + 1
      BY CharsTypes, StoredAppend
    <3>2. Len(tbuf') <= TbufSize[pc']
      BY <2>1, <2>2, <3>1, SizeFacts, CharsTypes
    <3> QED  BY <2>1, <2>2, <3>1, <3>2, QuietInv, CharsTypes, LabelFacts
  <2>3. CASE Leave("dquote")
    BY <2>1, <2>3, SkipInv
  <2>4. CASE NumberStored
    BY <2>1, <2>4, BytesInv
  <2> QED  BY <1>5, <2>2, <2>3, <2>4, EscapeStores DEF NumberEscape
<1> QED  BY <1>1, <1>2, <1>3, <1>4, <1>5

LEMMA CommentInv ==
  ASSUME ScanInv, Slash \/ LineComment \/ Comment
  PROVE  ScanInv'
<1> USE ChIsStored, LoopNames
<1>1. CASE Slash
  <2>1. pc # "search"
    BY <1>1 DEF Slash, At
  <2>2. CASE Ch = "/"
    BY <1>1, <2>1, <2>2, SkipInv DEF Slash
  <2>3. CASE Ch = "*"
    <3>1. Read /\ pc' \in {"skip_ws", "comment"} /\ missed' \in BOOLEAN
          /\ UNCHANGED <<buffer, operator, tbuf, token, opened, before, searchVars>>
      BY <1>1, <2>3, CharsTypes DEF Slash
    <3> QED  BY <2>1, <3>1, QuietInv, CharsTypes, LabelFacts
  <2>4. CASE Ch \notin {"/", "*"}
    <3>1. PutBack /\ pc' = "skip_ws" /\ operator' \in PendingOperator
          /\ UNCHANGED <<buffer, tbuf, token, opened, before, missed, searchVars>>
      BY <1>1, <2>4 DEF Slash, PendingOperator
    <3> QED  BY <2>1, <3>1, QuietInv, CharsTypes, LabelFacts
  <2> QED  BY <2>2, <2>3, <2>4
<1>2. CASE LineComment
  BY <1>2, SkipInv DEF LineComment, At
<1>3. CASE Comment
  BY <1>3, SkipInv DEF Comment, At
<1> QED  BY <1>1, <1>2, <1>3

LEMMA WordInv ==
  ASSUME RankIsNumber, ScanInv, Word \/ Search \/ WordEnd
  PROVE  ScanInv'
<1> USE ChIsStored, LoopNames
<1>1. CASE Word
  <2>1. CASE Collect(Ch, "word")
    BY <1>1, <2>1, CollectInv DEF Word, At
  <2>2. CASE ~Collect(Ch, "word")
    <3>1. PutBack /\ StrToToken(Rank(buffer)) /\ pc' = "search"
          /\ UNCHANGED <<buffer, operator, tbuf, token, opened, before, missed>>
      BY <1>1, <2>2 DEF Word
    <3>2. StreamsInv'
      BY <3>1, MovedStreams DEF ScanInv
    <3>3. CharsInv'
      BY <3>1 DEF ScanInv, CharsInv
    <3>4. Rank(buffer) \in Int
      BY CharsTypes DEF RankIsNumber
    <3>5. SearchInv'
      BY <3>1, <3>4, CallSearchInv DEF ScanInv, ControlInv
    <3> QED  BY <3>1, <3>2, <3>3, <3>5, LabelFacts DEF ScanInv, ControlInv
  <2> QED  BY <2>1, <2>2
<1>2. CASE Search
  <2>1. SearchInv' /\ pc = "search" /\ UNCHANGED scanVars
    BY <1>2, StepSearchInv DEF Search, ScanInv, ControlInv, At
  <2>2. StreamsInv'
    BY <2>1 DEF scanVars, ScanInv, StreamsInv
  <2>3. CharsInv'
    BY <2>1 DEF scanVars, ScanInv, CharsInv
  <2> QED  BY <2>1, <2>2, <2>3, LabelFacts DEF scanVars, ScanInv, ControlInv
<1>3. CASE WordEnd
  <2>1. StreamsInv'
    BY <1>3 DEF WordEnd, Return, ScanInv, StreamsInv
  <2>2. CharsInv'
    BY <1>3 DEF WordEnd, Return, ScanInv, CharsInv
  <2>3. Idle'
    BY <1>3 DEF WordEnd, Idle, ScanInv, ControlInv, SearchInv, SearchTypeOK
  <2>4. SearchInv'
    <3>1. Idle' => SearchInv'
      BY InitSearchInv, PTL
    <3> QED  BY <2>3, <3>1
  <2> QED  BY <1>3, <2>1, <2>2, <2>4, LabelFacts DEF WordEnd, Return, ScanInv, ControlInv
<1> QED  BY <1>1, <1>2, <1>3

LEMMA NextScanInv ==
  ASSUME RankIsNumber, ScanInv, [ScannerNext]_scannerVars
  PROVE  ScanInv'
<1>1. CASE UNCHANGED scannerVars
  <2>1. UNCHANGED scanVars /\ UNCHANGED searchVars
    BY <1>1 DEF scannerVars
  <2>2. StreamsInv'
    BY <2>1 DEF scanVars, ScanInv, StreamsInv
  <2>3. CharsInv'
    BY <2>1 DEF scanVars, ScanInv, CharsInv
  <2>4. SearchInv'
    BY <2>1, StutterSearchInv DEF ScanInv, ControlInv
  <2> QED  BY <2>1, <2>2, <2>3, <2>4 DEF scanVars, searchVars, ScanInv, ControlInv
<1>2. CASE ScannerNext
  BY <1>2, OpenInv, CallInv, TopInv, NumberInv, StringInv, CommentInv, WordInv
    DEF ScannerNext, ScanStep
<1> QED  BY <1>1, <1>2

LEMMA ScanInvSuffices ==
  ASSUME ScanInv
  PROVE  ScanTypeOK /\ SearchIsRight
<1>1. \A i \in DOMAIN streams : streams[i].pos \in 1 .. Len(streams[i].text) + 1
  <2> TAKE i \in DOMAIN streams
  <2>1. streams[i] \in Stream
    BY DEF ScanInv, StreamsInv
  <2> QED  BY <2>1, StreamFacts
<1>2. SearchTypeOK /\ SearchIsRight
  BY DEF ScanInv, ControlInv, SearchInv
<1> QED
  BY <1>1, <1>2 DEF ScanTypeOK, ScanInv, StreamsInv, CharsInv, ControlInv, PendingOperator, Label

(* For every set of texts: read positions stay at most one behind the end, *)
(* the buffers keep their limits, and no more streams are open than were   *)
(* opened.  The digits of an escape stay inside the array that             *)
(* get_hex_escape(), get_octal_escape() and get_decimal_escape() each have *)
(* on the stack, of 9, 4 and 11 characters; they may fill it.              *)
THEOREM ScannerTypeCorrect ==
  ASSUME RankIsNumber
  PROVE  ScannerSpec => []ScanTypeOK
<1>1. ScanInv /\ [ScannerNext]_scannerVars => ScanInv'
  BY NextScanInv
<1>2. ScanInv => ScanTypeOK
  BY ScanInvSuffices
<1> QED  BY <1>1, <1>2, InitScanInv, PTL DEF ScannerSpec

(* The search is right as read_word() uses it, for every table, too: each  *)
(* call starts from the whole table, whatever the last one left.           *)
THEOREM WordSearchIsRight ==
  ASSUME RankIsNumber
  PROVE  ScannerSpec => []SearchIsRight
<1>1. ScanInv /\ [ScannerNext]_scannerVars => ScanInv'
  BY NextScanInv
<1>2. ScanInv => SearchIsRight
  BY ScanInvSuffices
<1> QED  BY <1>1, <1>2, InitScanInv, PTL DEF ScannerSpec

-----------------------------------------------------------------------------
(* Every step of a call reads, puts back, or leaves the streams alone.     *)
TouchesTop ==
  /\ before' = before
  /\ \/ Read \/ PutBack
     \/ UNCHANGED <<streams, file_flag>>
     \/ pc' = "ready"

LEMMA CollectTouches ==
  \A c, next : Collect(c, next) => TouchesTop
BY DEF Collect, Rest, TouchesTop

LEMMA SkipTouches ==
  \A next : Drop(next) \/ Leave(next) => TouchesTop
BY DEF Drop, Leave, Rest, TouchesTop

LEMMA FinishTouches ==
  \A type : Finish(type) \/ FinishBefore(type) => TouchesTop
BY DEF Finish, FinishBefore, Return, TouchesTop

LEMMA ScanStepTouchesTop ==
  ASSUME ScanStep
  PROVE  TouchesTop /\ pc # "ready"
<1> USE CollectTouches, SkipTouches, FinishTouches DEF At
<1>1. CASE SkipWs
  BY <1>1 DEF SkipWs
<1>2. CASE EndOfFile
  BY <1>2 DEF EndOfFile, Return, TouchesTop
<1>3. CASE EndOfInput
  BY <1>3 DEF EndOfInput
<1>4. CASE Opening
  BY <1>4 DEF Opening
<1>5. CASE Operator
  <2>1. pc # "ready"
    BY <1>5 DEF Operator
  <2>2. CASE \E type : Finish(type)
    BY <2>1, <2>2
  <2>3. CASE ~\E type : Finish(type)
    BY <1>5, <2>1, <2>3 DEF Operator, TouchesTop
  <2> QED  BY <2>2, <2>3
<1>6. CASE Unknown
  BY <1>6 DEF Unknown
<1>7. CASE SecondOfOperator
  BY <1>7 DEF SecondOfOperator
<1>8. CASE Zero \/ Integer \/ Hex \/ Octal
  BY <1>8 DEF Zero, Integer, Hex, Octal
<1>9. CASE Fraction \/ Exponent \/ Malformed
  BY <1>9 DEF Fraction, Exponent, Malformed
<1>10. CASE InString \/ EatUntilWs
  BY <1>10 DEF InString, EatUntilWs
<1>11. CASE Escape
  <2>1. pc # "ready"
    BY <1>11 DEF Escape
  <2>2. CASE Ch \in DOMAIN EscapeStart
    BY <1>11, <2>1, <2>2 DEF Escape, TouchesTop
  <2>3. CASE Ch \notin DOMAIN EscapeStart
    BY <1>11, <2>1, <2>3 DEF Escape
  <2> QED  BY <2>2, <2>3
<1>12. CASE DecimalSign
  BY <1>12 DEF DecimalSign, TouchesTop
<1>13. CASE NumberEscape
  <2>1. pc # "ready"
    BY <1>13, LoopNames DEF NumberEscape
  <2>2. CASE (Read \/ UNCHANGED <<streams, file_flag>>) /\ \E b : CollectBytes(b)
    BY <2>1, <2>2 DEF CollectBytes, Rest, TouchesTop
  <2>3. CASE Leave("dquote")
    BY <2>1, <2>3
  <2>4. CASE Read /\ before' = before
    BY <2>1, <2>4 DEF TouchesTop
  <2> QED  BY <1>13, <2>2, <2>3, <2>4 DEF NumberEscape
<1>14. CASE Slash
  <2>1. pc # "ready"
    BY <1>14 DEF Slash
  <2>2. CASE Drop("line_comment")
    BY <2>1, <2>2
  <2>3. CASE (Read \/ PutBack) /\ before' = before
    BY <2>1, <2>3 DEF TouchesTop
  <2> QED  BY <1>14, <2>2, <2>3 DEF Slash
<1>15. CASE LineComment \/ Comment
  BY <1>15 DEF LineComment, Comment
<1>16. CASE Word
  <2>1. pc # "ready"
    BY <1>16 DEF Word
  <2>2. CASE Collect(Ch, "word")
    BY <2>1, <2>2
  <2>3. CASE PutBack /\ before' = before
    BY <2>1, <2>3 DEF TouchesTop
  <2> QED  BY <1>16, <2>2, <2>3 DEF Word
<1>17. CASE Search
  BY <1>17 DEF Search, scanVars, TouchesTop
<1>18. CASE WordEnd
  BY <1>18 DEF WordEnd, Return, TouchesTop
<1>19. CASE At("again") /\ GetTok
  BY <1>19 DEF GetTok, TouchesTop
<1> QED
  BY <1>1, <1>2, <1>3, <1>4, <1>5, <1>6, <1>7, <1>8, <1>9, <1>10, <1>11, <1>12, <1>13,
     <1>14, <1>15, <1>16, <1>17, <1>18, <1>19 DEF ScanStep

(* What is read from now, and what the call had to read from. *)
LEMMA ReadingIsOpen ==
  ASSUME OnlyTopIsRead, pc # "ready", StreamsInv
  PROVE  \/ Reading = OpenBefore
         \/ /\ Reading = streams /\ ~file_flag /\ Len(streams) = Len(OpenBefore)
            /\ \A i \in 2 .. Len(streams) : streams[i] = OpenBefore[i]
            /\ streams # << >> => /\ streams[1].text = OpenBefore[1].text
                                 /\ streams[1].pos >= OpenBefore[1].pos
<1>1. CASE streams = before.streams /\ file_flag = before.file_flag
  BY <1>1 DEF Reading, OpenBefore
<1>2. CASE ~(streams = before.streams /\ file_flag = before.file_flag)
  BY <1>2 DEF OnlyTopIsRead, At, Reading
<1> QED  BY <1>1, <1>2

LEMMA NextOnlyTopIsRead ==
  ASSUME ScanInv, OnlyTopIsRead, [ScannerNext]_scannerVars
  PROVE  OnlyTopIsRead'
<1> SUFFICES ASSUME pc' # "ready" PROVE OnlyTopIsRead'
  BY DEF OnlyTopIsRead, At
<1>1. CASE pc # "ready" /\ before' = before /\ UNCHANGED <<streams, file_flag>>
  BY <1>1 DEF OnlyTopIsRead, OpenBefore, At
<1>2. CASE pc # "ready" /\ before' = before /\ (Read \/ PutBack)
  <2>1. Moved
    BY <1>2, ReadMoves DEF ScanInv
  <2>2. OpenBefore' = OpenBefore
    BY <1>2 DEF OpenBefore
  <2> DEFINE r == Reading
             o == OpenBefore
             n == Len(r)
  <2>3. /\ Len(streams') = n /\ n \in Nat /\ file_flag' = FALSE
        /\ \A i \in 2 .. n : streams'[i] = r[i]
        /\ n >= 1 => streams'[1].text = r[1].text /\ streams'[1].pos >= r[1].pos
                     /\ r[1].pos \in Nat /\ streams'[1].pos \in Nat
        /\ (streams' # << >> => n >= 1)
    <3>1. r \in Seq(Stream) /\ streams' \in Seq(Stream) /\ Len(streams') = n
      BY <2>1, ReadingFacts DEF Moved, ScanInv
    <3>2. n \in Nat /\ (n >= 1 => r # << >>) /\ (streams' # << >> => n >= 1)
      BY <3>1, EmptySeq, LenProperties
    <3>3. n >= 1 => r[1] \in Stream /\ streams'[1] \in Stream
      BY <3>1, <3>2, ElementOfSeq
    <3>4. n >= 1 => r[1].pos \in Nat /\ streams'[1].pos \in Nat
      BY <3>3, StreamFacts DEF Stream
    <3> QED  BY <2>1, <3>1, <3>2, <3>4 DEF Moved
  <2>4. \/ r = o
        \/ /\ n = Len(o)
           /\ \A i \in 2 .. n : r[i] = o[i]
           /\ n >= 1 => r[1].text = o[1].text /\ r[1].pos >= o[1].pos
    BY <1>2, <2>3, ReadingIsOpen, EmptySeq DEF ScanInv
  <2>5. o \in Seq(Stream) /\ (Len(o) >= 1 => o[1].pos \in Nat)
    <3>1. before.streams \in Seq(Stream)
      BY DEF ScanInv, StreamsInv
    <3>2. o \in Seq(Stream)
      BY <3>1, HeadTailProperties DEF OpenBefore
    <3>3. Len(o) >= 1 => o[1] \in Stream
      BY <3>2, ElementOfSeq, LenProperties
    <3> QED  BY <3>2, <3>3 DEF Stream
  <2> HIDE DEF r, o, n
  <2>6. /\ Len(streams') = Len(o)
        /\ \A i \in 2 .. Len(streams') : streams'[i] = o[i]
        /\ streams' # << >> => streams'[1].text = o[1].text /\ streams'[1].pos >= o[1].pos
    <3>1. CASE r = o
      BY <2>3, <3>1 DEF n
    <3>2. CASE r # o
      BY <2>3, <2>4, <2>5, <3>2
    <3> QED  BY <3>1, <3>2
  <2> QED  BY <2>2, <2>3, <2>6 DEF OnlyTopIsRead, o
<1>3. CASE GetTok /\ At("ready")
  BY <1>3 DEF GetTok, At, OnlyTopIsRead
<1>4. CASE UNCHANGED scannerVars
  BY <1>1, <1>4 DEF scannerVars, scanVars
<1>5. CASE \E text \in Texts : OpenStream(text)
  BY <1>5 DEF OpenStream, At
<1>6. CASE ScanStep
  BY <1>1, <1>2, <1>6, ScanStepTouchesTop DEF TouchesTop
<1> QED  BY <1>3, <1>4, <1>5, <1>6 DEF ScannerNext

(* For all texts, however many streams are open: a call of advance() does  *)
(* the deferred close once, and then reads only the stream on top, however *)
(* many errors, comments and blanks it passes on the way to its token.     *)
THEOREM ReadsOnlyTop ==
  ASSUME RankIsNumber
  PROVE  ScannerSpec => []OnlyTopIsRead
<1>1. ScanInit => OnlyTopIsRead
  BY DEF ScanInit, OnlyTopIsRead, At
<1>2. ScanInv /\ [ScannerNext]_scannerVars => ScanInv'
  BY NextScanInv
<1>3. ScanInv /\ OnlyTopIsRead /\ [ScannerNext]_scannerVars => OnlyTopIsRead'
  BY NextOnlyTopIsRead
<1> QED  BY <1>1, <1>2, <1>3, InitScanInv, PTL DEF ScannerSpec

-----------------------------------------------------------------------------
(* Where no lexeme was begun, and where one of words or numbers is read.   *)
Fresh ==
  {"skip_ws", "top", "slash", "line_comment", "comment", "comment_star", "comment_end"}

Gathering ==
  {"zero", "integer", "hex", "octal", "fraction", "exponent", "signed", "signed_digits",
   "unsigned_digits", "word"}

Ends == {"END_FILE", "END_INPUT"}

Copied ==
  /\ streams # << >> /\ ~file_flag
  /\ Len(buffer) < streams[1].pos
  /\ \A i \in 1 .. Len(buffer) :
       buffer[i] = streams[1].text[streams[1].pos - 1 - Len(buffer) + i]

LexemeInv ==
  /\ pc \in Fresh => buffer = << >>
  /\ pc \in Gathering \cup {"search"} => Copied

(* How a step of get_tok() treats the buffer. *)
Idles  == pc' \notin Fresh \cup Gathering \cup {"search"}
Begins == pc' \in Fresh /\ (buffer' = << >> \/ (pc \in Fresh /\ buffer' = buffer))
Gathers ==
  /\ pc' \in Gathering /\ pc \in Gathering \cup {"top"}
  /\ Ch \notin Ends /\ Read /\ buffer' = Append(buffer, Ch)
LooksUp == pc = "word" /\ pc' = "search" /\ PutBack /\ buffer' = buffer
Stays   == pc' = pc /\ UNCHANGED <<streams, file_flag, buffer>>

Shape == Idles \/ Begins \/ Gathers \/ LooksUp \/ Stays

LEMMA ClassesHaveNoEnds ==
  /\ Digit \cap Ends = {} /\ OctalDigit \cap Ends = {} /\ HexDigit \cap Ends = {}
  /\ WordChar \cap Ends = {} /\ Letter \cap Ends = {} /\ Sign \cap Ends = {}
  /\ {".", "x", "e", "_", "0"} \cap Ends = {}
BY DEF Digit, OctalDigit, HexDigit, WordChar, Letter, Sign, Ends

LEMMA CollectShape ==
  ASSUME NEW next \in Gathering, pc \in Gathering \cup {"top"},
         Ch \notin Ends, Collect(Ch, next)
  PROVE  Shape
<1>1. CASE pc' = next /\ buffer' = Append(buffer, Ch) /\ Read
  BY <1>1 DEF Shape, Gathers
<1>2. CASE pc' = "aborted"
  BY <1>2 DEF Shape, Idles, Fresh, Gathering
<1> QED  BY <1>1, <1>2 DEF Collect

LEMMA CollectElsewhere ==
  ASSUME NEW c, NEW next, next \notin Fresh \cup Gathering \cup {"search"}, Collect(c, next)
  PROVE  Shape
BY DEF Collect, Shape, Idles, Fresh, Gathering

LEMMA SkipShape ==
  ASSUME NEW next, Drop(next) \/ Leave(next),
         \/ next \notin Fresh \cup Gathering \cup {"search"}
         \/ next \in Fresh /\ pc \in Fresh
  PROVE  Shape
BY DEF Drop, Leave, Shape, Idles, Begins

LEMMA FinishShape ==
  ASSUME NEW type, Finish(type) \/ FinishBefore(type)
  PROVE  Shape
BY DEF Finish, FinishBefore, Return, Shape, Idles, Fresh, Gathering

LEMMA TopShape ==
  ASSUME SkipWs \/ EndOfFile \/ EndOfInput \/ Opening \/ Operator \/ Unknown
  PROVE  Shape
<1> USE DEF At
<1>1. CASE SkipWs
  BY <1>1, SkipShape, FinishShape DEF SkipWs, Fresh
<1>2. CASE EndOfFile
  BY <1>2 DEF EndOfFile, Return, Shape, Idles, Fresh, Gathering
<1>3. CASE EndOfInput
  BY <1>3, FinishShape DEF EndOfInput
<1>4. CASE Opening
  <2>1. pc = "top"
    BY <1>4 DEF Opening
  <2>2. CASE Drop("dquote") \/ Drop("squote") \/ Drop("slash")
    BY <2>1, <2>2, SkipShape DEF Fresh, Gathering
  <2>3. CASE \E next \in Gathering : Ch \notin Ends /\ Collect(Ch, next)
    BY <2>1, <2>3, CollectShape
  <2> QED  BY <1>4, <2>2, <2>3, ClassesHaveNoEnds DEF Opening, Gathering
<1>5. CASE Operator
  <2>1. CASE \E type : Finish(type)
    BY <2>1, FinishShape
  <2>2. CASE pc' = "operator"
    BY <2>2 DEF Shape, Idles, Fresh, Gathering
  <2> QED  BY <1>5, <2>1, <2>2 DEF Operator
<1>6. CASE Unknown
  BY <1>6, SkipShape DEF Unknown, Fresh
<1> QED  BY <1>1, <1>2, <1>3, <1>4, <1>5, <1>6

LEMMA NumberShape ==
  ASSUME SecondOfOperator \/ Zero \/ Integer \/ Hex \/ Octal \/ Fraction \/ Exponent \/ Malformed
  PROVE  Shape
<1> USE DEF At
<1> USE CollectShape, SkipShape, FinishShape, ClassesHaveNoEnds
<1>1. CASE SecondOfOperator
  BY <1>1 DEF SecondOfOperator
<1>2. CASE Zero
  BY <1>2 DEF Zero, Gathering, Fresh
<1>3. CASE Integer
  BY <1>3 DEF Integer, Gathering
<1>4. CASE Hex
  BY <1>4 DEF Hex, Gathering
<1>5. CASE Octal
  BY <1>5 DEF Octal, Gathering, Fresh
<1>6. CASE Fraction
  BY <1>6 DEF Fraction, Gathering
<1>7. CASE Exponent
  BY <1>7 DEF Exponent, Gathering, Fresh
<1>8. CASE Malformed
  BY <1>8, CollectElsewhere DEF Malformed, Gathering, Fresh
<1> QED  BY <1>1, <1>2, <1>3, <1>4, <1>5, <1>6, <1>7, <1>8

LEMMA StringShape ==
  ASSUME InString \/ EatUntilWs \/ Escape \/ DecimalSign \/ NumberEscape
  PROVE  Shape
<1> USE DEF At
<1> USE CollectElsewhere, SkipShape, FinishShape
<1>1. CASE InString
  BY <1>1 DEF InString, Gathering, Fresh
<1>2. CASE EatUntilWs
  BY <1>2 DEF EatUntilWs, Gathering, Fresh
<1>3. CASE Escape
  <2>1. CASE Ch \in DOMAIN EscapeStart
    <3>1. EscapeStart[Ch] \in {"hex_escape", "octal_escape", "decimal_sign"}
      BY <2>1 DEF EscapeStart
    <3>2. pc' = EscapeStart[Ch]
      BY <1>3, <2>1 DEF Escape
    <3> QED  BY <3>1, <3>2 DEF Shape, Idles, Fresh, Gathering
  <2>2. CASE Collect(Unescaped(Ch), "dquote")
    BY <2>2 DEF Fresh, Gathering
  <2> QED  BY <1>3, <2>1, <2>2 DEF Escape
<1>4. CASE DecimalSign
  BY <1>4 DEF DecimalSign, Shape, Idles, Fresh, Gathering
<1>5. CASE NumberEscape
  <2>1. CASE pc' = pc
    BY <1>5, <2>1, LoopNames DEF NumberEscape, Shape, Idles, Fresh, Gathering
  <2>2. CASE \E b : CollectBytes(b)
    BY <2>2 DEF CollectBytes, Shape, Idles, Fresh, Gathering
  <2>3. CASE Leave("dquote")
    BY <2>3 DEF Fresh, Gathering
  <2> QED  BY <1>5, <2>1, <2>2, <2>3 DEF NumberEscape
<1> QED  BY <1>1, <1>2, <1>3, <1>4, <1>5

LEMMA CommentShape ==
  ASSUME Slash \/ LineComment \/ Comment
  PROVE  Shape
<1> USE DEF At
<1>1. CASE Slash
  <2>1. pc = "slash"
    BY <1>1 DEF Slash
  <2>2. CASE Drop("line_comment")
    BY <2>1, <2>2, SkipShape DEF Fresh
  <2>3. CASE buffer' = buffer /\ pc' \in {"skip_ws", "comment"}
    BY <2>1, <2>3 DEF Shape, Begins, Fresh
  <2> QED  BY <1>1, <2>2, <2>3 DEF Slash
<1>2. CASE LineComment
  BY <1>2, SkipShape DEF LineComment, Fresh
<1>3. CASE Comment
  BY <1>3, SkipShape DEF Comment, Fresh
<1> QED  BY <1>1, <1>2, <1>3

LEMMA WordShape ==
  ASSUME Word \/ Search \/ WordEnd \/ GetTok
  PROVE  Shape
<1> USE DEF At
<1>1. CASE Word
  <2>1. CASE Ch \in WordChar
    BY <1>1, <2>1, CollectShape, ClassesHaveNoEnds DEF Word, Gathering
  <2>2. CASE Ch \notin WordChar
    BY <1>1, <2>2 DEF Word, Shape, LooksUp
  <2> QED  BY <2>1, <2>2
<1>2. CASE Search
  BY <1>2 DEF Search, scanVars, Shape, Stays
<1>3. CASE WordEnd
  BY <1>3 DEF WordEnd, Return, Shape, Idles, Fresh, Gathering
<1>4. CASE GetTok
  BY <1>4 DEF GetTok, Shape, Begins, Fresh
<1> QED  BY <1>1, <1>2, <1>3, <1>4

(* A collected character is the next one of the text. *)
LEMMA CollectedIsCopied ==
  ASSUME ScanInv, Copied \/ buffer = << >>, Ch \notin Ends, Read,
         buffer' = Append(buffer, Ch)
  PROVE  Copied'
<1> DEFINE s == Reading[1]
           n == Len(buffer)
           p == s.pos
<1>1. Reading # << >> /\ Head(Reading) = s /\ s \in Stream
  BY ChIsCharacter, ReadingFacts DEF ScanInv, Ends
<1>2. s.text \in Seq(Character) /\ p \in Nat /\ p >= 1 /\ Len(s.text) \in Nat
  BY <1>1, StreamFacts, LenProperties DEF Stream
<1>3. ~(p > Len(s.text)) /\ Ch = s.text[p]
  BY <1>1 DEF Ch, Ends
<1>4. streams' # << >> /\ streams'[1].text = s.text /\ streams'[1].pos = p + 1 /\ file_flag' = FALSE
  <2>1. streams' = <<Advanced(Head(Reading))>> \o Tail(Reading) /\ file_flag' = FALSE
    BY <1>1 DEF Read
  <2>2. Len(streams') = Len(Reading) /\ streams'[1] = Advanced(s) /\ streams' \in Seq(Stream)
    BY <1>1, <2>1, AdvancedMoves DEF ScanInv
  <2>3. Advanced(s).text = s.text /\ Advanced(s).pos = p + 1
    BY <1>1, <1>3, StreamFacts
  <2>4. streams' # << >>
    <3>1. Len(Reading) # 0
      BY <1>1, ReadingFacts, EmptySeq DEF ScanInv
    <3> QED  BY <2>2, <3>1, EmptySeq
  <2> QED  BY <2>1, <2>2, <2>3, <2>4
<1>5. n \in Nat /\ n < p /\ \A i \in 1 .. n : buffer[i] = s.text[p - 1 - n + i]
  <2>1. n \in Nat
    BY CharsTypes, LenProperties
  <2>2. CASE Copied
    <3>1. Reading = streams
      BY <2>2 DEF Copied, Reading
    <3> QED  BY <2>1, <2>2, <3>1 DEF Copied
  <2>3. CASE buffer = << >>
    <3>1. n = 0
      BY <2>3, EmptySeq
    <3> QED  BY <1>2, <3>1
  <2> QED  BY <2>1, <2>2, <2>3
<1>6. /\ Len(buffer') = n + 1 /\ buffer'[n + 1] = Ch
      /\ \A i \in 1 .. n : buffer'[i] = buffer[i]
  BY CharsTypes, ChIsStored, AppendProperties
<1> HIDE DEF s, n, p
<1>7. ASSUME NEW i \in 1 .. n + 1
      PROVE  buffer'[i] = s.text[(p + 1) - 1 - (n + 1) + i]
  <2>1. (p + 1) - 1 - (n + 1) + i = p - 1 - n + i /\ (i = n + 1 => p - 1 - n + i = p)
        /\ (i = n + 1 \/ i \in 1 .. n)
    BY <1>2, <1>5
  <2>2. CASE i = n + 1
    BY <1>3, <1>6, <2>1, <2>2
  <2>3. CASE i \in 1 .. n
    BY <1>5, <1>6, <2>1, <2>3
  <2> QED  BY <2>1, <2>2, <2>3
<1>8. n + 1 < p + 1
  BY <1>2, <1>5
<1> QED  BY <1>4, <1>6, <1>7, <1>8 DEF Copied

LEMMA ShapeKeepsLexeme ==
  ASSUME ScanInv, LexemeInv, Shape
  PROVE  LexemeInv'
<1>1. CASE Idles
  BY <1>1 DEF Idles, LexemeInv
<1>2. CASE Begins
  BY <1>2 DEF Begins, LexemeInv, Fresh, Gathering
<1>3. CASE Gathers
  <2>1. Copied \/ buffer = << >>
    BY <1>3 DEF Gathers, LexemeInv, Fresh
  <2>2. Copied'
    BY <1>3, <2>1, CollectedIsCopied DEF Gathers
  <2> QED  BY <1>3, <2>2 DEF Gathers, LexemeInv, Fresh, Gathering
<1>4. CASE LooksUp
  <2>1. Copied
    BY <1>4 DEF LooksUp, LexemeInv, Gathering
  <2>2. streams' = streams /\ file_flag' = FALSE /\ buffer' = buffer
    BY <1>4, <2>1 DEF LooksUp, PutBack, Reading, Copied
  <2>3. Copied'
    BY <2>1, <2>2 DEF Copied
  <2> QED  BY <1>4, <2>3 DEF LooksUp, LexemeInv, Fresh
<1>5. CASE Stays
  BY <1>5 DEF Stays, LexemeInv, Copied
<1> QED  BY <1>1, <1>2, <1>3, <1>4, <1>5 DEF Shape

LEMMA NextLexemeInv ==
  ASSUME ScanInv, LexemeInv, [ScannerNext]_scannerVars
  PROVE  LexemeInv'
<1>1. CASE UNCHANGED scannerVars
  <2>1. Stays
    BY <1>1 DEF scannerVars, scanVars, Stays
  <2> QED  BY <2>1, ShapeKeepsLexeme DEF Shape
<1>2. CASE \E text \in Texts : OpenStream(text)
  <2>1. Idles
    BY <1>2 DEF OpenStream, At, Idles, Fresh, Gathering
  <2> QED  BY <2>1, ShapeKeepsLexeme DEF Shape
<1>3. CASE ScanStep \/ GetTok
  <2>1. Shape
    BY <1>3, TopShape, NumberShape, StringShape, CommentShape, WordShape DEF ScanStep
  <2> QED  BY <2>1, ShapeKeepsLexeme
<1> QED  BY <1>1, <1>2, <1>3 DEF ScannerNext

LEMMA LexemeInvSuffices == LexemeInv => BufferIsInput
BY DEF LexemeInv, Copied, BufferIsInput, Gathering

(* For all texts: what a word or a number is made from is the stretch of   *)
(* text up to the place that is read, nothing that was passed before it,   *)
(* and no character is taken twice or left out where one was put back.     *)
THEOREM LexemesAreInput ==
  ASSUME RankIsNumber
  PROVE  ScannerSpec => []BufferIsInput
<1>1. ScanInit => LexemeInv
  BY DEF ScanInit, LexemeInv, Fresh, Gathering
<1>2. ScanInv /\ [ScannerNext]_scannerVars => ScanInv'
  BY NextScanInv
<1>3. ScanInv /\ LexemeInv /\ [ScannerNext]_scannerVars => LexemeInv'
  BY NextLexemeInv
<1> QED  BY <1>1, <1>2, <1>3, InitScanInv, LexemeInvSuffices, PTL DEF ScannerSpec
-----------------------------------------------------------------------------
(* How far a call of advance() is.  What it reads ends: nothing is left of *)
(* the stream on top, or there is no stream.                               *)
AtEnd == Reading = << >> \/ Reading[1].pos > Len(Reading[1].text)

CharsLeft ==
  IF Reading = << >> THEN 0 ELSE (Len(Reading[1].text) + 1) - Reading[1].pos

StringLoop ==
  {"dquote", "squote", "eat_until_ws", "escape", "decimal_sign",
   "hex_escape", "octal_escape", "decimal_escape"}

(* Where a character of the stream on top was read. *)
Inside == (Loop \cup {"search"}) \ {"skip_ws", "top"}

(* How many steps the scanner may go from a place without reading on.      *)
LabelRank(label) ==
  CASE label = "skip_ws" -> 1
    [] label \in {"again", "slash", "line_comment", "comment_end"} -> 2
    [] label \in {"malformed", "signed", "dquote", "squote", "eat_until_ws"} -> 3
    [] label \in {"exponent", "escape", "hex_escape", "octal_escape", "decimal_escape"} -> 4
    [] label = "decimal_sign" -> 5
    [] OTHER -> 0

SearchLeft ==
  IF ~searching THEN 0 ELSE IF first <= last THEN last - first + 2 ELSE 1

Patience ==
  CASE pc = "word"   -> Len(token_map) + 6
    [] pc = "search" -> SearchLeft + 3
    [] OTHER         -> LabelRank(pc)

(* An open string is collected until there is no room for more of it. *)
Room == IF pc \in StringLoop THEN MaxText - Len(buffer) ELSE 0

Effort == (MaxText + Len(token_map) + 7) * CharsLeft + Room + Patience

(* A comment that nothing closes is skipped for ever. *)
InOpenComment ==
  pc \in {"comment", "comment_star"} /\ streams[1].pos > Len(streams[1].text)

(* A string that nothing closes is collected until the memory ends. *)
InOpenString ==
  pc \in StringLoop /\ streams[1].pos > Len(streams[1].text)

(* Every step of get_tok(), and of the loop of advance() around it, brings *)
(* the call closer to its return, but in an open comment.                  *)
ScanningAdvances ==
  [][ScanStep =>
       \/ pc' = "ready"
       \/ pc' = "aborted"
       \/ InOpenComment
       \/ Effort \in Nat /\ Effort' \in Nat /\ Effort' < Effort]_scannerVars

(* The process ends in the scanner only for a text that is longer than the *)
(* memory, or for a string that nothing closes.                            *)
MemoryIsEnough ==
  [][pc # "aborted" /\ pc' = "aborted" =>
       MaxText < Len(streams'[1].text) \/ InOpenString]_scannerVars

-----------------------------------------------------------------------------
LEMMA EndFacts ==
  ASSUME StreamsInv
  PROVE  /\ AtEnd => Ch \in Ends
         /\ AtEnd /\ Reading # << >> => Ch = "END_FILE"
         /\ CharsLeft \in Nat
         /\ Reading # << >> => Reading[1].pos \in Nat \ {0} /\ Len(Reading[1].text) \in Nat
<1>1. Reading # << >> => Head(Reading) = Reading[1] /\ Reading[1] \in Stream
  BY ReadingFacts
<1>2. Reading # << >> =>
        /\ Reading[1].pos \in Nat \ {0} /\ Len(Reading[1].text) \in Nat
        /\ Reading[1].pos <= Len(Reading[1].text) + 1
  BY <1>1, StreamFacts, LenProperties DEF Stream
<1> QED  BY <1>1, <1>2 DEF AtEnd, Ch, Ends, CharsLeft

(* What a step leaves to be read. *)
LEMMA CharsRead ==
  ASSUME StreamsInv, Read \/ PutBack
  PROVE  /\ Reading' = streams' /\ ~file_flag' /\ CharsLeft' \in Nat /\ CharsLeft' <= CharsLeft
         /\ Reading # << >> => streams' # << >> /\ streams'[1].pos >= Reading[1].pos
                               /\ streams'[1].text = Reading[1].text
         /\ Read /\ ~AtEnd => CharsLeft' = CharsLeft - 1
                              /\ streams'[1].pos = Reading[1].pos + 1
         /\ AtEnd => streams' = << >> \/ streams'[1].pos > Len(streams'[1].text)
<1>1. Moved
  BY ReadMoves
<1>2. Reading' = streams' /\ ~file_flag'
  BY <1>1 DEF Moved, Reading
<1>3. CASE Reading = << >>
  <2>1. streams' = << >>
    BY <1>3 DEF Read, PutBack
  <2> QED  BY <1>2, <1>3, <2>1 DEF CharsLeft, AtEnd
<1>4. CASE Reading # << >>
  <2> DEFINE s == Reading[1]
             t == streams'[1]
  <2>1. Head(Reading) = s /\ s \in Stream /\ Len(Reading) \in Nat \ {0}
    BY <1>4, ReadingFacts, EmptySeq, LenProperties
  <2>2. s.pos \in Nat \ {0} /\ Len(s.text) \in Nat /\ s.pos <= Len(s.text) + 1
    BY <2>1, StreamFacts, LenProperties DEF Stream
  <2>3. streams' # << >> /\ t.text = s.text
    BY <1>1, <1>4, <2>1, EmptySeq DEF Moved
  <2>4. CASE Read
    <3>1. streams' = <<Advanced(Head(Reading))>> \o Tail(Reading)
      BY <1>4, <2>4 DEF Read
    <3>2. t = Advanced(s)
      BY <1>4, <3>1, AdvancedMoves
    <3>3. t.pos = IF s.pos > Len(s.text) THEN s.pos ELSE s.pos + 1
      BY <2>1, <3>2, StreamFacts
    <3> HIDE DEF s, t
    <3>4. t.pos >= s.pos /\ t.pos \in Nat /\ t.pos <= Len(s.text) + 1
          /\ (~(s.pos > Len(s.text)) => t.pos = s.pos + 1)
          /\ (s.pos > Len(s.text) => t.pos > Len(s.text))
      BY <2>2, <3>3
    <3> DEFINE p == s.pos
               q == t.pos
               l == Len(s.text) + 1
    <3>5. p \in Nat /\ q \in Nat /\ l \in Nat /\ p <= q /\ q <= l
          /\ (~AtEnd => q = p + 1)
      BY <1>4, <2>2, <3>4 DEF AtEnd, s
    <3>6. CharsLeft = l - p /\ CharsLeft' = l - q
      BY <1>2, <1>4, <2>3 DEF CharsLeft, s, t
    <3> HIDE DEF p, q, l
    <3>8. l - q \in Nat /\ l - q <= l - p /\ (q = p + 1 => l - q = (l - p) - 1)
      BY ONLY <3>5
    <3>7. AtEnd <=> s.pos > Len(s.text)
      BY <1>4 DEF AtEnd, s
    <3> QED  BY <1>2, <1>4, <2>3, <3>4, <3>5, <3>6, <3>7, <3>8 DEF s, t
  <2>5. CASE PutBack /\ ~Read
    <3>1. streams' = Reading
      BY <2>5 DEF PutBack
    <3> QED  BY <1>2, <1>4, <2>2, <2>5, <3>1 DEF CharsLeft, AtEnd
  <2> QED  BY <2>4, <2>5
<1> QED  BY <1>3, <1>4

LEMMA RankFacts ==
  /\ \A label : LabelRank(label) \in 0 .. 5
  /\ LabelRank("top") = 0 /\ LabelRank("skip_ws") = 1 /\ LabelRank("again") = 2
  /\ \A label \in {"slash", "line_comment", "comment_end"} : LabelRank(label) = 2
  /\ \A label \in {"malformed", "signed", "dquote", "squote", "eat_until_ws"} :
       LabelRank(label) = 3
  /\ \A label \in {"exponent", "escape", "hex_escape", "octal_escape", "decimal_escape"} :
       LabelRank(label) = 4
  /\ LabelRank("decimal_sign") = 5
BY DEF LabelRank

-----------------------------------------------------------------------------
(* The characters of an escape that were read, for which nothing was       *)
(* stored yet.                                                             *)
Due == CASE pc = "escape"            -> 1
         [] pc = "decimal_sign"      -> 2
         [] pc \in DOMAIN EscapeDigit -> Len(tbuf) + 2
         [] OTHER                    -> 0

(* How a step of get_tok() brings the call on. *)
Aborts ==
  /\ pc' = "aborted" /\ pc \in Inside \cup {"top"}
  /\ Read \/ (UNCHANGED <<streams, file_flag>> /\ pc \in Inside)
  /\ MaxText <= Len(buffer) + Due
  /\ AtEnd => pc \in StringLoop

Takes ==
  /\ Read /\ ~AtEnd /\ pc' # "aborted"
  /\ Len(buffer') \in Nat
  /\ pc' \in Inside => pc \in Inside \cup {"top"} /\ Len(buffer') + Due' <= Len(buffer) + Due + 1

Falls ==
  /\ Read \/ PutBack \/ UNCHANGED <<streams, file_flag>>
  /\ Patience' < Patience /\ pc' # "aborted"
  /\ pc' \in Inside =>
       /\ pc \in Inside /\ (pc \in StringLoop <=> pc' \in StringLoop)
       /\ Len(buffer') \in Nat
       /\ Len(buffer') >= Len(buffer) /\ Len(buffer') + Due' <= Len(buffer) + Due

Fills ==
  /\ Read /\ AtEnd
  /\ pc \in StringLoop /\ pc' \in StringLoop
  /\ Patience' <= Patience
  /\ Len(buffer) < MaxText /\ \E c : buffer' = Append(buffer, c)

Hangs ==
  /\ Read /\ AtEnd
  /\ pc \in {"comment", "comment_star"} /\ pc' = "comment" /\ buffer' = buffer

Course == pc' = "ready" \/ Aborts \/ Takes \/ Falls \/ Fills \/ Hangs

LEMMA PatienceIs ==
  /\ pc \notin {"word", "search"} => Patience = LabelRank(pc)
  /\ pc' \notin {"word", "search"} => Patience' = LabelRank(pc')
BY DEF Patience

LEMMA InsideNames ==
  /\ {"operator", "word", "zero", "integer", "hex", "octal", "fraction", "exponent", "signed",
      "signed_digits", "unsigned_digits", "malformed", "slash", "line_comment", "comment",
      "comment_star", "comment_end", "search"} \subseteq Inside \ StringLoop
  /\ StringLoop \subseteq Inside
  /\ {"skip_ws", "top", "ready", "again", "aborted"} \cap Inside = {}
  /\ "aborted" \notin Loop /\ "aborted" \notin StringLoop
BY DEF Inside, Loop, StringLoop, EscapeDigit

(* Where nothing of an escape is due. *)
Plain == Loop \ ({"escape", "decimal_sign"} \cup DOMAIN EscapeDigit)

LEMMA PlainNames ==
  /\ {"skip_ws", "top", "operator", "word", "zero", "integer", "hex", "octal", "fraction",
      "exponent", "signed", "signed_digits", "unsigned_digits", "malformed",
      "dquote", "squote", "eat_until_ws",
      "slash", "line_comment", "comment", "comment_star", "comment_end"} \subseteq Plain
  /\ Plain \subseteq Loop \ DOMAIN EscapeDigit
  /\ {"ready", "again", "aborted"} \cap (Plain \cup Inside) = {}
BY DEF Plain, Loop, EscapeDigit, Inside

LEMMA DueIs ==
  /\ pc \notin {"escape", "decimal_sign"} \cup DOMAIN EscapeDigit => Due = 0
  /\ pc \in Plain \cup {"search"} => Due = 0
  /\ pc = "escape" => Due = 1
  /\ pc = "decimal_sign" => Due = 2
  /\ pc \in DOMAIN EscapeDigit => Due = Len(tbuf) + 2
BY DEF Due, EscapeDigit, Plain

LEMMA DueNext ==
  /\ pc' \notin {"escape", "decimal_sign"} \cup DOMAIN EscapeDigit => Due' = 0
  /\ pc' \in Plain \cup {"search"} => Due' = 0
  /\ pc' = "escape" => Due' = 1
  /\ pc' = "decimal_sign" => Due' = 2
  /\ pc' \in DOMAIN EscapeDigit => Due' = Len(tbuf') + 2
BY DEF Due, EscapeDigit, Plain

LEMMA DueIsNumber ==
  ASSUME ScanInv
  PROVE  Due \in Nat /\ Len(buffer) \in Nat
BY CharsTypes DEF Due

LEMMA AppendLength ==
  ASSUME NEW c, buffer' = Append(buffer, c), ScanInv
  PROVE  Len(buffer') = Len(buffer) + 1
BY CharsTypes, AppendProperties

(* A step that reads where a lexeme is, or begins one. *)
LEMMA CollectCourse ==
  ASSUME ScanInv, pc \in Inside \cup {"top"}, ~AtEnd, NEW c, NEW next \in Plain, Collect(c, next)
  PROVE  Course
<1>1. CASE Len(buffer) < MaxText /\ buffer' = Append(buffer, c) /\ pc' = next
  <2>1. Len(buffer') = Len(buffer) + 1 /\ Due' = 0
    BY <1>1, AppendLength, DueNext
  <2>2. Len(buffer') \in Nat /\ Len(buffer') + Due' <= Len(buffer) + Due + 1
    BY <2>1, DueIsNumber
  <2> QED  BY <1>1, <2>2, PlainNames DEF Collect, Course, Takes
<1>2. CASE ~(Len(buffer) < MaxText /\ buffer' = Append(buffer, c) /\ pc' = next)
  <2>1. pc' = "aborted" /\ Read /\ Len(buffer) >= MaxText
    BY <1>2 DEF Collect
  <2>2. MaxText <= Len(buffer) + Due
    BY <2>1, DueIsNumber, ScannerAssumption
  <2> QED  BY <2>1, <2>2 DEF Course, Aborts
<1> QED  BY <1>1, <1>2

LEMMA DropCourse ==
  ASSUME ScanInv, NEW next \in Plain \cup {"escape"},
         pc \in Inside \cup {"top"} \/ next \notin Inside, ~AtEnd, Drop(next)
  PROVE  Course
<1>1. buffer' = buffer /\ pc' = next /\ Read
  BY DEF Drop
<1>2. Due' \in {0, 1}
  BY <1>1, DueNext
<1>3. Len(buffer') \in Nat /\ Len(buffer') + Due' <= Len(buffer) + Due + 1
  BY <1>1, <1>2, DueIsNumber
<1>4. pc' # "aborted"
  BY <1>1, PlainNames
<1> QED  BY <1>1, <1>3, <1>4 DEF Course, Takes

(* At the end of a text, a string is still collected. *)
LEMMA StringCourse ==
  ASSUME ScanInv, pc \in StringLoop, NEW c, NEW next \in {"dquote", "squote", "eat_until_ws"},
         Collect(c, next)
  PROVE  Course
<1>1. (Patience' = 3 /\ Patience >= 3) \/ pc' = "aborted"
  <2>1. LabelRank(next) = 3 /\ next \notin {"word", "search"}
    BY RankFacts
  <2>2. Patience \in {3, 4, 5}
    BY RankFacts, PatienceIs DEF StringLoop
  <2> QED  BY <2>1, <2>2, PatienceIs DEF Collect
<1>2. next \in StringLoop /\ next \in Plain /\ pc \in Inside
  BY InsideNames, PlainNames DEF StringLoop
<1>3. CASE ~AtEnd
  BY <1>2, <1>3, CollectCourse
<1>4. CASE AtEnd /\ Len(buffer) < MaxText /\ buffer' = Append(buffer, c) /\ pc' = next
  BY <1>1, <1>2, <1>4 DEF Collect, Course, Fills, StringLoop
<1>5. CASE AtEnd /\ Len(buffer) >= MaxText /\ pc' = "aborted"
  <2>1. MaxText <= Len(buffer) + Due
    BY <1>5, DueIsNumber, ScannerAssumption
  <2> QED  BY <1>2, <1>5, <2>1 DEF Collect, Course, Aborts
<1> QED  BY <1>3, <1>4, <1>5 DEF Collect

(* What is left with what was read put back, or with nothing more to read. *)
LEMMA LeaveCourse ==
  ASSUME ScanInv, pc \notin {"word", "search"}, NEW next \in Plain \ {"word"},
         Drop(next) \/ Leave(next), LabelRank(next) < LabelRank(pc),
         next \notin Inside \/ (pc \in Inside /\ (pc \in StringLoop <=> next \in StringLoop))
  PROVE  Course
<1>1. buffer' = buffer /\ pc' = next /\ (Read \/ PutBack)
  BY DEF Drop, Leave
<1>2. Due' = 0
  BY <1>1, DueNext
<1>3. Len(buffer') \in Nat /\ Len(buffer') >= Len(buffer)
      /\ Len(buffer') + Due' <= Len(buffer) + Due
  BY <1>1, <1>2, DueIsNumber
<1>4. Patience' < Patience
  BY <1>1, PatienceIs, PlainNames, LabelFacts
<1>5. pc' # "aborted"
  BY <1>1, PlainNames
<1> QED  BY <1>1, <1>3, <1>4, <1>5 DEF Course, Falls

(* The bytes of a number. *)
LEMMA BytesCourse ==
  ASSUME ScanInv, NumberStored
  PROVE  Course
<1>1. PICK b \in Seq(Byte) : 1 <= Len(b) /\ Len(b) <= Len(tbuf) + 2 /\ CollectBytes(b)
  BY DEF NumberStored
<1>2. /\ pc \in {"hex_escape", "octal_escape", "decimal_escape"}
      /\ pc \in StringLoop /\ pc \in Inside /\ Due = Len(tbuf) + 2
  BY LoopNames, InsideNames, DueIs DEF NumberStored, StringLoop
<1>3. /\ Len(tbuf) \in Nat /\ Len(buffer) \in Nat /\ Len(b) \in Nat
      /\ Len(buffer \o b) = Len(buffer) + Len(b)
  BY CharsTypes, BytesLength
<1>4. CASE pc' = "dquote" /\ buffer' = buffer \o b
  <2>1. Due' = 0
    BY <1>4, DueNext, PlainNames
  <2>2. /\ Len(buffer') \in Nat /\ Len(buffer') >= Len(buffer)
        /\ Len(buffer') + Due' <= Len(buffer) + Due
        /\ Len(buffer') + Due' <= Len(buffer) + Due + 1
    BY <1>1, <1>2, <1>3, <1>4, <2>1
  <2>3. Patience' < Patience
    BY <1>2, <1>4, PatienceIs, RankFacts
  <2>4. "dquote" \in StringLoop /\ pc' # "aborted"
    BY <1>4 DEF StringLoop
  <2> QED  BY <1>2, <1>4, <2>2, <2>3, <2>4 DEF NumberStored, Course, Falls
<1>5. CASE pc' = "aborted" /\ Len(buffer) + Len(b) > MaxText
  <2>1. MaxText <= Len(buffer) + Due
    BY <1>1, <1>2, <1>3, <1>5, ScannerAssumption
  <2> QED  BY <1>2, <1>5, <2>1 DEF NumberStored, Course, Aborts
<1> QED  BY <1>1, <1>4, <1>5 DEF CollectBytes

LEMMA FinishCourse ==
  ASSUME NEW type, Finish(type) \/ FinishBefore(type),
         type = "ERROR_TOKEN" => pc \in {"signed", "malformed", "eat_until_ws"}
  PROVE  Course
<1>1. CASE type = "ERROR_TOKEN"
  <2>1. pc' = "again" /\ (Read \/ PutBack)
    BY <1>1 DEF Finish, FinishBefore, Return
  <2>2. Patience' = 2 /\ Patience = 3
    BY <1>1, <2>1, PatienceIs, RankFacts
  <2> QED  BY <2>1, <2>2, InsideNames DEF Course, Falls
<1>2. CASE type # "ERROR_TOKEN"
  BY <1>2 DEF Finish, FinishBefore, Return, Course
<1> QED  BY <1>1, <1>2

LEMMA OperatorsAreNoErrors ==
  /\ "ERROR_TOKEN" \notin PendingOperator
  /\ \A c \in DOMAIN SingleOperator : SingleOperator[c] # "ERROR_TOKEN"
  /\ \A p \in DOMAIN DoubleOperator : DoubleOperator[p] # "ERROR_TOKEN"
BY DEF PendingOperator, SingleOperator, OpenOperator, DoubleOperator

LEMMA NoEnds ==
  /\ (Space \cup DOMAIN SingleOperator \cup DOMAIN OpenOperator
        \cup {"@", "\\", "control", "NUL", "dquote", "squote", "/", "*", "newline", "x", "d", "0"})
     \cap Ends = {}
  /\ \A k \in DOMAIN EscapeDigit : EscapeDigit[k] \cap Ends = {}
BY DEF Space, SingleOperator, OpenOperator, EscapeDigit, Digit, OctalDigit, HexDigit, Ends

LEMMA TopCourse ==
  ASSUME ScanInv, SkipWs \/ EndOfFile \/ EndOfInput \/ Opening \/ Operator \/ Unknown
  PROVE  Course
<1> USE LoopNames, PlainNames DEF At
<1>0. AtEnd => Ch \in Ends
  BY EndFacts DEF ScanInv
<1>1. CASE SkipWs
  <2>1. CASE Ch \in Space /\ Drop("skip_ws")
    BY <1>0, <2>1, NoEnds, InsideNames, DropCourse
  <2>2. CASE Leave("top")
    BY <1>1, <2>2, InsideNames, RankFacts, LeaveCourse DEF SkipWs
  <2>3. CASE FinishBefore("SLASH_TOKEN")
    BY <2>3, FinishCourse
  <2> QED  BY <1>1, <2>1, <2>2, <2>3 DEF SkipWs
<1>2. CASE EndOfFile
  BY <1>2 DEF EndOfFile, Return, Course
<1>3. CASE EndOfInput
  BY <1>3, FinishCourse DEF EndOfInput
<1>4. CASE Opening
  <2>1. pc \in Inside \cup {"top"} /\ ~AtEnd
    BY <1>0, <1>4, NoEnds, ClassesHaveNoEnds DEF Opening
  <2>2. CASE \E next \in Plain : Drop(next)
    BY <2>1, <2>2, DropCourse
  <2>3. CASE \E c : \E next \in Plain : Collect(c, next)
    BY <2>1, <2>3, CollectCourse
  <2> QED  BY <1>4, <2>2, <2>3 DEF Opening
<1>5. CASE Operator
  <2>1. CASE Ch \in DOMAIN SingleOperator /\ Finish(SingleOperator[Ch])
    BY <2>1, FinishCourse, OperatorsAreNoErrors
  <2>2. CASE Ch \in DOMAIN OpenOperator /\ Read /\ buffer' = buffer /\ pc' = "operator"
    <3>1. ~AtEnd /\ pc = "top"
      BY <1>0, <1>5, <2>2, NoEnds DEF Operator
    <3>2. Due' = 0
      BY <2>2, DueNext
    <3>3. Len(buffer') \in Nat /\ Len(buffer') + Due' <= Len(buffer) + Due + 1
      BY <2>2, <3>2, DueIsNumber
    <3> QED  BY <2>2, <3>1, <3>3 DEF Course, Takes
  <2> QED  BY <1>5, <2>1, <2>2 DEF Operator
<1>6. CASE Unknown
  BY <1>0, <1>6, NoEnds, InsideNames, DropCourse DEF Unknown
<1> QED  BY <1>1, <1>2, <1>3, <1>4, <1>5, <1>6

LEMMA NumberCourse ==
  ASSUME ScanInv,
         SecondOfOperator \/ Zero \/ Integer \/ Hex \/ Octal \/ Fraction \/ Exponent \/ Malformed
  PROVE  Course
<1> USE LoopNames, PlainNames DEF At
<1>0. AtEnd => Ch \in Ends
  BY EndFacts DEF ScanInv
<1>1. CASE SecondOfOperator
  <2>1. operator # "ERROR_TOKEN"
    BY CharsTypes, OperatorsAreNoErrors
  <2> QED  BY <1>1, <2>1, FinishCourse, OperatorsAreNoErrors DEF SecondOfOperator
<1>3. ASSUME pc \in Inside, ~AtEnd,
             (\E c : \E next \in Plain : Collect(c, next)) \/ (\E next \in Plain : Drop(next))
      PROVE  Course
  BY <1>3, CollectCourse, DropCourse
<1>4. CASE Zero
  <2>1. pc \in Inside
    BY <1>4, InsideNames DEF Zero
  <2>2. CASE Ch \in Digit \cup {"x", "."}
    <3>1. ~AtEnd
      BY <1>0, <2>2, ClassesHaveNoEnds
    <3>2. (\E c : \E next \in Plain : Collect(c, next)) \/ (\E next \in Plain : Drop(next))
      BY <1>4, <2>2 DEF Zero
    <3> QED  BY <1>3, <2>1, <3>1, <3>2
  <2>3. CASE FinishBefore("INUM_TOKEN")
    BY <2>3, FinishCourse
  <2> QED  BY <1>4, <2>2, <2>3 DEF Zero, Digit
<1>5. CASE Integer
  <2>1. pc \in Inside
    BY <1>5, InsideNames DEF Integer
  <2>2. CASE Ch \in Digit \cup {"."}
    BY <1>0, <1>3, <1>5, <2>1, <2>2, ClassesHaveNoEnds DEF Integer
  <2>3. CASE FinishBefore("INUM_TOKEN")
    BY <2>3, FinishCourse
  <2> QED  BY <1>5, <2>2, <2>3 DEF Integer
<1>6. CASE Hex
  <2>1. pc \in Inside
    BY <1>6, InsideNames DEF Hex
  <2>2. CASE Ch \in HexDigit
    BY <1>0, <1>3, <1>6, <2>1, <2>2, ClassesHaveNoEnds DEF Hex
  <2>3. CASE Finish("UNUM_TOKEN")
    BY <2>3, FinishCourse
  <2> QED  BY <1>6, <2>2, <2>3 DEF Hex
<1>7. CASE Octal
  <2>1. pc \in Inside
    BY <1>7, InsideNames DEF Octal
  <2>2. CASE Ch \in Digit
    BY <1>0, <1>3, <1>7, <2>1, <2>2, ClassesHaveNoEnds DEF Octal
  <2>3. CASE Finish("ONUM_TOKEN")
    BY <2>3, FinishCourse
  <2> QED  BY <1>7, <2>2, <2>3 DEF Octal, Digit
<1>8. CASE Fraction
  <2>1. pc \in Inside
    BY <1>8, InsideNames DEF Fraction
  <2>2. CASE Ch \in Digit \cup {"e"}
    BY <1>0, <1>3, <1>8, <2>1, <2>2, ClassesHaveNoEnds DEF Fraction
  <2>3. CASE FinishBefore("FNUM_TOKEN")
    BY <2>3, FinishCourse
  <2> QED  BY <1>8, <2>2, <2>3 DEF Fraction
<1>9. CASE Exponent
  <2>1. pc \in {"exponent", "signed", "signed_digits", "unsigned_digits"} /\ pc \in Inside
    BY <1>9, InsideNames DEF Exponent
  <2>2. CASE Ch \in Digit \cup Sign /\ \E c : \E next \in Plain : Collect(c, next)
    BY <1>0, <1>3, <2>1, <2>2, ClassesHaveNoEnds
  <2>3. CASE pc = "exponent" /\ Drop("malformed")
    BY <2>1, <2>3, InsideNames, RankFacts, LeaveCourse
  <2>4. CASE pc = "signed" /\ FinishBefore("ERROR_TOKEN")
    BY <2>4, FinishCourse
  <2>5. CASE Finish("FNUM_TOKEN") \/ FinishBefore("FNUM_TOKEN")
    BY <2>5, FinishCourse
  <2> QED  BY <1>9, <2>2, <2>3, <2>4, <2>5 DEF Exponent
<1>10. CASE Malformed
  <2>1. pc \in Inside
    BY <1>10, InsideNames DEF Malformed
  <2>2. CASE Ch \in Digit
    BY <1>0, <1>3, <1>10, <2>1, <2>2, ClassesHaveNoEnds DEF Malformed
  <2>3. CASE pc = "malformed" /\ FinishBefore("ERROR_TOKEN")
    BY <2>3, FinishCourse
  <2> QED  BY <1>10, <2>2, <2>3 DEF Malformed
<1> QED  BY <1>1, <1>4, <1>5, <1>6, <1>7, <1>8, <1>9, <1>10

LEMMA StringsCourse ==
  ASSUME ScanInv, InString \/ EatUntilWs \/ Escape \/ DecimalSign \/ NumberEscape
  PROVE  Course
<1> USE LoopNames, PlainNames DEF At
<1>0. AtEnd => Ch \in Ends
  BY EndFacts DEF ScanInv
<1>1. CASE InString
  <2>1. pc \in {"dquote", "squote"} /\ pc \in StringLoop /\ pc \in Inside
    BY <1>1, InsideNames DEF InString, StringLoop
  <2>2. CASE Ch \in {"\\", "newline"} /\ \E next \in Plain \cup {"escape"} : Drop(next)
    BY <1>0, <2>1, <2>2, NoEnds, DropCourse
  <2>3. CASE Finish("QSTRG_TOKEN")
    BY <2>3, FinishCourse
  <2>4. CASE \E next \in {"dquote", "squote", "eat_until_ws"} : Collect(Ch, next)
    BY <2>1, <2>4, StringCourse
  <2> QED  BY <1>1, <2>2, <2>3, <2>4 DEF InString
<1>2. CASE EatUntilWs
  <2>1. pc = "eat_until_ws" /\ pc \in StringLoop
    BY <1>2 DEF EatUntilWs, StringLoop
  <2>2. CASE FinishBefore("ERROR_TOKEN")
    BY <2>1, <2>2, FinishCourse
  <2>3. CASE Collect(Ch, "eat_until_ws")
    BY <2>1, <2>3, StringCourse
  <2> QED  BY <1>2, <2>2, <2>3 DEF EatUntilWs
<1>3. CASE Escape
  <2>1. pc \in StringLoop /\ pc \in Inside
    BY <1>3, InsideNames DEF Escape, StringLoop
  <2>2. CASE /\ Ch \in DOMAIN EscapeStart /\ Read /\ buffer' = buffer
             /\ pc' = EscapeStart[Ch]
    <3>1. ~AtEnd
      BY <1>0, <2>2, NoEnds, ClassesHaveNoEnds DEF EscapeStart
    <3>2. EscapeStart[Ch] \in {"hex_escape", "octal_escape", "decimal_sign"}
      BY <2>2 DEF EscapeStart
    <3>3. Due = 1 /\ Due' = 2
      <4>1. pc = "escape"
        BY <1>3 DEF Escape
      <4>2. tbuf' = << >> /\ Len(<< >>) = 0
        BY <1>3, <2>2, EmptySeq DEF Escape
      <4> QED  BY <2>2, <3>2, <4>1, <4>2, DueIs, DueNext
    <3>4. Len(buffer') \in Nat /\ Len(buffer') + Due' <= Len(buffer) + Due + 1
      BY <2>2, <3>3, DueIsNumber
    <3>5. pc' # "aborted"
      BY <2>2, <3>2
    <3> QED  BY <2>1, <2>2, <3>1, <3>4, <3>5 DEF Course, Takes
  <2>3. CASE Collect(Unescaped(Ch), "dquote")
    BY <2>1, <2>3, StringCourse
  <2> QED  BY <1>3, <2>2, <2>3 DEF Escape
<1>4. CASE DecimalSign
  <2>1. /\ pc = "decimal_sign" /\ pc' = "decimal_escape" /\ Read /\ buffer' = buffer
        /\ pc \in StringLoop /\ pc' \in StringLoop /\ pc \in Inside
    BY <1>4, InsideNames DEF DecimalSign, StringLoop
  <2>2. Patience = 5 /\ Patience' = 4
    BY <2>1, PatienceIs, RankFacts
  <2>3. Due = 2 /\ Due' = Len(tbuf') + 2
    BY <2>1, DueIs, DueNext
  <2>4. CASE AtEnd
    <3>1. Ch \notin Sign
      BY <1>0, <2>4, ClassesHaveNoEnds
    <3>2. Len(tbuf') = 0
      BY <1>4, <3>1, EmptySeq DEF DecimalSign
    <3>3. /\ Len(buffer') \in Nat /\ Len(buffer') >= Len(buffer)
          /\ Len(buffer') + Due' <= Len(buffer) + Due
      BY <2>1, <2>3, <3>2, DueIsNumber
    <3> QED  BY <2>1, <2>2, <3>3 DEF Course, Falls
  <2>5. CASE ~AtEnd
    <3>1. Len(tbuf') \in Nat /\ Len(tbuf') <= 1
      BY <1>4, EmptySeq DEF DecimalSign
    <3>2. Len(buffer') \in Nat /\ Len(buffer') + Due' <= Len(buffer) + Due + 1
      BY <2>1, <2>3, <3>1, DueIsNumber
    <3> QED  BY <2>1, <2>5, <3>2 DEF Course, Takes
  <2> QED  BY <2>4, <2>5
<1>5. CASE NumberEscape
  <2>1. pc \in {"hex_escape", "octal_escape", "decimal_escape"} /\ pc \in StringLoop /\ pc \in Inside
    BY <1>5, LoopNames, InsideNames DEF NumberEscape, StringLoop
  <2>2. CASE /\ Ch \in EscapeDigit[pc] /\ Read /\ buffer' = buffer /\ pc' = pc
             /\ tbuf' = Append(tbuf, Ch)
    <3>1. ~AtEnd
      BY <1>0, <1>5, <2>2, NoEnds DEF NumberEscape
    <3>2. Len(tbuf') = Len(tbuf) + 1 /\ Len(tbuf) \in Nat
      BY <2>2, CharsTypes, ChIsStored, StoredAppend
    <3>3. Due = Len(tbuf) + 2 /\ Due' = Len(tbuf') + 2
      BY <2>1, <2>2, DueIs, DueNext
    <3>4. Len(buffer') \in Nat /\ Len(buffer') + Due' <= Len(buffer) + Due + 1
      BY <2>2, <3>2, <3>3, DueIsNumber
    <3> QED  BY <2>1, <2>2, <3>1, <3>4 DEF Course, Takes
  <2>3. CASE NumberStored
    BY <2>3, BytesCourse
  <2>4. CASE Leave("dquote")
    <3>1. "dquote" \in StringLoop /\ LabelRank("dquote") < LabelRank(pc)
      BY <2>1, RankFacts DEF StringLoop
    <3> QED  BY <2>1, <2>4, <3>1, LeaveCourse
  <2> QED  BY <1>5, <2>1, <2>2, <2>3, <2>4, EscapeStores DEF NumberEscape
<1> QED  BY <1>1, <1>2, <1>3, <1>4, <1>5

LEMMA CommentCourse ==
  ASSUME ScanInv, Slash \/ LineComment \/ Comment,
         pc \in {"line_comment", "comment", "comment_star"} => Reading # << >>
  PROVE  Course
<1> USE LoopNames, PlainNames DEF At
<1>0. AtEnd => Ch \in Ends
  BY EndFacts DEF ScanInv
<1>1. CASE Slash
  <2>1. pc = "slash" /\ pc \in Inside
    BY <1>1, InsideNames DEF Slash
  <2>2. CASE Ch \in {"/", "*"} /\ Read /\ buffer' = buffer /\ pc' \in Plain
    <3>1. ~AtEnd
      BY <1>0, <2>2, NoEnds
    <3>2. Due' = 0
      BY <2>2, DueNext
    <3>3. Len(buffer') \in Nat /\ Len(buffer') + Due' <= Len(buffer) + Due + 1
      BY <2>2, <3>2, DueIsNumber
    <3> QED  BY <2>1, <2>2, <3>1, <3>3 DEF Course, Takes
  <2>3. CASE PutBack /\ pc' = "skip_ws"
    <3>1. Patience = 2 /\ Patience' = 1
      BY <2>1, <2>3, PatienceIs, RankFacts
    <3> QED  BY <2>3, <3>1, InsideNames DEF Course, Falls
  <2> QED  BY <1>1, <2>2, <2>3 DEF Slash, Drop
<1>2. CASE LineComment
  <2>1. pc = "line_comment" /\ pc \in Inside
    BY <1>2, InsideNames DEF LineComment
  <2>2. CASE Leave("skip_ws")
    BY <2>1, <2>2, InsideNames, RankFacts, LeaveCourse
  <2>3. CASE Ch # "END_FILE" /\ Drop("line_comment")
    <3>1. ~AtEnd
      BY <2>1, <2>3, EndFacts DEF ScanInv
    <3> QED  BY <2>1, <2>3, <3>1, DropCourse
  <2> QED  BY <1>2, <2>2, <2>3 DEF LineComment
<1>3. CASE Comment
  <2>1. pc \in {"comment", "comment_star", "comment_end"} /\ pc \in Inside
    BY <1>3, InsideNames DEF Comment
  <2>2. CASE ~AtEnd /\ \E next \in Plain : Drop(next)
    BY <2>1, <2>2, DropCourse
  <2>3. CASE AtEnd /\ pc \in {"comment", "comment_star"} /\ Drop("comment")
    BY <2>3 DEF Drop, Course, Hangs
  <2>4. CASE pc = "comment_end" /\ Leave("skip_ws")
    BY <2>4, InsideNames, RankFacts, LeaveCourse
  <2> QED  BY <1>0, <1>3, <2>2, <2>3, <2>4, NoEnds DEF Comment
<1> QED  BY <1>1, <1>2, <1>3

(* The search comes closer to its end. *)
LEMMA SearchCloses ==
  ASSUME SearchTypeOK, SearchStep
  PROVE  SearchLeft \in Nat /\ SearchLeft' \in Nat /\ SearchLeft' < SearchLeft
<1>1. searching /\ first \in Nat /\ last \in Int
  BY TableFacts DEF SearchStep, SearchAbove, SearchBelow, SearchFound, SearchFails, SearchTypeOK
<1>2. first <= last => mid \in Int /\ first <= mid /\ mid <= last
  BY <1>1, MiddleFacts
<1>3. CASE SearchAbove
  BY <1>1, <1>2, <1>3 DEF SearchAbove, SearchLeft
<1>4. CASE SearchBelow
  BY <1>1, <1>2, <1>4 DEF SearchBelow, SearchLeft
<1>5. CASE SearchFound
  BY <1>1, <1>5 DEF SearchFound, SearchLeft
<1>6. CASE SearchFails
  BY <1>1, <1>6 DEF SearchFails, SearchLeft
<1> QED  BY <1>3, <1>4, <1>5, <1>6 DEF SearchStep

LEMMA WordCourse ==
  ASSUME ScanInv, Word \/ Search \/ WordEnd \/ (At("again") /\ GetTok)
  PROVE  Course
<1> USE LoopNames, PlainNames DEF At
<1>0. AtEnd => Ch \in Ends
  BY EndFacts DEF ScanInv
<1>1. CASE Word
  <2>1. pc = "word" /\ pc \in Inside
    BY <1>1, InsideNames DEF Word
  <2>2. CASE Ch \in WordChar /\ Collect(Ch, "word")
    BY <1>0, <2>1, <2>2, ClassesHaveNoEnds, CollectCourse
  <2>3. CASE PutBack /\ StrToToken(Rank(buffer)) /\ pc' = "search" /\ buffer' = buffer
    <3>1. Patience = Len(token_map) + 6 /\ Patience' = SearchLeft' + 3
      BY <2>1, <2>3 DEF Patience
    <3>2. SearchLeft' <= Len(token_map) + 1
      BY <2>3, TableFacts DEF StrToToken, SearchLeft
    <3>3. SearchLeft' \in Nat
      BY <2>3, TableFacts DEF StrToToken, SearchLeft
    <3>4. Patience' < Patience
      BY <3>1, <3>2, <3>3, TableFacts
    <3>5. Due = 0 /\ Due' = 0
      BY <2>1, <2>3, DueIs, DueNext
    <3>6. /\ Len(buffer') \in Nat /\ Len(buffer') >= Len(buffer)
          /\ Len(buffer') + Due' <= Len(buffer) + Due
      BY <2>3, <3>5, DueIsNumber
    <3> QED  BY <2>1, <2>3, <3>4, <3>6, InsideNames DEF Course, Falls
  <2> QED  BY <1>1, <2>2, <2>3 DEF Word
<1>2. CASE Search
  <2>1. pc = "search" /\ pc' = "search" /\ buffer' = buffer /\ UNCHANGED <<streams, file_flag>>
        /\ SearchStep
    BY <1>2 DEF Search, scanVars
  <2>2. Patience = SearchLeft + 3 /\ Patience' = SearchLeft' + 3
    BY <2>1 DEF Patience
  <2>3. SearchLeft \in Nat /\ SearchLeft' \in Nat /\ SearchLeft' < SearchLeft
    BY <2>1, SearchCloses DEF ScanInv, ControlInv, SearchInv
  <2> DEFINE a == SearchLeft
             b == SearchLeft'
  <2> HIDE DEF a, b
  <2>4. a \in Nat /\ b \in Nat /\ b < a
    BY <2>3 DEF a, b
  <2>5. b + 3 < a + 3
    BY <2>4
  <2>6. Due = 0 /\ Due' = 0
    BY <2>1, DueIs, DueNext
  <2>7. /\ Len(buffer') \in Nat /\ Len(buffer') >= Len(buffer)
        /\ Len(buffer') + Due' <= Len(buffer) + Due
    BY <2>1, <2>6, DueIsNumber
  <2>8. Falls
    BY <2>1, <2>2, <2>5, <2>7, InsideNames DEF Falls, a, b
  <2> QED  BY <2>8 DEF Course
<1>3. CASE WordEnd
  <2>1. pc = "search" /\ ~searching /\ pc' \in {"ready", "again"} /\ UNCHANGED <<streams, file_flag>>
    BY <1>3 DEF WordEnd, Return
  <2>2. CASE pc' = "again"
    <3>1. Patience = 3 /\ Patience' = 2
      BY <2>1, <2>2, PatienceIs, RankFacts DEF Patience, SearchLeft
    <3> QED  BY <2>1, <2>2, <3>1, InsideNames DEF Course, Falls
  <2> QED  BY <2>1, <2>2 DEF Course
<1>4. CASE pc = "again" /\ GetTok
  <2>1. pc = "again" /\ pc' = "skip_ws" /\ UNCHANGED <<streams, file_flag>>
    BY <1>4 DEF GetTok
  <2>2. Patience = 2 /\ Patience' = 1
    BY <2>1, PatienceIs, RankFacts
  <2> QED  BY <2>1, <2>2, InsideNames DEF Course, Falls
<1> QED  BY <1>1, <1>2, <1>3, <1>4

-----------------------------------------------------------------------------
(* Where a lexeme is read, a stream is open, and it has more characters    *)
(* behind it than the buffer holds and an escape will add to it: but for a *)
(* string at the end of a text.                                            *)
Within ==
  pc \in Inside =>
    /\ streams # << >> /\ ~file_flag
    /\ \/ Len(buffer) + Due < streams[1].pos
       \/ pc \in StringLoop /\ streams[1].pos > Len(streams[1].text)

LEMMA StepCourse ==
  ASSUME ScanInv, Within, ScanStep
  PROVE  Course
<1>1. pc \in {"line_comment", "comment", "comment_star"} => Reading # << >>
  BY InsideNames DEF Within, Reading
<1> QED  BY <1>1, TopCourse, NumberCourse, StringsCourse, CommentCourse, WordCourse DEF ScanStep

(* What is read from where a lexeme is. *)
LEMMA WithinReading ==
  ASSUME ScanInv, Within, pc \in Inside
  PROVE  Reading = streams /\ Reading # << >>
         /\ Reading[1].pos \in Nat /\ Len(Reading[1].text) \in Nat
         /\ Len(buffer) \in Nat /\ Due \in Nat
<1>1. Reading = streams /\ Reading # << >>
  BY DEF Within, Reading
<1>2. Len(buffer) \in Nat /\ Due \in Nat
  BY DueIsNumber
<1> QED  BY <1>1, <1>2, EndFacts DEF ScanInv

(* In the loop of get_tok(), nothing was stored.                           *)
LEMMA NothingAtTop ==
  ASSUME LexemeInv, pc = "top"
  PROVE  Len(buffer) + Due = 0
<1>1. Len(buffer) = 0 /\ Due = 0
  BY EmptySeq, DueIs, PlainNames DEF LexemeInv, Fresh
<1> QED  BY <1>1

LEMMA CourseKeepsWithin ==
  ASSUME ScanInv, ScanInv', Within, LexemeInv, Course
  PROVE  Within'
<1> SUFFICES ASSUME pc' \in Inside
             PROVE  /\ streams' # << >> /\ ~file_flag'
                    /\ \/ Len(buffer') + Due' < streams'[1].pos
                       \/ pc' \in StringLoop /\ streams'[1].pos > Len(streams'[1].text)
  BY DEF Within
<1>1. StreamsInv
  BY DEF ScanInv
<1>2. pc' # "ready" /\ pc' # "aborted"
  BY InsideNames
<1>0. Due \in Nat /\ Due' \in Nat
  <2>1. Due \in Nat
    BY DueIsNumber
  <2>2. Len(tbuf') \in Nat
    BY LenProperties DEF ScanInv, CharsInv
  <2>3. Due' \in Nat
    BY <2>2 DEF Due
  <2> QED  BY <2>1, <2>3
<1>3. CASE Takes
  <2> DEFINE p == Reading[1].pos
             n == Len(buffer) + Due
  <2>1. pc \in Inside \cup {"top"} /\ Read /\ ~AtEnd
    BY <1>3 DEF Takes
  <2>2. Reading # << >> /\ p \in Nat \ {0} /\ n \in Nat
    BY <1>1, <2>1, EndFacts, DueIsNumber DEF AtEnd
  <2>3. streams' # << >> /\ ~file_flag' /\ streams'[1].pos = p + 1
    BY <1>1, <2>1, <2>2, CharsRead
  <2>4. n < p
    <3>1. CASE pc \in Inside
      <4>1. Reading = streams
        BY <3>1, WithinReading
      <4> QED  BY <2>1, <2>2, <3>1, <4>1 DEF Within, AtEnd
    <3>2. CASE pc = "top"
      <4>1. n = 0
        BY <3>2, NothingAtTop
      <4> QED  BY <2>2, <4>1
    <3> QED  BY <2>1, <3>1, <3>2
  <2>5. Len(buffer') \in Nat /\ Len(buffer') + Due' <= n + 1
    BY <1>3 DEF Takes
  <2> HIDE DEF p, n
  <2>6. Len(buffer') + Due' < p + 1
    BY <1>0, <2>2, <2>4, <2>5
  <2> QED  BY <2>3, <2>6
<1>4. CASE Falls
  <2> DEFINE m == Len(buffer') + Due'
             n == Len(buffer) + Due
  <2>1. pc \in Inside /\ (pc \in StringLoop <=> pc' \in StringLoop)
    BY <1>4 DEF Falls
  <2>2. m \in Nat /\ n \in Nat /\ m <= n
    BY <1>0, <1>4, DueIsNumber DEF Falls
  <2>3. Reading = streams /\ Reading # << >> /\ Reading[1].pos \in Nat
        /\ Len(Reading[1].text) \in Nat
    BY <2>1, WithinReading
  <2>4. streams # << >> /\ ~file_flag
        /\ (n < streams[1].pos \/ (pc \in StringLoop /\ streams[1].pos > Len(streams[1].text)))
    BY <2>1 DEF Within
  <2> HIDE DEF m, n
  <2>5. /\ streams' # << >> /\ ~file_flag' /\ streams'[1].pos >= streams[1].pos
        /\ streams'[1].text = streams[1].text /\ streams'[1].pos \in Nat
    <3>1. CASE UNCHANGED <<streams, file_flag>>
      BY <2>3, <2>4, <3>1
    <3>2. CASE Read \/ PutBack
      <4>1. /\ streams' # << >> /\ ~file_flag' /\ streams'[1].pos >= streams[1].pos
            /\ streams'[1].text = streams[1].text
        BY <1>1, <2>3, <3>2, CharsRead
      <4>2. streams' \in Seq(Stream)
        BY <1>1, <3>2, ReadMoves DEF Moved
      <4>3. streams'[1] \in Stream
        BY <4>1, <4>2, EmptySeq, ElementOfSeq, LenProperties
      <4> QED  BY <4>1, <4>3, StreamFacts
    <3> QED  BY <1>4, <3>1, <3>2 DEF Falls
  <2>6. m < streams'[1].pos
        \/ (pc' \in StringLoop /\ streams'[1].pos > Len(streams'[1].text))
    BY <2>1, <2>2, <2>3, <2>4, <2>5
  <2> QED  BY <2>5, <2>6 DEF m
<1>5. CASE Fills
  <2>1. Read /\ AtEnd /\ pc \in Inside /\ pc' \in StringLoop
    BY <1>5, InsideNames DEF Fills
  <2>2. Reading # << >>
    BY <2>1, WithinReading
  <2> QED  BY <1>1, <2>1, <2>2, CharsRead
<1>6. CASE Hangs
  <2>1. Read /\ pc \in Inside /\ pc \notin StringLoop /\ buffer' = buffer /\ Due = 0 /\ Due' = 0
    BY <1>6, InsideNames, PlainNames, DueIs, DueNext DEF Hangs
  <2>2. Reading = streams /\ Reading # << >> /\ Reading[1].pos \in Nat /\ Len(buffer) \in Nat
    BY <2>1, WithinReading
  <2>3. streams' # << >> /\ ~file_flag' /\ streams'[1].pos >= streams[1].pos
    BY <1>1, <2>1, <2>2, CharsRead
  <2>4. streams'[1].pos \in Nat
    <3>1. streams' \in Seq(Stream)
      BY <1>1, <2>1, ReadMoves DEF Moved
    <3>2. streams'[1] \in Stream
      BY <2>3, <3>1, EmptySeq, ElementOfSeq, LenProperties
    <3> QED  BY <3>2, StreamFacts
  <2> QED  BY <2>1, <2>2, <2>3, <2>4 DEF Within
<1> QED  BY <1>2, <1>3, <1>4, <1>5, <1>6 DEF Course, Aborts

-----------------------------------------------------------------------------
(* The parts of the measure are within bounds. *)
LEMMA MeasureBounds ==
  ASSUME ScanInv
  PROVE  /\ CharsLeft \in Nat
         /\ Room \in 0 .. MaxText
         /\ Patience \in 0 .. Len(token_map) + 6
<1>1. CharsLeft \in Nat
  BY EndFacts DEF ScanInv
<1>2. Room \in 0 .. MaxText
  <2>1. Len(buffer) \in Nat /\ Len(buffer) <= MaxText
    BY LenProperties DEF ScanInv, CharsInv
  <2> QED  BY <2>1, ScannerAssumption DEF Room
<1>3. SearchLeft \in 0 .. Len(token_map) + 1
  BY TableFacts DEF ScanInv, ControlInv, SearchInv, SearchTypeOK, SearchLeft
<1>4. LabelRank(pc) \in 0 .. 5
  BY RankFacts
<1> DEFINE a == SearchLeft
           b == LabelRank(pc)
<1> HIDE DEF a, b
<1>5. a + 3 \in 0 .. Len(token_map) + 6 /\ b \in 0 .. Len(token_map) + 6
      /\ Len(token_map) + 6 \in 0 .. Len(token_map) + 6
  BY <1>3, <1>4, TableFacts DEF a, b
<1>6. Patience \in {Len(token_map) + 6, a + 3, b}
  BY DEF Patience, a, b
<1> QED  BY <1>1, <1>2, <1>5, <1>6

LEMMA MeasureBoundsNext ==
  ScanInv' => /\ CharsLeft' \in Nat
              /\ Room' \in 0 .. MaxText
              /\ Patience' \in 0 .. Len(token_map) + 6
<1> DEFINE Bounds == /\ CharsLeft \in Nat
                     /\ Room \in 0 .. MaxText
                     /\ Patience \in 0 .. Len(token_map) + 6
<1>1. ScanInv => Bounds
  BY MeasureBounds
<1>2. ScanInv' => Bounds'
  <2> HIDE DEF Bounds
  <2> QED  BY <1>1, PTL
<1> QED  BY <1>2

LEMMA Products ==
  ASSUME NEW k \in Nat, NEW c \in Nat, NEW d \in Nat
  PROVE  /\ k * c \in Nat
         /\ d = c - 1 => k * c = k * d + k
         /\ d <= c => k * d <= k * c
<1>1. k * c \in Nat /\ k * d \in Nat
  OBVIOUS
<1>2. d = c - 1 => k * c = k * d + k
  OBVIOUS
<1>3. d <= c => k * d <= k * c
  OBVIOUS
<1> QED  BY <1>1, <1>2, <1>3

(* The measure of a step: k characters' worth of what is left to read.     *)
LEMMA Sums ==
  ASSUME NEW m \in Nat, NEW l \in Nat,
         NEW c \in Nat, NEW d \in Nat, NEW r \in 0 .. m, NEW s \in 0 .. m,
         NEW p \in 0 .. l + 6, NEW q \in 0 .. l + 6,
         \/ d = c - 1
         \/ d <= c /\ s <= r /\ q < p
         \/ d <= c /\ s < r /\ q <= p
  PROVE  /\ (m + l + 7) * c + r + p \in Nat
         /\ (m + l + 7) * d + s + q \in Nat
         /\ (m + l + 7) * d + s + q < (m + l + 7) * c + r + p
<1> DEFINE k == m + l + 7
           x == k * c
           y == k * d
<1>1. k \in Nat /\ r \in Nat /\ s \in Nat /\ p \in Nat /\ q \in Nat /\ s + q < k
  OBVIOUS
<1>2. x \in Nat /\ y \in Nat /\ (d = c - 1 => x = y + k) /\ (d <= c => y <= x)
  <2> HIDE DEF k
  <2> QED  BY <1>1, Products
<1> HIDE DEF k, x, y
<1>3. x + r + p \in Nat /\ y + s + q \in Nat /\ y + s + q < x + r + p
  <2>1. CASE d = c - 1
    BY <1>1, <1>2, <2>1
  <2>2. CASE d <= c /\ s <= r /\ q < p
    BY <1>1, <1>2, <2>2
  <2>3. CASE d <= c /\ s < r /\ q <= p
    BY <1>1, <1>2, <2>3
  <2> QED  BY <2>1, <2>2, <2>3
<1> QED  BY <1>3 DEF k, x, y

LEMMA CourseAdvances ==
  ASSUME ScanInv, ScanInv', Within, Course
  PROVE  \/ pc' = "ready"
         \/ pc' = "aborted"
         \/ InOpenComment
         \/ Effort \in Nat /\ Effort' \in Nat /\ Effort' < Effort
<1>1. StreamsInv
  BY DEF ScanInv
<1>2. CASE Hangs
  <2>1. pc \in {"comment", "comment_star"} /\ pc \in Inside /\ AtEnd
    BY <1>2, InsideNames DEF Hangs
  <2>2. Reading = streams /\ Reading # << >>
    BY <2>1, WithinReading
  <2> QED  BY <2>1, <2>2 DEF AtEnd, InOpenComment
<1>3. CASE Takes \/ Falls \/ Fills
  <2>1. \/ CharsLeft' = CharsLeft - 1
        \/ CharsLeft' <= CharsLeft /\ Room' <= Room /\ Patience' < Patience
        \/ CharsLeft' <= CharsLeft /\ Room' < Room /\ Patience' <= Patience
    <3>1. CASE Takes
      BY <1>1, <3>1, CharsRead DEF Takes
    <3>2. CASE Falls
      <4>1. CharsLeft' <= CharsLeft
        <5>1. CASE Read \/ PutBack
          BY <1>1, <5>1, CharsRead
        <5>2. CASE UNCHANGED <<streams, file_flag>>
          <6>1. CharsLeft' = CharsLeft
            BY <5>2 DEF CharsLeft, Reading
          <6> QED  BY <6>1, MeasureBounds
        <5> QED  BY <3>2, <5>1, <5>2 DEF Falls
      <4>2. Room' <= Room
        <5>1. CASE pc' \in StringLoop
          <6>1. /\ pc \in StringLoop /\ Len(buffer') \in Nat /\ Len(buffer) \in Nat
                /\ Len(buffer') >= Len(buffer)
            BY <3>2, <5>1, InsideNames, DueIsNumber DEF Falls
          <6>2. Room = MaxText - Len(buffer) /\ Room' = MaxText - Len(buffer')
            BY <5>1, <6>1 DEF Room
          <6> QED  BY <6>1, <6>2, ScannerAssumption
        <5>2. CASE pc' \notin StringLoop
          <6>1. Room' = 0
            BY <5>2 DEF Room
          <6> QED  BY <6>1, MeasureBounds, ScannerAssumption
        <5> QED  BY <5>1, <5>2
      <4> QED  BY <3>2, <4>1, <4>2 DEF Falls
    <3>3. CASE Fills
      <4>1. CharsLeft' <= CharsLeft
        BY <1>1, <3>3, CharsRead DEF Fills
      <4>2. Len(buffer') = Len(buffer) + 1
        BY <3>3, AppendLength DEF Fills
      <4>3. Room = MaxText - Len(buffer) /\ Room' = MaxText - (Len(buffer) + 1)
        BY <3>3, <4>2 DEF Fills, Room
      <4>4. Len(buffer) \in Nat
        BY CharsTypes, LenProperties
      <4>5. Room' < Room
        BY <4>3, <4>4, ScannerAssumption
      <4> QED  BY <3>3, <4>1, <4>5 DEF Fills
    <3> QED  BY <1>3, <3>1, <3>2, <3>3
  <2>2. /\ CharsLeft \in Nat /\ Room \in 0 .. MaxText /\ Patience \in 0 .. Len(token_map) + 6
        /\ CharsLeft' \in Nat /\ Room' \in 0 .. MaxText /\ Patience' \in 0 .. Len(token_map) + 6
    BY MeasureBounds, MeasureBoundsNext
  <2> DEFINE e == (MaxText + Len(token_map) + 7) * CharsLeft + Room + Patience
             f == (MaxText + Len(token_map) + 7) * CharsLeft' + Room' + Patience'
  <2>3. e \in Nat /\ f \in Nat /\ f < e
    BY <2>1, <2>2, Sums, TableFacts, ScannerAssumption
  <2>4. Effort = e /\ Effort' = f
    BY DEF Effort
  <2> QED  BY <2>3, <2>4
<1> QED  BY <1>2, <1>3 DEF Course, Aborts

-----------------------------------------------------------------------------
LEMMA InitWithin == ScanInit => Within
BY InsideNames DEF ScanInit, Within

LEMMA NextWithin ==
  ASSUME ScanInv, ScanInv', Within, LexemeInv, [ScannerNext]_scannerVars
  PROVE  Within'
<1>1. CASE UNCHANGED scannerVars
  BY <1>1 DEF scannerVars, scanVars, Within, Due
<1>2. CASE (\E text \in Texts : OpenStream(text)) \/ (At("ready") /\ GetTok)
  BY <1>2, InsideNames DEF OpenStream, GetTok, At, Within
<1>3. CASE ScanStep
  BY <1>3, StepCourse, CourseKeepsWithin
<1> QED  BY <1>1, <1>2, <1>3 DEF ScannerNext

LEMMA ScannerInvariance ==
  ASSUME RankIsNumber
  PROVE  ScannerSpec => [](ScanInv /\ LexemeInv /\ Within)
<1>1. ScanInit => LexemeInv
  BY DEF ScanInit, LexemeInv, Fresh, Gathering
<1>2. ScanInv /\ [ScannerNext]_scannerVars => ScanInv'
  BY NextScanInv
<1>3. ScanInv /\ LexemeInv /\ [ScannerNext]_scannerVars => LexemeInv'
  BY NextLexemeInv
<1>4. ScanInv /\ ScanInv' /\ Within /\ LexemeInv /\ [ScannerNext]_scannerVars => Within'
  BY NextWithin
<1> QED  BY <1>1, <1>2, <1>3, <1>4, InitScanInv, InitWithin, PTL DEF ScannerSpec

(* A call of advance() does not go round in circles: for all texts, every  *)
(* table of keywords and every string, each step of it leaves less to be   *)
(* read, or room for less, or fewer steps until the next character, but in *)
(* a comment that nothing closes.                                          *)
THEOREM ScanningComesToItsEnd ==
  ASSUME RankIsNumber
  PROVE  ScannerSpec => ScanningAdvances
<1> DEFINE A == ScanStep => \/ pc' = "ready"
                            \/ pc' = "aborted"
                            \/ InOpenComment
                            \/ Effort \in Nat /\ Effort' \in Nat /\ Effort' < Effort
           I == ScanInv /\ LexemeInv /\ Within
<1>1. I /\ I' /\ [ScannerNext]_scannerVars => [A]_scannerVars
  BY StepCourse, CourseAdvances
<1>2. ScannerSpec => [][A]_scannerVars
  <2> HIDE DEF A, I
  <2>1. ScannerSpec => []I
    BY ScannerInvariance DEF I
  <2> QED  BY <1>1, <2>1, PTL DEF ScannerSpec
<1> QED  BY <1>2 DEF ScanningAdvances

(* The memory for a lexeme is enough if it is enough for the text: REALLOC *)
(* ends the process for a longer text only, or for a string that nothing   *)
(* closes, which is collected on at the end of its text.                   *)
THEOREM MemoryLastsForTheText ==
  ASSUME RankIsNumber
  PROVE  ScannerSpec => MemoryIsEnough
<1> DEFINE A == pc # "aborted" /\ pc' = "aborted" =>
                  MaxText < Len(streams'[1].text) \/ InOpenString
           I == ScanInv /\ LexemeInv /\ Within
<1>1. I /\ I' /\ [ScannerNext]_scannerVars => [A]_scannerVars
  <2> SUFFICES ASSUME I, I', ScannerNext, pc # "aborted", pc' = "aborted"
               PROVE  MaxText < Len(streams'[1].text) \/ InOpenString
    OBVIOUS
  <2>1. ScanStep
    BY DEF ScannerNext, OpenStream, GetTok
  <2>2. Aborts
    <3>1. Course
      BY <2>1, StepCourse
    <3> QED  BY <3>1, InsideNames DEF Course, Takes, Falls, Fills, Hangs
  <2>3. CASE AtEnd
    <3>1. pc \in StringLoop /\ pc \in Inside
      BY <2>2, <2>3, InsideNames DEF Aborts
    <3>2. Reading = streams /\ Reading # << >>
      BY <3>1, WithinReading
    <3> QED  BY <2>3, <3>1, <3>2 DEF AtEnd, InOpenString
  <2>4. CASE ~AtEnd
    <3> DEFINE p == Reading[1].pos
               l == Len(Reading[1].text)
               n == Len(buffer) + Due
    <3>1. Reading # << >> /\ MaxText <= n
      BY <2>2, <2>4 DEF Aborts, AtEnd
    <3>2. p \in Nat \ {0} /\ l \in Nat /\ n \in Nat /\ p <= l
      BY <2>4, <3>1, EndFacts, DueIsNumber DEF ScanInv, AtEnd
    <3>3. streams'[1].text = Reading[1].text
      <4>1. CASE Read
        BY <3>1, <4>1, CharsRead DEF ScanInv
      <4>2. CASE UNCHANGED <<streams, file_flag>> /\ pc \in Inside
        BY <4>2, WithinReading
      <4> QED  BY <2>2, <4>1, <4>2 DEF Aborts
    <3>4. n < p
      <4>1. CASE pc \in Inside
        <5>1. Reading = streams
          BY <4>1, WithinReading
        <5> QED  BY <2>4, <3>2, <4>1, <5>1 DEF Within, AtEnd
      <4>2. CASE pc = "top"
        <5>1. n = 0
          BY <4>2, NothingAtTop
        <5> QED  BY <3>2, <5>1
      <4> QED  BY <2>2, <4>1, <4>2 DEF Aborts
    <3> HIDE DEF p, n
    <3>5. MaxText < l
      BY <3>1, <3>2, <3>4, ScannerAssumption
    <3> QED  BY <3>3, <3>5
  <2> QED  BY <2>3, <2>4
<1>2. ScannerSpec => [][A]_scannerVars
  <2> HIDE DEF A, I
  <2>1. ScannerSpec => []I
    BY ScannerInvariance DEF I
  <2> QED  BY <1>1, <2>1, PTL DEF ScannerSpec
<1> QED  BY <1>2 DEF MemoryIsEnough
-----------------------------------------------------------------------------
(* The forms of what a token may have as its text, as conditions on the    *)
(* first n characters of it, on those from i to n, or on all of them.      *)
DigitsIn(s, i, n) == \A j \in i .. n : s[j] \in Digit

IntegerUpTo(s, n) == n >= 1 /\ DigitsIn(s, 1, n) /\ (s[1] = "0" => n = 1)

HexForm(s) ==
  /\ Len(s) >= 2 /\ s[1] = "0" /\ s[2] = "x"
  /\ \A j \in 3 .. Len(s) : s[j] \in HexDigit

OctalForm(s) ==
  /\ Len(s) >= 2 /\ s[1] = "0"
  /\ \A j \in 1 .. Len(s) : s[j] \in OctalDigit

(* An integer, a point at p, and digits up to n. *)
FractionUpTo(s, p, n) ==
  p <= n /\ IntegerUpTo(s, p - 1) /\ s[p] = "." /\ DigitsIn(s, p + 1, n)

(* A fraction and an "e" at e. *)
ExponentAt(s, p, e) == FractionUpTo(s, p, e - 1) /\ s[e] = "e"

FloatForm(s) ==
  \E p \in DOMAIN s :
    \/ FractionUpTo(s, p, Len(s))
    \/ \E e \in DOMAIN s :
         /\ ExponentAt(s, p, e)
         /\ \/ e + 1 <= Len(s) /\ DigitsIn(s, e + 1, Len(s))
            \/ e + 2 <= Len(s) /\ s[e + 1] \in Sign /\ DigitsIn(s, e + 2, Len(s))

WordForm(s) ==
  Len(s) >= 1 /\ s[1] \notin Digit /\ \A j \in 1 .. Len(s) : s[j] \in WordChar

(* A number or a symbol is one: the text of its token has the form that    *)
(* its type says, and a symbol is no keyword whose entry is in order.      *)
TokensAreWhatTheySay ==
  At("ready") =>
    /\ token.type = "INUM_TOKEN" => IntegerUpTo(token.text, Len(token.text))
    /\ token.type = "UNUM_TOKEN" => HexForm(token.text)
    /\ token.type = "ONUM_TOKEN" => OctalForm(token.text)
    /\ token.type = "FNUM_TOKEN" => FloatForm(token.text)
    /\ token.type = "SYMBOL_TOKEN" =>
         /\ WordForm(token.text)
         /\ \A i \in DOMAIN token_map : InOrder(i) => Rank(token.text) # token_map[i].str

(* What is in the buffer at each place. *)
Form(label, s) ==
  /\ label = "top" => s = << >>
  /\ label = "zero" => Len(s) = 1 /\ s[1] = "0"
  /\ label = "integer" => IntegerUpTo(s, Len(s)) /\ s[1] # "0"
  /\ label = "hex" => HexForm(s)
  /\ label = "octal" => OctalForm(s)
  /\ label = "fraction" => \E p \in DOMAIN s : FractionUpTo(s, p, Len(s))
  /\ label = "exponent" => \E p \in DOMAIN s : ExponentAt(s, p, Len(s))
  /\ label = "signed" =>
       \E p, e \in DOMAIN s : ExponentAt(s, p, e) /\ e + 1 = Len(s) /\ s[e + 1] \in Sign
  /\ label = "signed_digits" =>
       \E p, e \in DOMAIN s :
         ExponentAt(s, p, e) /\ e + 2 <= Len(s) /\ s[e + 1] \in Sign /\ DigitsIn(s, e + 2, Len(s))
  /\ label = "unsigned_digits" =>
       \E p, e \in DOMAIN s : ExponentAt(s, p, e) /\ e + 1 <= Len(s) /\ DigitsIn(s, e + 1, Len(s))
  /\ label \in {"word", "search"} => WordForm(s)

(* The character that takes the scanner from one of these places to another. *)
Grows(from, c, to) ==
  \/ from = "top" /\ to = "zero" /\ c = "0"
  \/ from = "top" /\ to = "integer" /\ c \in Digit \ {"0"}
  \/ from = "top" /\ to = "word" /\ c \in Letter \cup {"_"}
  \/ from = "zero" /\ to = "hex" /\ c = "x"
  \/ from = "zero" /\ to = "octal" /\ c \in OctalDigit
  \/ from \in {"zero", "integer"} /\ to = "fraction" /\ c = "."
  \/ from = "integer" /\ to = "integer" /\ c \in Digit
  \/ from = "hex" /\ to = "hex" /\ c \in HexDigit
  \/ from = "octal" /\ to = "octal" /\ c \in OctalDigit
  \/ from = "fraction" /\ to = "fraction" /\ c \in Digit
  \/ from = "fraction" /\ to = "exponent" /\ c = "e"
  \/ from = "exponent" /\ to = "signed" /\ c \in Sign
  \/ from = "exponent" /\ to = "unsigned_digits" /\ c \in Digit
  \/ from \in {"signed", "signed_digits"} /\ to = "signed_digits" /\ c \in Digit
  \/ from = "unsigned_digits" /\ to = "unsigned_digits" /\ c \in Digit
  \/ from = "word" /\ to = "word" /\ c \in WordChar

LEMMA CharacterKinds ==
  /\ "0" \in Digit /\ "0" \in OctalDigit /\ OctalDigit \subseteq Digit /\ Digit \subseteq WordChar
  /\ Letter \cup {"_"} \subseteq WordChar /\ (Letter \cup {"_"}) \cap Digit = {}
  /\ Sign \cap Digit = {}
  /\ "NUL" \notin WordChar \cup HexDigit \cup Sign \cup {".", "x", "e"}
BY DEF Digit, OctalDigit, HexDigit, Letter, WordChar, Sign

LEMMA ZeroIsInteger ==
  ASSUME NEW s, Len(s) = 1, s[1] = "0"
  PROVE  IntegerUpTo(s, Len(s))
<1>1. s[1] \in Digit
  BY CharacterKinds
<1>2. DigitsIn(s, 1, 1)
  BY <1>1 DEF DigitsIn
<1> QED  BY <1>2 DEF IntegerUpTo

(* A character more. *)
LEMMA GrownForm ==
  ASSUME NEW s \in Seq(Stored), NEW c, NEW from, NEW to, Form(from, s), Grows(from, c, to)
  PROVE  Form(to, Append(s, c))
<1> DEFINE n == Len(s)
           t == Append(s, c)
<1>1. n \in Nat /\ Len(t) = n + 1 /\ t[n + 1] = c /\ \A i \in 1 .. n : t[i] = s[i]
      /\ DOMAIN s = 1 .. n /\ DOMAIN t = 1 .. n + 1
  <2>1. s \in Seq(Stored \cup {c})
    OBVIOUS
  <2> QED  BY <2>1, AppendProperties, LenProperties
<1> HIDE DEF t, n
<1>2. \A i, j \in Int : i >= 1 /\ j <= n /\ DigitsIn(s, i, j) => DigitsIn(t, i, j)
  BY <1>1 DEF DigitsIn
<1>3. \A j \in Int : j <= n /\ IntegerUpTo(s, j) => IntegerUpTo(t, j)
  BY <1>1, <1>2 DEF IntegerUpTo
<1>4. \A p \in 1 .. n : \A j \in Int : j <= n /\ FractionUpTo(s, p, j) => FractionUpTo(t, p, j)
  BY <1>1, <1>2, <1>3 DEF FractionUpTo
<1>5. \A p, e \in 1 .. n : ExponentAt(s, p, e) => ExponentAt(t, p, e)
  BY <1>1, <1>4 DEF ExponentAt
<1>6. \A i \in Int : i >= 1 /\ DigitsIn(s, i, n) /\ c \in Digit => DigitsIn(t, i, n + 1)
  BY <1>1 DEF DigitsIn
<1>7. CASE to \in {"zero", "word", "hex", "octal"}
  <2>1. CASE from = "top"
    <3>1. n = 0 /\ Len(t) = 1 /\ t[1] = c
      BY <1>1, <2>1, EmptySeq DEF Form, n
    <3>2. (to = "zero" /\ c = "0") \/ (to = "word" /\ c \in Letter \cup {"_"})
      BY <1>7, <2>1 DEF Grows
    <3>3. CASE to = "zero" /\ c = "0"
      BY <3>1, <3>3 DEF Form, t
    <3>4. CASE to = "word" /\ c \in Letter \cup {"_"}
      <4>1. WordForm(t)
        <5>1. c \in WordChar /\ c \notin Digit
          BY <3>4, CharacterKinds
        <5> QED  BY <3>1, <5>1 DEF WordForm
      <4> QED  BY <3>4, <4>1 DEF Form, t
    <3> QED  BY <3>2, <3>3, <3>4
  <2>2. CASE from = "zero"
    <3>1. Len(t) = 2 /\ t[1] = "0" /\ t[2] = c
      BY <1>1, <2>2 DEF Form, n
    <3>2. (to = "hex" /\ c = "x") \/ (to = "octal" /\ c \in OctalDigit)
      BY <1>7, <2>2 DEF Grows
    <3>3. CASE to = "hex" /\ c = "x"
      <4>1. HexForm(t)
        BY <3>1, <3>3 DEF HexForm
      <4> QED  BY <3>3, <4>1 DEF Form, t
    <3>4. CASE to = "octal" /\ c \in OctalDigit
      <4>1. OctalForm(t)
        <5>1. t[1] \in OctalDigit /\ t[2] \in OctalDigit
          BY <3>1, <3>4, CharacterKinds
        <5> QED  BY <3>1, <5>1 DEF OctalForm
      <4> QED  BY <3>4, <4>1 DEF Form, t
    <3> QED  BY <3>2, <3>3, <3>4
  <2>3. CASE from = "hex"
    <3>1. HexForm(s) /\ c \in HexDigit /\ to = "hex"
      BY <1>7, <2>3 DEF Form, Grows
    <3>2. HexForm(t)
      BY <1>1, <3>1 DEF HexForm, n
    <3> QED  BY <3>1, <3>2 DEF Form, t
  <2>4. CASE from = "octal"
    <3>1. OctalForm(s) /\ c \in OctalDigit /\ to = "octal"
      BY <1>7, <2>4 DEF Form, Grows
    <3>2. OctalForm(t)
      BY <1>1, <3>1 DEF OctalForm, n
    <3> QED  BY <3>1, <3>2 DEF Form, t
  <2>5. CASE from = "word"
    <3>1. WordForm(s) /\ c \in WordChar /\ to = "word"
      BY <1>7, <2>5 DEF Form, Grows
    <3>2. WordForm(t)
      BY <1>1, <3>1 DEF WordForm, n
    <3> QED  BY <3>1, <3>2 DEF Form, t
  <2> QED  BY <1>7, <2>1, <2>2, <2>3, <2>4, <2>5 DEF Grows
<1>8. CASE to = "integer"
  <2>1. CASE from = "top"
    BY <1>1, <1>8, <2>1, EmptySeq DEF Form, Grows, IntegerUpTo, DigitsIn, n, t
  <2>2. CASE from = "integer"
    BY <1>1, <1>6, <1>8, <2>2 DEF Form, Grows, IntegerUpTo, n, t
  <2> QED  BY <1>8, <2>1, <2>2 DEF Grows
<1>9. CASE to = "fraction"
  <2>1. CASE from \in {"zero", "integer"}
    <3>1. IntegerUpTo(s, n) /\ c = "."
      <4>1. c = "."
        BY <1>9, <2>1 DEF Grows
      <4>2. CASE from = "zero"
        BY <4>1, <4>2, ZeroIsInteger DEF Form, n
      <4>3. CASE from = "integer"
        BY <4>1, <4>3 DEF Form, n
      <4> QED  BY <2>1, <4>2, <4>3
    <3>2. FractionUpTo(t, n + 1, n + 1)
      BY <1>1, <1>3, <3>1 DEF FractionUpTo, DigitsIn
    <3> QED  BY <1>1, <1>9, <3>2 DEF Form, t
  <2>2. CASE from = "fraction"
    <3>1. PICK p \in 1 .. n : FractionUpTo(s, p, n)
      BY <1>1, <2>2 DEF Form, n
    <3>2. FractionUpTo(t, p, n + 1)
      BY <1>1, <1>3, <1>6, <1>9, <2>2, <3>1 DEF FractionUpTo, Grows
    <3> QED  BY <1>1, <1>9, <3>2 DEF Form, t
  <2> QED  BY <1>9, <2>1, <2>2 DEF Grows
<1>10. CASE to = "exponent"
  <2>1. PICK p \in 1 .. n : FractionUpTo(s, p, n)
    BY <1>1, <1>10 DEF Form, Grows, n
  <2>2. ExponentAt(t, p, n + 1)
    BY <1>1, <1>4, <1>10, <2>1 DEF ExponentAt, Grows
  <2> QED  BY <1>1, <1>10, <2>2 DEF Form, t
<1>11. CASE to \in {"signed", "unsigned_digits"} /\ from = "exponent"
  <2>1. PICK p \in 1 .. n : ExponentAt(s, p, n) /\ n \in 1 .. n
    BY <1>1, <1>11 DEF Form, n
  <2>2. ExponentAt(t, p, n)
    BY <1>5, <2>1
  <2>3. to = "unsigned_digits" => DigitsIn(t, n + 1, n + 1)
    BY <1>1, <1>11 DEF Grows, DigitsIn
  <2>4. to = "signed" => t[n + 1] \in Sign
    BY <1>1, <1>11 DEF Grows
  <2>5. p \in DOMAIN t /\ n \in DOMAIN t /\ Len(t) = n + 1
    BY <1>1, <2>1
  <2> QED  BY <1>1, <1>11, <2>2, <2>3, <2>4, <2>5 DEF Form, t
<1>12. CASE to = "signed_digits"
  <2>1. PICK p, e \in 1 .. n :
          /\ ExponentAt(s, p, e) /\ e + 1 <= n /\ s[e + 1] \in Sign
          /\ DigitsIn(s, e + 2, n)
    <3>1. CASE from = "signed"
      <4>1. \A e \in 1 .. n : e + 1 = n => DigitsIn(s, e + 2, n)
        BY <1>1 DEF DigitsIn
      <4> QED  BY <1>1, <3>1, <4>1 DEF Form, n
    <3>2. CASE from = "signed_digits"
      BY <1>1, <3>2 DEF Form, n
    <3> QED  BY <1>12, <3>1, <3>2 DEF Grows
  <2>2. ExponentAt(t, p, e) /\ e + 2 <= n + 1 /\ t[e + 1] \in Sign
    BY <1>1, <1>5, <2>1
  <2>3. DigitsIn(t, e + 2, n + 1)
    BY <1>1, <1>6, <1>12, <2>1 DEF Grows
  <2>4. p \in DOMAIN t /\ e \in DOMAIN t /\ Len(t) = n + 1
    BY <1>1, <2>1
  <2> QED  BY <1>12, <2>2, <2>3, <2>4 DEF Form, t
<1>13. CASE to = "unsigned_digits" /\ from = "unsigned_digits"
  <2>1. PICK p, e \in 1 .. n : ExponentAt(s, p, e) /\ e + 1 <= n /\ DigitsIn(s, e + 1, n)
    BY <1>1, <1>13 DEF Form, n
  <2>2. ExponentAt(t, p, e) /\ e + 1 <= n + 1
    BY <1>1, <1>5, <2>1
  <2>3. DigitsIn(t, e + 1, n + 1)
    BY <1>1, <1>6, <1>13, <2>1 DEF Grows
  <2>4. p \in DOMAIN t /\ e \in DOMAIN t /\ Len(t) = n + 1
    BY <1>1, <2>1
  <2> QED  BY <1>13, <2>2, <2>3, <2>4 DEF Form, t
<1> QED  BY <1>7, <1>8, <1>9, <1>10, <1>11, <1>12, <1>13 DEF Grows

(* None of them has a zero in it, where STRDUP() would end. *)
LEMMA FormIsCopied ==
  ASSUME NEW s \in Seq(Stored), NEW label \in Gathering \cup {"search"}, Form(label, s)
  PROVE  CString(s) = s
<1>1. DOMAIN s = 1 .. Len(s) /\ Len(s) \in Nat
  BY LenProperties
<1>2. CASE \A i \in DOMAIN s : s[i] # "NUL"
  BY <1>2 DEF CString
<1>3. ASSUME NEW i \in DOMAIN s, s[i] = "NUL"
      PROVE  FALSE
  <2>1. s[i] \notin Digit /\ s[i] \notin OctalDigit /\ s[i] \notin HexDigit
        /\ s[i] \notin WordChar /\ s[i] \notin Sign /\ s[i] \notin {"0", ".", "x", "e"}
    BY <1>3, CharacterKinds
  <2>2. \A j, k \in Int : DigitsIn(s, j, k) => i < j \/ k < i
    BY <1>1, <2>1 DEF DigitsIn
  <2>3. \A k \in Int : IntegerUpTo(s, k) => k < i
    BY <1>1, <2>2 DEF IntegerUpTo
  <2>4. \A p \in DOMAIN s : \A k \in Int : FractionUpTo(s, p, k) => k < i
    BY <1>1, <2>1, <2>2, <2>3 DEF FractionUpTo
  <2>5. \A p, e \in DOMAIN s : ExponentAt(s, p, e) => e < i
    BY <1>1, <2>1, <2>4 DEF ExponentAt
  <2>6. CASE label \in {"zero", "integer"}
    BY <1>1, <2>1, <2>3, <2>6 DEF Form
  <2>7. CASE label \in {"hex", "octal"}
    BY <1>1, <2>1, <2>7 DEF Form, HexForm, OctalForm
  <2>8. CASE label \in {"word", "search"}
    BY <1>1, <2>1, <2>8 DEF Form, WordForm
  <2>9. CASE label \in {"fraction", "exponent"}
    BY <1>1, <2>4, <2>5, <2>9 DEF Form
  <2>10. CASE label = "signed"
    BY <1>1, <2>1, <2>5, <2>10 DEF Form
  <2>11. CASE label = "signed_digits"
    <3>1. PICK p, e \in DOMAIN s :
            ExponentAt(s, p, e) /\ e + 2 <= Len(s) /\ s[e + 1] \in Sign /\ DigitsIn(s, e + 2, Len(s))
      BY <2>11 DEF Form
    <3>2. e < i /\ i < e + 2
      BY <1>1, <2>2, <2>5, <3>1
    <3>3. i = e + 1
      BY <1>1, <3>2
    <3> QED  BY <2>1, <3>1, <3>3
  <2>12. CASE label = "unsigned_digits"
    <3>1. PICK p, e \in DOMAIN s :
            ExponentAt(s, p, e) /\ e + 1 <= Len(s) /\ DigitsIn(s, e + 1, Len(s))
      BY <2>12 DEF Form
    <3> QED  BY <1>1, <2>2, <2>5, <3>1
  <2> QED  BY <2>6, <2>7, <2>8, <2>9, <2>10, <2>11, <2>12 DEF Gathering
<1> QED  BY <1>2, <1>3

-----------------------------------------------------------------------------
(* What a step of get_tok() makes of a lexeme. *)
Formed == {"INUM_TOKEN", "UNUM_TOKEN", "ONUM_TOKEN", "FNUM_TOKEN", "SYMBOL_TOKEN"}

(* The types get_tok() may return from a place. *)
Fits(label, type) ==
  type \in Formed =>
    \/ label \in {"zero", "integer"} /\ type = "INUM_TOKEN"
    \/ label = "hex" /\ type = "UNUM_TOKEN"
    \/ label = "octal" /\ type = "ONUM_TOKEN"
    \/ label \in {"fraction", "signed_digits", "unsigned_digits"} /\ type = "FNUM_TOKEN"
    \/ label = "search" /\ type = retv /\ ~searching

Passes   == pc' \notin Gathering \cup {"search", "ready"}
Grown    == Grows(pc, Ch, pc') /\ buffer' = Append(buffer, Ch)
Asks     ==
  /\ pc = "word" /\ pc' = "search" /\ buffer' = buffer /\ str' = Rank(buffer)
  /\ PutBack /\ Ch \notin WordChar
Searches ==
  pc = "search" /\ pc' = "search" /\ buffer' = buffer /\ str' = str
    /\ UNCHANGED <<streams, file_flag>>
Yields   ==
  /\ pc' = "ready"
  /\ \E type : Fits(pc, type) /\ token' = [type |-> type, text |-> CString(buffer)]

Treatment == Passes \/ Grown \/ Asks \/ Searches \/ Yields

LEMMA FormedNames ==
  /\ {"END_OF_FILE", "END_OF_INPUT", "ERROR_TOKEN", "QSTRG_TOKEN"} \cap Formed = {}
  /\ PendingOperator \cap Formed = {}
  /\ \A c \in DOMAIN SingleOperator : SingleOperator[c] \notin Formed
  /\ \A p \in DOMAIN DoubleOperator : DoubleOperator[p] \notin Formed
  /\ {"ready", "again", "aborted"} \cap (Gathering \cup {"search"}) = {}
<1>1. {"END_OF_FILE", "END_OF_INPUT", "ERROR_TOKEN", "QSTRG_TOKEN"} \cap Formed = {}
  BY DEF Formed
<1>2. PendingOperator \cap Formed = {}
  BY DEF PendingOperator, OpenOperator, Formed
<1>3. \A c \in DOMAIN SingleOperator : SingleOperator[c] \notin Formed
  BY DEF SingleOperator, Formed
<1>4. \A p \in DOMAIN DoubleOperator : DoubleOperator[p] \notin Formed
  BY DEF DoubleOperator, Formed
<1>5. {"ready", "again", "aborted"} \cap (Gathering \cup {"search"}) = {}
  BY DEF Gathering
<1> QED  BY <1>1, <1>2, <1>3, <1>4, <1>5

LEMMA CollectTreats ==
  ASSUME NEW next, Collect(Ch, next),
         Grows(pc, Ch, next) \/ next \notin Gathering \cup {"search", "ready"}
  PROVE  Treatment
BY FormedNames DEF Collect, Treatment, Grown, Passes

LEMMA CollectPasses ==
  ASSUME NEW c, NEW next, Collect(c, next), next \notin Gathering \cup {"search", "ready"}
  PROVE  Treatment
BY FormedNames DEF Collect, Treatment, Passes

LEMMA SkipTreats ==
  ASSUME NEW next, Drop(next) \/ Leave(next), next \notin Gathering \cup {"search", "ready"}
  PROVE  Treatment
BY DEF Drop, Leave, Treatment, Passes

LEMMA FinishTreats ==
  ASSUME NEW type, Finish(type) \/ FinishBefore(type), Fits(pc, type)
  PROVE  Treatment
BY FormedNames DEF Finish, FinishBefore, Return, Treatment, Passes, Yields

LEMMA TopTreats ==
  ASSUME SkipWs \/ EndOfFile \/ EndOfInput \/ Opening \/ Operator \/ Unknown
  PROVE  Treatment
<1> USE DEF At
<1>1. CASE SkipWs
  BY <1>1, SkipTreats, FinishTreats, FormedNames DEF SkipWs, Fits, Gathering, PendingOperator
<1>2. CASE EndOfFile
  BY <1>2, FormedNames DEF EndOfFile, Return, Treatment, Yields, Fits
<1>3. CASE EndOfInput
  BY <1>3, FinishTreats, FormedNames DEF EndOfInput, Fits
<1>4. CASE Opening
  <2>1. CASE Drop("dquote") \/ Drop("squote") \/ Drop("slash")
    BY <2>1, SkipTreats DEF Gathering
  <2>2. CASE \E next : Grows(pc, Ch, next) /\ Collect(Ch, next)
    BY <2>2, CollectTreats
  <2>3. CASE Ch = "0" /\ Collect(Ch, "zero")
    BY <1>4, <2>2, <2>3 DEF Opening, Grows
  <2>4. CASE Ch \in Digit \ {"0"} /\ Collect(Ch, "integer")
    BY <1>4, <2>2, <2>4 DEF Opening, Grows
  <2>5. CASE Ch \in Letter \cup {"_"} /\ Collect(Ch, "word")
    BY <1>4, <2>2, <2>5 DEF Opening, Grows
  <2> QED  BY <1>4, <2>1, <2>3, <2>4, <2>5 DEF Opening
<1>5. CASE Operator
  <2>1. CASE Ch \in DOMAIN SingleOperator /\ Finish(SingleOperator[Ch])
    BY <2>1, FinishTreats, FormedNames DEF Fits
  <2>2. CASE pc' = "operator"
    BY <2>2 DEF Treatment, Passes, Gathering
  <2> QED  BY <1>5, <2>1, <2>2 DEF Operator
<1>6. CASE Unknown
  BY <1>6, SkipTreats DEF Unknown, Gathering
<1> QED  BY <1>1, <1>2, <1>3, <1>4, <1>5, <1>6

LEMMA NumberTreats ==
  ASSUME ScanInv,
         SecondOfOperator \/ Zero \/ Integer \/ Hex \/ Octal \/ Fraction \/ Exponent \/ Malformed
  PROVE  Treatment
<1> USE CollectTreats, SkipTreats, FinishTreats DEF At
<1>1. CASE SecondOfOperator
  <2>1. operator \notin Formed
    BY CharsTypes, FormedNames
  <2> QED  BY <1>1, <2>1, FormedNames DEF SecondOfOperator, Fits
<1>2. CASE Zero
  BY <1>2 DEF Zero, Grows, Fits, Gathering
<1>3. CASE Integer
  BY <1>3 DEF Integer, Grows, Fits
<1>4. CASE Hex
  BY <1>4 DEF Hex, Grows, Fits
<1>5. CASE Octal
  BY <1>5 DEF Octal, Grows, Fits, Gathering
<1>6. CASE Fraction
  BY <1>6 DEF Fraction, Grows, Fits
<1>7. CASE Exponent
  BY <1>7, FormedNames DEF Exponent, Grows, Fits, Gathering
<1>8. CASE Malformed
  BY <1>8, FormedNames DEF Malformed, Fits, Gathering
<1> QED  BY <1>1, <1>2, <1>3, <1>4, <1>5, <1>6, <1>7, <1>8

LEMMA StringTreats ==
  ASSUME InString \/ EatUntilWs \/ Escape \/ DecimalSign \/ NumberEscape
  PROVE  Treatment
<1> USE CollectPasses, SkipTreats, FinishTreats DEF At
<1>1. CASE InString
  BY <1>1, FormedNames DEF InString, Fits, Gathering
<1>2. CASE EatUntilWs
  BY <1>2, FormedNames DEF EatUntilWs, Fits, Gathering
<1>3. CASE Escape
  <2>1. CASE Ch \in DOMAIN EscapeStart
    <3>1. EscapeStart[Ch] \in {"hex_escape", "octal_escape", "decimal_sign"}
      BY <2>1 DEF EscapeStart
    <3>2. pc' = EscapeStart[Ch]
      BY <1>3, <2>1 DEF Escape
    <3> QED  BY <3>1, <3>2 DEF Treatment, Passes, Gathering
  <2>2. CASE Collect(Unescaped(Ch), "dquote")
    BY <2>2 DEF Gathering
  <2> QED  BY <1>3, <2>1, <2>2 DEF Escape
<1>4. CASE DecimalSign
  BY <1>4 DEF DecimalSign, Treatment, Passes, Gathering
<1>5. CASE NumberEscape
  <2>1. CASE pc' = pc
    BY <1>5, <2>1, LoopNames DEF NumberEscape, Treatment, Passes, Gathering
  <2>2. CASE \E b : CollectBytes(b)
    BY <2>2 DEF CollectBytes, Treatment, Passes, Gathering
  <2>3. CASE Leave("dquote")
    BY <2>3 DEF Gathering
  <2> QED  BY <1>5, <2>1, <2>2, <2>3 DEF NumberEscape
<1> QED  BY <1>1, <1>2, <1>3, <1>4, <1>5

LEMMA CommentTreats ==
  ASSUME Slash \/ LineComment \/ Comment
  PROVE  Treatment
<1> USE SkipTreats DEF At, Gathering
<1>1. CASE Slash
  <2>1. pc' \in {"line_comment", "skip_ws", "comment"}
    BY <1>1 DEF Slash, Drop
  <2> QED  BY <2>1 DEF Treatment, Passes
<1>2. CASE LineComment
  BY <1>2 DEF LineComment
<1>3. CASE Comment
  BY <1>3 DEF Comment
<1> QED  BY <1>1, <1>2, <1>3

LEMMA WordTreats ==
  ASSUME Word \/ Search \/ WordEnd \/ GetTok
  PROVE  Treatment
<1> USE DEF At
<1>1. CASE Word
  <2>1. CASE Ch \in WordChar /\ Collect(Ch, "word")
    BY <1>1, <2>1, CollectTreats DEF Word, Grows
  <2>2. CASE /\ Ch \notin WordChar /\ PutBack
             /\ StrToToken(Rank(buffer)) /\ pc' = "search" /\ buffer' = buffer
    BY <1>1, <2>2 DEF Word, StrToToken, Treatment, Asks
  <2> QED  BY <1>1, <2>1, <2>2 DEF Word
<1>2. CASE Search
  <2>1. str' = str
    BY <1>2 DEF Search, SearchStep, SearchAbove, SearchBelow, SearchFound, SearchFails
  <2> QED  BY <1>2, <2>1 DEF Search, scanVars, Treatment, Searches
<1>3. CASE WordEnd
  <2>1. pc = "search" /\ ~searching /\ Return(retv)
    BY <1>3 DEF WordEnd
  <2>2. Fits(pc, retv)
    BY <2>1 DEF Fits
  <2> QED  BY <2>1, <2>2, FormedNames DEF Return, Treatment, Passes, Yields
<1>4. CASE GetTok
  BY <1>4 DEF GetTok, Treatment, Passes, Gathering
<1> QED  BY <1>1, <1>2, <1>3, <1>4

-----------------------------------------------------------------------------
FormInv ==
  /\ Form(pc, buffer)
  /\ pc = "search" => str = Rank(buffer)
  /\ TokensAreWhatTheySay

(* Where get_tok() returns, the text of the token has its form. *)
LEMMA YieldedForm ==
  ASSUME KeywordsAreWords, ScanInv, FormInv, Yields
  PROVE  TokensAreWhatTheySay'
<1>1. PICK type : Fits(pc, type) /\ token' = [type |-> type, text |-> CString(buffer)]
  BY DEF Yields
<1>2. buffer \in Seq(Stored) /\ Form(pc, buffer)
  BY CharsTypes DEF FormInv
<1>3. CASE type \in Formed
  <2>1. pc \in Gathering \cup {"search"}
    BY <1>1, <1>3 DEF Fits, Gathering
  <2>2. token'.type = type /\ token'.text = buffer
    BY <1>1, <1>2, <2>1, FormIsCopied
  <2>3. type = "INUM_TOKEN" /\ pc \in {"zero", "integer"} => IntegerUpTo(buffer, Len(buffer))
    BY <1>2, ZeroIsInteger DEF Form
  <2>4. pc = "hex" => HexForm(buffer)
    BY <1>2 DEF Form
  <2>5. pc = "octal" => OctalForm(buffer)
    BY <1>2 DEF Form
  <2>6. pc \in {"fraction", "signed_digits", "unsigned_digits"} => FloatForm(buffer)
    BY <1>2 DEF Form, FloatForm
  <2>7. ASSUME pc = "search", type = retv, ~searching
        PROVE  /\ type = "SYMBOL_TOKEN"
               /\ WordForm(buffer)
               /\ \A i \in DOMAIN token_map : InOrder(i) => Rank(buffer) # token_map[i].str
    <3>1. SearchIsRight
      BY DEF ScanInv, ControlInv, SearchInv
    <3>2. str = Rank(buffer) /\ WordForm(buffer)
      BY <1>2, <2>7 DEF FormInv, Form
    <3>3. retv = "SYMBOL_TOKEN"
      <4>1. SUFFICES ASSUME retv # "SYMBOL_TOKEN" PROVE FALSE
        OBVIOUS
      <4>2. PICK i \in DOMAIN token_map : token_map[i] = Entry(str, retv)
        BY <2>7, <3>1, <4>1 DEF SearchIsRight
      <4>3. token_map[i].tok = retv
        BY <4>2 DEF Entry
      <4> QED  BY <1>3, <2>7, <4>3 DEF KeywordsAreWords, Formed
    <3>4. ASSUME NEW i \in DOMAIN token_map, InOrder(i), Rank(buffer) = token_map[i].str
          PROVE  FALSE
      <4>1. retv = token_map[i].tok
        BY <2>7, <3>1, <3>2, <3>4 DEF SearchIsRight
      <4> QED  BY <3>3, <4>1 DEF KeywordsAreWords
    <3> QED  BY <2>7, <3>2, <3>3, <3>4
  <2>8. CASE type = "SYMBOL_TOKEN"
    <3>1. pc = "search" /\ type = retv /\ ~searching
      BY <1>1, <2>8 DEF Fits, Formed
    <3> QED  BY <2>2, <2>7, <2>8, <3>1 DEF TokensAreWhatTheySay, InOrder
  <2>9. CASE type # "SYMBOL_TOKEN"
    <3>1. ~(pc = "search" /\ type = retv /\ ~searching)
      BY <2>7, <2>9
    <3> QED  BY <1>1, <1>3, <2>2, <2>3, <2>4, <2>5, <2>6, <2>9, <3>1 DEF Fits, TokensAreWhatTheySay
  <2> QED  BY <2>8, <2>9
<1>4. CASE type \notin Formed
  <2>1. token'.type = type
    BY <1>1
  <2> QED  BY <1>4, <2>1 DEF Formed, TokensAreWhatTheySay
<1> QED  BY <1>3, <1>4

LEMMA TreatmentKeepsForm ==
  ASSUME KeywordsAreWords, ScanInv, LexemeInv', FormInv, Treatment
  PROVE  FormInv'
<1>1. CASE Passes
  <2>1. pc' = "top" => buffer' = << >>
    BY DEF LexemeInv, Fresh
  <2> QED  BY <1>1, <2>1 DEF Passes, FormInv, Form, Gathering, TokensAreWhatTheySay, At
<1>2. CASE Grown
  <2>1. Form(pc', buffer')
    BY <1>2, CharsTypes, GrownForm DEF Grown, FormInv
  <2>2. pc' \notin {"search", "ready"}
    BY <1>2 DEF Grown, Grows
  <2> QED  BY <2>1, <2>2 DEF FormInv, TokensAreWhatTheySay, At
<1>3. CASE Asks \/ Searches
  <2>1. pc' = "search" /\ buffer' = buffer /\ str' = Rank(buffer)
    BY <1>3 DEF Asks, Searches, FormInv
  <2>2. WordForm(buffer)
    BY <1>3 DEF Asks, Searches, FormInv, Form
  <2> QED  BY <2>1, <2>2 DEF FormInv, Form, TokensAreWhatTheySay, At
<1>4. CASE Yields
  <2>1. TokensAreWhatTheySay'
    BY <1>4, YieldedForm
  <2> QED  BY <1>4, <2>1 DEF Yields, FormInv, Form
<1> QED  BY <1>1, <1>2, <1>3, <1>4 DEF Treatment

LEMMA NextFormInv ==
  ASSUME KeywordsAreWords, ScanInv, LexemeInv', FormInv, [ScannerNext]_scannerVars
  PROVE  FormInv'
<1>1. CASE UNCHANGED <<pc, buffer, token, str>>
  BY <1>1 DEF FormInv, TokensAreWhatTheySay, At, InOrder
<1>2. CASE UNCHANGED scannerVars \/ \E text \in Texts : OpenStream(text)
  BY <1>1, <1>2 DEF scannerVars, scanVars, searchVars, OpenStream
<1>3. CASE ScanStep \/ GetTok
  <2>1. Treatment
    BY <1>3, TopTreats, NumberTreats, StringTreats, CommentTreats, WordTreats DEF ScanStep
  <2> QED  BY <2>1, TreatmentKeepsForm
<1> QED  BY <1>2, <1>3 DEF ScannerNext

LEMMA InitFormInv == ScanInit => FormInv
<1> SUFFICES ASSUME ScanInit PROVE FormInv
  OBVIOUS
<1>1. Form(pc, buffer) /\ pc # "search"
  BY DEF ScanInit, Form
<1>2. token.type = "NONE_TOKEN"
  BY DEF ScanInit
<1> QED  BY <1>1, <1>2 DEF FormInv, TokensAreWhatTheySay
-----------------------------------------------------------------------------
IsNumber(s) == IntegerUpTo(s, Len(s)) \/ HexForm(s) \/ OctalForm(s) \/ FloatForm(s)

(* The character behind a number or a symbol does not belong to it.        *)
LexemesAreLongest ==
  [][ScanStep /\ pc' = "ready" =>
       /\ token'.type \in {"INUM_TOKEN", "UNUM_TOKEN", "ONUM_TOKEN", "FNUM_TOKEN"} =>
            ~IsNumber(Append(token'.text, Ch))
       /\ token'.type = "SYMBOL_TOKEN" => ~WordForm(Append(token'.text, Ch))]_scannerVars

(* Where a number ends. *)
EndsNumber(label, c) ==
  /\ label = "zero" => c \notin Digit \cup {"x", "."}
  /\ label = "integer" => c \notin Digit \cup {"."}
  /\ label = "hex" => c \notin HexDigit
  /\ label = "fraction" => c \notin Digit \cup {"e"}
  /\ label \in {"octal", "signed_digits", "unsigned_digits"} => c \notin Digit

NumberPlaces ==
  {"zero", "integer", "hex", "octal", "fraction", "signed_digits", "unsigned_digits"}

LEMMA ReturnEndsNumber ==
  ASSUME ScanStep, pc' = "ready"
  PROVE  EndsNumber(pc, Ch)
<1> USE DEF At, Collect, Drop
<1>1. CASE Zero
  BY <1>1 DEF Zero, EndsNumber
<1>2. CASE Integer
  BY <1>2 DEF Integer, EndsNumber
<1>3. CASE Hex
  BY <1>3 DEF Hex, EndsNumber
<1>4. CASE Octal
  BY <1>4 DEF Octal, EndsNumber, Digit
<1>5. CASE Fraction
  BY <1>5 DEF Fraction, EndsNumber
<1>6. CASE Exponent
  BY <1>6 DEF Exponent, EndsNumber
<1>7. CASE pc \notin NumberPlaces
  BY <1>7 DEF EndsNumber, NumberPlaces
<1>8. CASE SkipWs \/ EndOfFile \/ EndOfInput \/ Opening \/ Operator \/ Unknown
           \/ SecondOfOperator \/ Malformed
  BY <1>7, <1>8
     DEF SkipWs, EndOfFile, EndOfInput, Opening, Operator, Unknown, SecondOfOperator, Malformed,
         NumberPlaces
<1>9. CASE InString \/ EatUntilWs \/ Escape \/ DecimalSign \/ NumberEscape
  BY <1>7, <1>9, LoopNames
     DEF InString, EatUntilWs, Escape, DecimalSign, NumberEscape, NumberPlaces
<1>10. CASE Slash \/ LineComment \/ Comment \/ Word \/ Search \/ WordEnd \/ (At("again") /\ GetTok)
  BY <1>7, <1>10 DEF Slash, LineComment, Comment, Word, Search, WordEnd, NumberPlaces
<1> QED  BY <1>1, <1>2, <1>3, <1>4, <1>5, <1>6, <1>8, <1>9, <1>10 DEF ScanStep

(* A text with a point has an integer before it. *)
LEMMA PointFacts ==
  ASSUME NEW s, NEW p \in Nat, NEW n \in Nat, p <= n, IntegerUpTo(s, p - 1), s[p] = "."
  PROVE  p >= 2 /\ n >= 2 /\ ~IntegerUpTo(s, n) /\ s[2] # "x"
<1>1. p >= 2 /\ \A j \in 1 .. p - 1 : s[j] \in Digit
  BY DEF IntegerUpTo, DigitsIn
<1>2. "." \notin Digit /\ "x" \notin Digit
  BY DEF Digit, OctalDigit
<1>3. ~DigitsIn(s, 1, n)
  <2>1. p \in 1 .. n
    BY <1>1
  <2> QED  BY <1>2, <2>1 DEF DigitsIn
<1>4. s[2] # "x"
  <2>1. CASE p = 2
    BY <2>1
  <2>2. CASE p # 2
    <3>1. 2 \in 1 .. p - 1
      BY <1>1, <2>2
    <3> QED  BY <1>1, <1>2, <3>1
  <2> QED  BY <2>1, <2>2
<1> QED  BY <1>1, <1>3, <1>4 DEF IntegerUpTo

(* What is a number with a character more. *)
LEMMA LongerNumber ==
  ASSUME NEW s \in Seq(Stored), NEW c, IsNumber(Append(s, c)), Len(s) >= 1
  PROVE  \/ c \in Digit
         \/ Len(s) = 1 /\ s[1] = "0" /\ c = "x"
         \/ Len(s) >= 2 /\ s[1] = "0" /\ s[2] = "x" /\ c \in HexDigit
         \/ c = "." /\ IntegerUpTo(s, Len(s))
<1> DEFINE n == Len(s)
           t == Append(s, c)
<1>1. n \in Nat /\ n >= 1 /\ Len(t) = n + 1 /\ t[n + 1] = c /\ (\A i \in 1 .. n : t[i] = s[i])
      /\ DOMAIN s = 1 .. n /\ DOMAIN t = 1 .. n + 1
  <2>1. s \in Seq(Stored \cup {c})
    OBVIOUS
  <2> QED  BY <2>1, AppendProperties, LenProperties
<1> HIDE DEF t, n
<1>2. \A i \in Int : i <= n + 1 /\ DigitsIn(t, i, n + 1) => c \in Digit
  BY <1>1 DEF DigitsIn
<1>3. CASE IntegerUpTo(t, n + 1)
  BY <1>1, <1>2, <1>3 DEF IntegerUpTo
<1>4. CASE HexForm(t)
  <2>1. CASE n = 1
    BY <1>1, <1>4, <2>1 DEF HexForm, n
  <2>2. CASE n >= 2
    <3>1. t[1] = s[1] /\ t[2] = s[2] /\ n + 1 \in 3 .. n + 1
      BY <1>1, <2>2
    <3> QED  BY <1>1, <1>4, <2>2, <3>1 DEF HexForm, n
  <2> QED  BY <1>1, <2>1, <2>2
<1>5. CASE OctalForm(t)
  <2>1. n + 1 \in 1 .. n + 1
    BY <1>1
  <2> QED  BY <1>1, <1>5, <2>1, CharacterKinds DEF OctalForm
<1>6. CASE FloatForm(t)
  <2>1. PICK p \in 1 .. n + 1 :
          \/ FractionUpTo(t, p, n + 1)
          \/ \E e \in 1 .. n + 1 :
               \/ e + 1 <= n + 1 /\ DigitsIn(t, e + 1, n + 1)
               \/ e + 2 <= n + 1 /\ DigitsIn(t, e + 2, n + 1)
    BY <1>1, <1>6 DEF FloatForm
  <2>2. CASE FractionUpTo(t, p, n + 1)
    <3>1. CASE p = n + 1
      <4>1. t[p] = "." /\ IntegerUpTo(t, n)
        BY <1>1, <2>2, <3>1 DEF FractionUpTo
      <4>2. IntegerUpTo(s, n)
        BY <1>1, <4>1 DEF IntegerUpTo, DigitsIn
      <4> QED  BY <1>1, <3>1, <4>1, <4>2 DEF n
    <3>2. CASE p # n + 1
      <4>1. p + 1 <= n + 1 /\ DigitsIn(t, p + 1, n + 1)
        BY <1>1, <2>2, <3>2 DEF FractionUpTo
      <4> QED  BY <1>1, <1>2, <4>1
    <3> QED  BY <3>1, <3>2
  <2>3. CASE ~FractionUpTo(t, p, n + 1)
    <3>1. PICK e \in 1 .. n + 1 :
            \/ e + 1 <= n + 1 /\ DigitsIn(t, e + 1, n + 1)
            \/ e + 2 <= n + 1 /\ DigitsIn(t, e + 2, n + 1)
      BY <2>1, <2>3
    <3> QED  BY <1>1, <1>2, <3>1
  <2> QED  BY <2>2, <2>3
<1> QED  BY <1>1, <1>3, <1>4, <1>5, <1>6 DEF IsNumber, t

LEMMA NumberIsLongest ==
  ASSUME NEW s \in Seq(Stored), NEW c, NEW label \in NumberPlaces,
         Form(label, s), EndsNumber(label, c)
  PROVE  ~IsNumber(Append(s, c))
<1>1. Len(s) \in Nat
  BY LenProperties
<1>2. c \notin Digit
  BY DEF EndsNumber, NumberPlaces, HexDigit
<1>3. "x" \notin Digit /\ "x" \notin OctalDigit /\ "." \notin HexDigit
  BY DEF Digit, OctalDigit, HexDigit
<1>4. CASE label = "zero"
  <2>1. Len(s) = 1 /\ s[1] = "0" /\ c # "x" /\ c # "."
    BY <1>4 DEF Form, EndsNumber
  <2> QED  BY <1>2, <2>1, LongerNumber
<1>5. CASE label = "integer"
  <2>1. Len(s) >= 1 /\ s[1] # "0" /\ c # "."
    BY <1>5 DEF Form, EndsNumber, IntegerUpTo
  <2> QED  BY <1>2, <2>1, LongerNumber
<1>6. CASE label = "hex"
  <2>1. Len(s) >= 2 /\ s[2] = "x" /\ c \notin HexDigit
    BY <1>6 DEF Form, EndsNumber, HexForm
  <2>2. ~IntegerUpTo(s, Len(s))
    BY <1>1, <1>3, <2>1 DEF IntegerUpTo, DigitsIn
  <2> QED  BY <1>1, <1>2, <2>1, <2>2, LongerNumber
<1>7. CASE label = "octal"
  <2>1. Len(s) >= 2 /\ s[1] = "0" /\ s[2] \in OctalDigit
    BY <1>1, <1>7 DEF Form, OctalForm
  <2>2. ~IntegerUpTo(s, Len(s))
    BY <1>1, <2>1 DEF IntegerUpTo
  <2> QED  BY <1>1, <1>2, <1>3, <2>1, <2>2, LongerNumber
<1>8. CASE label \in {"fraction", "signed_digits", "unsigned_digits"}
  <2>1. PICK p \in Nat : p <= Len(s) /\ IntegerUpTo(s, p - 1) /\ s[p] = "."
    <3>1. DOMAIN s = 1 .. Len(s)
      BY LenProperties
    <3>2. PICK p, e \in DOMAIN s : FractionUpTo(s, p, Len(s)) \/ ExponentAt(s, p, e)
      BY <1>8 DEF Form
    <3> QED  BY <1>1, <3>1, <3>2 DEF ExponentAt, FractionUpTo
  <2>2. Len(s) >= 2 /\ ~IntegerUpTo(s, Len(s)) /\ s[2] # "x"
    BY <1>1, <2>1, PointFacts
  <2> QED  BY <1>1, <1>2, <2>2, LongerNumber
<1> QED  BY <1>4, <1>5, <1>6, <1>7, <1>8 DEF NumberPlaces

-----------------------------------------------------------------------------
(* While a word is looked up, the character behind it is still to be read. *)
AfterWord == pc = "search" => Ch \notin WordChar

LEMMA StepTreats ==
  ASSUME ScanInv, ScanStep \/ GetTok
  PROVE  Treatment
BY TopTreats, NumberTreats, StringTreats, CommentTreats, WordTreats DEF ScanStep

LEMMA NextAfterWord ==
  ASSUME ScanInv, AfterWord, [ScannerNext]_scannerVars
  PROVE  AfterWord'
<1> SUFFICES ASSUME pc' = "search" PROVE Ch' \notin WordChar
  BY DEF AfterWord
<1>1. CASE pc = "search" /\ UNCHANGED <<streams, file_flag>>
  <2>1. Ch' = Ch
    BY <1>1 DEF Ch, Reading
  <2> QED  BY <1>1, <2>1 DEF AfterWord
<1>2. CASE UNCHANGED scannerVars
  BY <1>1, <1>2 DEF scannerVars, scanVars
<1>3. CASE \E text \in Texts : OpenStream(text)
  BY <1>3 DEF OpenStream, At
<1>4. CASE ScanStep \/ GetTok
  <2>1. Asks \/ Searches
    <3>1. Treatment
      BY <1>4, StepTreats
    <3> QED  BY <3>1 DEF Treatment, Passes, Grown, Grows, Yields
  <2>2. CASE Asks
    <3>1. Reading' = Reading
      BY <2>2 DEF Asks, PutBack, Reading
    <3>2. Ch' = Ch
      BY <3>1 DEF Ch
    <3> QED  BY <2>2, <3>2 DEF Asks
  <2> QED  BY <1>1, <2>1, <2>2 DEF Searches
<1> QED  BY <1>2, <1>3, <1>4 DEF ScannerNext

LEMMA YieldedIsLongest ==
  ASSUME ScanInv, FormInv, AfterWord, KeywordsAreWords, ScanStep, pc' = "ready"
  PROVE  /\ token'.type \in {"INUM_TOKEN", "UNUM_TOKEN", "ONUM_TOKEN", "FNUM_TOKEN"} =>
              ~IsNumber(Append(token'.text, Ch))
         /\ token'.type = "SYMBOL_TOKEN" => ~WordForm(Append(token'.text, Ch))
<1>1. Yields
  <2>1. Treatment
    BY StepTreats
  <2> QED  BY <2>1, FormedNames DEF Treatment, Passes, Grown, Grows, Asks, Searches
<1>2. PICK type : Fits(pc, type) /\ token' = [type |-> type, text |-> CString(buffer)]
  BY <1>1 DEF Yields
<1>3. buffer \in Seq(Stored) /\ Form(pc, buffer) /\ token'.type = type
  BY <1>2, CharsTypes DEF FormInv
<1>4. SUFFICES ASSUME type \in Formed
               PROVE  /\ type # "SYMBOL_TOKEN" => ~IsNumber(Append(token'.text, Ch))
                      /\ type = "SYMBOL_TOKEN" => ~WordForm(Append(token'.text, Ch))
  BY <1>3 DEF Formed
<1>5. pc \in NumberPlaces \/ (pc = "search" /\ type = retv /\ ~searching)
  BY <1>2, <1>4 DEF Fits, NumberPlaces
<1>6. token'.text = buffer
  <2>1. pc \in Gathering \cup {"search"}
    BY <1>5 DEF NumberPlaces, Gathering
  <2> QED  BY <1>2, <1>3, <2>1, FormIsCopied
<1>7. CASE pc \in NumberPlaces
  <2>1. type # "SYMBOL_TOKEN"
    BY <1>2, <1>4, <1>7 DEF Fits, NumberPlaces, Formed
  <2>2. ~IsNumber(Append(buffer, Ch))
    BY <1>3, <1>7, ReturnEndsNumber, NumberIsLongest
  <2> QED  BY <1>6, <2>1, <2>2
<1>8. CASE pc = "search" /\ type = retv /\ ~searching
  <2>1. type = "SYMBOL_TOKEN"
    <3>1. SUFFICES ASSUME type # "SYMBOL_TOKEN" PROVE FALSE
      OBVIOUS
    <3>2. PICK i \in DOMAIN token_map : token_map[i] = Entry(str, retv)
      BY <1>8, <3>1 DEF ScanInv, ControlInv, SearchInv, SearchIsRight
    <3>3. token_map[i].tok = retv
      BY <3>2 DEF Entry
    <3> QED  BY <1>4, <1>8, <3>3 DEF KeywordsAreWords, Formed
  <2>2. ~WordForm(Append(buffer, Ch))
    <3> DEFINE n == Len(buffer)
               t == Append(buffer, Ch)
    <3>1. n \in Nat /\ Len(t) = n + 1 /\ t[n + 1] = Ch
      BY <1>3, ChIsStored, AppendProperties, LenProperties
    <3>2. Ch \notin WordChar
      BY <1>8 DEF AfterWord
    <3> HIDE DEF n, t
    <3>3. n + 1 \in 1 .. n + 1
      BY <3>1
    <3>4. ~WordForm(t)
      BY <3>1, <3>2, <3>3 DEF WordForm
    <3> QED  BY <3>4 DEF t
  <2> QED  BY <1>6, <2>1, <2>2
<1> QED  BY <1>5, <1>7, <1>8

LEMMA FormInvariance ==
  ASSUME RankIsNumber, KeywordsAreWords
  PROVE  ScannerSpec => [](ScanInv /\ FormInv /\ AfterWord)
<1>1. ScanInit => FormInv /\ AfterWord
  BY InitFormInv DEF ScanInit, AfterWord
<1>2. /\ ScanInv /\ LexemeInv /\ Within /\ FormInv /\ (ScanInv /\ LexemeInv /\ Within)'
      /\ [ScannerNext]_scannerVars
      => FormInv'
  BY NextFormInv
<1>3. ScanInv /\ AfterWord /\ [ScannerNext]_scannerVars => AfterWord'
  BY NextAfterWord
<1> QED  BY <1>1, <1>2, <1>3, ScannerInvariance, PTL DEF ScannerSpec

(* For all texts and every table of words: a token that is a number or a   *)
(* symbol has a text of the form its type says, and a keyword whose entry  *)
(* is in order is never returned as a symbol.                              *)
THEOREM TokensHaveTheirForm ==
  ASSUME RankIsNumber, KeywordsAreWords
  PROVE  ScannerSpec => []TokensAreWhatTheySay
<1>1. FormInv => TokensAreWhatTheySay
  BY DEF FormInv
<1> QED  BY <1>1, FormInvariance, PTL

(* The text of a number ends only before a character that would make it no *)
(* number of any kind, and a symbol before one that is in no word.         *)
THEOREM LexemesEndWhereTheyMust ==
  ASSUME RankIsNumber, KeywordsAreWords
  PROVE  ScannerSpec => LexemesAreLongest
<1> DEFINE A ==
             ScanStep /\ pc' = "ready" =>
               /\ token'.type \in {"INUM_TOKEN", "UNUM_TOKEN", "ONUM_TOKEN", "FNUM_TOKEN"} =>
                    ~IsNumber(Append(token'.text, Ch))
               /\ token'.type = "SYMBOL_TOKEN" => ~WordForm(Append(token'.text, Ch))
           I == ScanInv /\ FormInv /\ AfterWord
<1>1. I /\ I' /\ [ScannerNext]_scannerVars => [A]_scannerVars
  BY YieldedIsLongest
<1>2. ScannerSpec => [][A]_scannerVars
  <2> HIDE DEF A, I
  <2>1. ScannerSpec => []I
    BY FormInvariance DEF I
  <2> QED  BY <1>1, <2>1, PTL DEF ScannerSpec
<1> QED  BY <1>2 DEF LexemesAreLongest
=============================================================================
