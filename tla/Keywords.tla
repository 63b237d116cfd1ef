------------------------------ MODULE Keywords -------------------------------
(***************************************************************************)
(* How scanner.c tells keywords from symbols: str_to_token() searches the  *)
(* table token_map by halving it.  A word is its rank in the order of      *)
(* strcmp(): keywords have the odd ranks, and an even rank is any word     *)
(* between two of them; 0 is before all.                                   *)
(***************************************************************************)
EXTENDS Integers, Sequences

CONSTANTS
  token_map,   (* the table: a sequence of entries *)
  Words        (* the ranks of the words that are looked up *)

ASSUME TableAssumption ==
  /\ token_map \in Seq([str : Nat \ {0}, tok : STRING])
  /\ Words \subseteq Int

(* What the table gives a word for: neither a number nor no keyword at all. *)
KeywordsAreWords ==
  \A i \in DOMAIN token_map :
    token_map[i].tok \notin
      {"INUM_TOKEN", "UNUM_TOKEN", "ONUM_TOKEN", "FNUM_TOKEN", "SYMBOL_TOKEN"}

Entry(rank, token) == [str |-> rank, tok |-> token]

(* The table as it is in the source, whose entries are written by hand.    *)
TokenMap == <<
  Entry(1, "AND_TOKEN"), Entry(3, "AS_TOKEN"), Entry(5, "BOOL_TOKEN"),
  Entry(7, "BREAK_TOKEN"), Entry(9, "CASE_TOKEN"), Entry(11, "CLASS_TOKEN"),
  Entry(13, "CONSTRUCTOR_TOKEN"), Entry(15, "CONTINUE_TOKEN"),
  Entry(17, "DEFAULT_TOKEN"), Entry(19, "DESTRUCTOR_TOKEN"),
  Entry(21, "DICT_TOKEN"), Entry(23, "DO_TOKEN"), Entry(25, "ELSE_TOKEN"),
  Entry(27, "ENTRY_TOKEN"), Entry(29, "EQUALITY_TOKEN"),
  Entry(31, "EXCEPT_TOKEN"), Entry(33, "FALSE_TOKEN"),
  Entry(35, "FLOAT_TOKEN"), Entry(37, "FOR_TOKEN"), Entry(41, "GTE_TOKEN"),
  Entry(39, "GT_TOKEN"), Entry(43, "IF_TOKEN"), Entry(45, "IMPORT_TOKEN"),
  Entry(47, "INLINE_TOKEN"), Entry(49, "INT_TOKEN"), Entry(51, "LIST_TOKEN"),
  Entry(55, "LTE_TOKEN"), Entry(53, "LT_TOKEN"), Entry(57, "MAP_TOKEN"),
  Entry(59, "NEQ_TOKEN"), Entry(61, "NOT_TOKEN"), Entry(63, "NOTHING_TOKEN"),
  Entry(65, "OR_TOKEN"), Entry(67, "PRIVATE_TOKEN"),
  Entry(69, "PROTECTED_TOKEN"), Entry(71, "PUBLIC_TOKEN"),
  Entry(73, "RAISE_TOKEN"), Entry(75, "RETURN_TOKEN"),
  Entry(77, "STRING_TOKEN"), Entry(79, "SUPER_TOKEN"),
  Entry(81, "SWITCH_TOKEN"), Entry(83, "TRUE_TOKEN"), Entry(85, "TRY_TOKEN"),
  Entry(87, "UINT_TOKEN"), Entry(63, "NOTHING_TOKEN"),
  Entry(89, "WHILE_TOKEN")>>

VARIABLES
  str,         (* the word that is looked up *)
  first, last, (* start and end *)
  retv,
  searching

searchVars == <<str, first, last, retv, searching>>

Result == {token_map[i].tok : i \in DOMAIN token_map} \cup {"SYMBOL_TOKEN"}

SearchTypeOK ==
  /\ str \in Int
  /\ first \in 0 .. Len(token_map)
  /\ last \in -1 .. Len(token_map) - 1
  /\ retv \in Result
  /\ searching \in BOOLEAN

Idle == str = 0 /\ first = 0 /\ last = -1 /\ retv = "SYMBOL_TOKEN" /\ searching = FALSE

StrToToken(word) ==
  /\ ~searching
  /\ str' = word
  /\ first' = 0
  /\ last' = Len(token_map) - 1
  /\ retv' = "SYMBOL_TOKEN"
  /\ searching' = TRUE

mid == (first + last) \div 2

(* One comparison of the loop. *)
Middle == token_map[mid + 1]

SearchAbove ==
  /\ searching /\ first <= last
  /\ str > Middle.str
  /\ first' = mid + 1
  /\ UNCHANGED <<str, last, retv, searching>>

(* Mutant: the entry below the middle is left out. *)
SearchBelowSkips ==
  /\ searching /\ first <= last
  /\ str < Middle.str
  /\ last' = mid - 2
  /\ UNCHANGED <<str, first, retv, searching>>

SearchBelow ==
  /\ searching /\ first <= last
  /\ str < Middle.str
  /\ last' = mid - 1
  /\ UNCHANGED <<str, first, retv, searching>>

SearchFound ==
  /\ searching /\ first <= last
  /\ str = Middle.str
  /\ retv' = Middle.tok
  /\ searching' = FALSE
  /\ UNCHANGED <<str, first, last>>

SearchFails ==
  /\ searching /\ first > last
  /\ searching' = FALSE
  /\ UNCHANGED <<str, first, last, retv>>

SearchStep == SearchAbove \/ SearchBelow \/ SearchFound \/ SearchFails

KeywordNext == SearchStep \/ \E word \in Words : StrToToken(word)

KeywordSpec == Idle /\ [][KeywordNext]_searchVars /\ WF_searchVars(SearchStep)

-----------------------------------------------------------------------------
(* An entry is where the search looks for it: the words before it in the   *)
(* table are less, those after it greater, or they mean the same.          *)
InOrder(i) ==
  \A j \in DOMAIN token_map \ {i} :
    \/ token_map[j] = token_map[i]
    \/ IF j < i THEN token_map[j].str < token_map[i].str
               ELSE token_map[j].str > token_map[i].str

(* A keyword is found if its own entry is in order, however disordered the *)
(* rest of the table is; and a word is never taken for another.            *)
SearchIsRight ==
  ~searching =>
    /\ \A i \in DOMAIN token_map :
         str = token_map[i].str /\ InOrder(i) => retv = token_map[i].tok
    /\ retv # "SYMBOL_TOKEN" =>
         \E i \in DOMAIN token_map : token_map[i] = Entry(str, retv)

(* scanner.c 629-631: a keyword string is converted to its token, and only *)
(* non-keywords to SYMBOL_TOKEN.                                           *)
EveryKeywordIsFound ==
  ~searching =>
    \A i \in DOMAIN token_map :
      str = token_map[i].str => retv = token_map[i].tok
=============================================================================
