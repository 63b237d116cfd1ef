----------------------------- MODULE MCCompiler -----------------------------
(***************************************************************************)
(* Compiler on small instances, with the reference translation to compare. *)
(***************************************************************************)
EXTENDS Compiler, CompilerReference, Grammar

(* All lines over a small alphabet: a constant, an operator that is unary  *)
(* and binary, operators of the precedences around it, and parentheses.    *)
MCAlphabet ==
  {"INUM_TOKEN", "SUB_TOKEN", "MUL_TOKEN", "LT_TOKEN", "OPAR_TOKEN",
   "CPAR_TOKEN"}

MCShortLines == UNION {[1 .. n -> MCAlphabet] : n \in 0 .. 5}

(* Longer lines: chains of operators of every precedence, and an operator  *)
(* between operands that are themselves built with each prefix rule.       *)
MCChains ==
  {<<"INUM_TOKEN", a, "INUM_TOKEN", b, "INUM_TOKEN", c, "INUM_TOKEN">> :
     a, b, c \in {"EQUALITY_TOKEN", "GTE_TOKEN", "ADD_TOKEN", "SLASH_TOKEN"}}

MCOperands == {
  <<"NOT_TOKEN", "FALSE_TOKEN">>,
  <<"OPAR_TOKEN", "SUB_TOKEN", "UNUM_TOKEN", "MOD_TOKEN", "QSTRG_TOKEN", "CPAR_TOKEN">>,
  <<"SUB_TOKEN", "OPAR_TOKEN", "FNUM_TOKEN", "CPAR_TOKEN">>,
  <<"SUB_TOKEN", "OPAR_TOKEN", "FNUM_TOKEN", "ADD_TOKEN", "CPAR_TOKEN">>}

MCNested ==
  {l \o <<op>> \o r : l, r \in MCOperands, op \in {"LT_TOKEN", "MUL_TOKEN", "NEQ_TOKEN"}}

(* Every token there is, in every order, in lines of up to three. *)
MCAllTokens == UNION {[1 .. n -> TextToken] : n \in 1 .. 3}

MCLines == MCShortLines \cup MCChains \cup MCNested \cup MCAllTokens

(* For several inputs: lines accepted and rejected at each place where a   *)
(* syntax error can be met, and one that brings the constants to the last  *)
(* index a code word can hold, and beyond it.                              *)
MCInputs == {
  << >>,
  <<"INUM_TOKEN">>,
  <<"INUM_TOKEN", "INUM_TOKEN">>,
  <<"INUM_TOKEN", "INUM_TOKEN", "SUB_TOKEN", "FNUM_TOKEN">>,
  <<"FNUM_TOKEN", "ADD_TOKEN", "ERROR_TOKEN">>,
  <<"OPAR_TOKEN", "INUM_TOKEN">>,
  <<"ADD_TOKEN", "INUM_TOKEN">>,
  <<"SUB_TOKEN", "INUM_TOKEN", "CPAR_TOKEN">>,
  <<"UNUM_TOKEN", "ADD_TOKEN", "INUM_TOKEN", "ADD_TOKEN", "INUM_TOKEN", "ADD_TOKEN",
    "INUM_TOKEN", "ADD_TOKEN", "INUM_TOKEN", "ADD_TOKEN", "INUM_TOKEN", "ADD_TOKEN",
    "INUM_TOKEN", "ADD_TOKEN", "QSTRG_TOKEN">>}

(* The lines of MCInputs follow one another, any other is compiled alone.  *)
MCAnyLines == MCLines \cup MCInputs

Continues == \A i \in DOMAIN source : source[i] \in MCInputs

OpensOneOf(lines) == inputs' # inputs /\ streams' # streams => Head(streams') \in lines

MCNext ==
  \/ /\ inputs = 0 /\ mode = "repl"
     /\ Next
  \/ /\ inputs = 0 => mode = "files"
     /\ phase = "ready" => Continues
     /\ Next
     /\ OpensOneOf(MCInputs)

MCSpec == Init /\ [][MCNext]_compilerVars /\ Fairness

(* The sentences that the rules of Grammar give in at most MCRounds rounds, *)
(* of up to five tokens of MCAlphabet.                                     *)
MCRounds == 10

MCConstants == <<"VAL_INUM">>

RECURSIVE MCSentences(_)
MCSentences(rounds) ==
  IF rounds = 0
    THEN {}
    ELSE LET R == MCSentences(rounds - 1)
         IN  R \cup {s \in Produced(R, MCConstants) :
                       Len(s.text) <= 5 /\ Range(s.text) \subseteq MCAlphabet}

MCLanguage == {s \in MCSentences(MCRounds) : s.level = PREC_ASSIGNMENT}

(* The grammar and the reference are the same language with the same code. *)
ASSUME GrammarIsReference ==
  /\ MCSentences(MCRounds) = MCSentences(MCRounds - 1)
  /\ \A s \in MCLanguage : s.text \in MCShortLines
  /\ \A text \in MCShortLines :
       {Decode(s.words, MCConstants) : s \in {x \in MCLanguage : x.text = text}}
         = Translations(text)

(* Every code the compiler emits is the translation the reference gives of *)
(* what it could read, and a syntax error is reported exactly when the     *)
(* reference has none.  It holds up to the last constant whose index fits  *)
(* in a code word; add_constant() does not check that it does.             *)
CompilesToReference ==
  phase = "compiled" /\ Len(constants) <= WordSize =>
    LET emitted == Decode(SubSeq(code, start + 1, Len(code)), constants)
    IN  IF hadError
          THEN ProgramTranslations(source) = {}
          ELSE emitted \in ProgramTranslations(source)
=============================================================================
