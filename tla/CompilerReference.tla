-------------------------- MODULE CompilerReference -------------------------
(***************************************************************************)
(* What the expression compiler promises, stated without its algorithm:    *)
(* the language it accepts and the code each sentence stands for.          *)
(*                                                                         *)
(* Where expression.c descends by precedence from left to right, the       *)
(* reference looks at a whole expression and splits it at its weakest      *)
(* binary operator, the last one among equals.                             *)
(***************************************************************************)
EXTENDS Tokens, Sequences, FiniteSetsExt

LOCAL EndsOperand(tok) ==
  tok \in ConstantToken \cup LiteralToken \cup {"CPAR_TOKEN"}

LOCAL Nesting(s, i) ==
  Cardinality({j \in 1 .. i - 1 : s[j] = "OPAR_TOKEN"})
    - Cardinality({j \in 1 .. i - 1 : s[j] = "CPAR_TOKEN"})

(* Places of the binary operators of s that are in no parentheses. *)
LOCAL Splits(s) ==
  {i \in 2 .. Len(s) : /\ s[i] \in BinaryToken
                       /\ EndsOperand(s[i - 1])
                       /\ Nesting(s, i) = 0}

LOCAL WeakestSplit(s) ==
  LET weakest == Min({RulePrec(s[i]) : i \in Splits(s)})
  IN  Max({i \in Splits(s) : RulePrec(s[i]) = weakest})

LOCAL Instruction(op)  == <<op, "none">>
LOCAL Constant(type)   == <<OP_CONSTANT, type>>

(* The instructions s compiles to, in a set that is empty when s is not an *)
(* expression.                                                             *)
RECURSIVE Translations(_)
Translations(s) ==
  CASE Splits(s) # {} ->
         LET k == WeakestSplit(s) IN
         {l \o r \o <<Instruction(BinaryOpcode(s[k]))>> :
            l \in Translations(SubSeq(s, 1, k - 1)),
            r \in Translations(SubSeq(s, k + 1, Len(s)))}
    [] Splits(s) = {} /\ Len(s) > 1 /\ s[1] \in UnaryToken ->
         {t \o <<Instruction(UnaryOpcode(s[1]))>> : t \in Translations(Tail(s))}
    [] Splits(s) = {} /\ Len(s) > 1 /\ s[1] = "OPAR_TOKEN"
                      /\ s[Len(s)] = "CPAR_TOKEN" ->
         Translations(SubSeq(s, 2, Len(s) - 1))
    [] Len(s) = 1 /\ s[1] \in ConstantToken ->
         {<<Constant(ConstantType(s[1]))>>}
    [] Len(s) = 1 /\ s[1] \in LiteralToken ->
         {<<Instruction(LiteralOpcode(s[1]))>>}
    [] OTHER -> {}

(* The instructions that a list of code words holds. *)
RECURSIVE Decode(_, _)
Decode(words, constants) ==
  IF words = << >>
    THEN << >>
    ELSE IF words[1] = OP_CONSTANT
           THEN <<Constant(constants[words[2] + 1])>>
                  \o Decode(SubSeq(words, 3, Len(words)), constants)
           ELSE <<Instruction(words[1])>> \o Decode(Tail(words), constants)

(* The code of a whole input: accepted only when there is nothing else to  *)
(* read; what the scanner rejects is skipped; OP_RETURN ends it.           *)
ProgramTranslations(source) ==
  IF Len(source) # 1
    THEN {}
    ELSE {t \o <<Instruction(OP_RETURN)>> :
            t \in Translations(SelectSeq(source[1], LAMBDA tok : tok # "ERROR_TOKEN"))}
=============================================================================
