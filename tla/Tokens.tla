------------------------------- MODULE Tokens -------------------------------
(***************************************************************************)
(* The vocabulary shared by the scanner, the Pratt compiler and the        *)
(* virtual machine of atlang: token types (scanner.h), the parse rules     *)
(* (expression.c), value types and opcodes (codeblocks.h).                 *)
(*                                                                         *)
(* Tokens without any parse rule behave alike for the compiler, so one     *)
(* member, SYMBOL_TOKEN, stands for all of them.  What a number or a       *)
(* string denotes is abstracted; its value type is kept.                   *)
(***************************************************************************)
EXTENDS Integers

(* Tokens that start an operand and put a Value in the constant list. *)
ConstantToken == {"UNUM_TOKEN", "INUM_TOKEN", "FNUM_TOKEN", "QSTRG_TOKEN"}

(* Tokens that start an operand and have an opcode of their own. *)
LiteralToken == {"TRUE_TOKEN", "FALSE_TOKEN", "NOTHING_TOKEN"}

UnaryToken == {"SUB_TOKEN", "NOT_TOKEN"}

ArithmeticToken ==
  {"ADD_TOKEN", "SUB_TOKEN", "MUL_TOKEN", "SLASH_TOKEN", "MOD_TOKEN"}

ComparisonToken ==
  {"EQUALITY_TOKEN", "NEQ_TOKEN", "LT_TOKEN", "GT_TOKEN", "LTE_TOKEN",
   "GTE_TOKEN"}

BinaryToken == ArithmeticToken \cup ComparisonToken

(* What the scanner can deliver from the text of a stream ... *)
TextToken ==
  ConstantToken \cup LiteralToken \cup UnaryToken \cup BinaryToken
    \cup {"OPAR_TOKEN", "CPAR_TOKEN", "SYMBOL_TOKEN", "ERROR_TOKEN"}

(* ... and what advance() lets through to the parser. *)
Token == (TextToken \ {"ERROR_TOKEN"}) \cup {"END_OF_FILE", "END_OF_INPUT"}

-----------------------------------------------------------------------------
(* Precedence levels, in the order of the enum in expression.h. *)
PREC_NONE       == 0
PREC_ASSIGNMENT == 1
PREC_EQUALITY   == 4
PREC_COMPARISON == 5
PREC_TERM       == 6
PREC_FACTOR     == 7
PREC_UNARY      == 8

Precedence == 0..10

(* The three columns of the table rules[]: prefix, infix and prec. *)
PrefixRule(tok) ==
  CASE tok \in ConstantToken -> "constant"
    [] tok \in LiteralToken  -> "literal"
    [] tok \in UnaryToken    -> "unary"
    [] tok = "OPAR_TOKEN"    -> "grouping"
    [] OTHER                 -> "NULL"

InfixRule(tok) == IF tok \in BinaryToken THEN "binary" ELSE "NULL"

RulePrec(tok) ==
  CASE tok \in {"SLASH_TOKEN", "MUL_TOKEN", "MOD_TOKEN"}           -> PREC_FACTOR
    [] tok \in {"ADD_TOKEN", "SUB_TOKEN"}                          -> PREC_TERM
    [] tok \in {"LT_TOKEN", "GT_TOKEN", "LTE_TOKEN", "GTE_TOKEN"}  -> PREC_COMPARISON
    [] tok \in {"EQUALITY_TOKEN", "NEQ_TOKEN"}                     -> PREC_EQUALITY
    [] OTHER                                                       -> PREC_NONE

-----------------------------------------------------------------------------
(* Opcodes, numbered as in the enum of codeblocks.h. *)
OP_CONSTANT == 0
OP_ADD      == 1
OP_SUB      == 2
OP_MUL      == 3
OP_DIV      == 4
OP_MOD      == 5
OP_NEG      == 6
OP_NOTHING  == 7
OP_TRUE     == 8
OP_FALSE    == 9
OP_NOT      == 10
OP_EQUALITY == 11
OP_NEQ      == 12
OP_LT       == 13
OP_GT       == 14
OP_LTE      == 15
OP_GTE      == 16
OP_RETURN   == 17

ArithmeticOp == OP_ADD .. OP_MOD
ComparisonOp == OP_EQUALITY .. OP_GTE
BinaryOp     == ArithmeticOp \cup ComparisonOp
UnaryOp      == {OP_NEG, OP_NOT}
LiteralOp    == {OP_NOTHING, OP_TRUE, OP_FALSE}

LiteralOpcode(tok) ==
  CASE tok = "FALSE_TOKEN" -> OP_FALSE
    [] tok = "TRUE_TOKEN"  -> OP_TRUE
    [] OTHER               -> OP_NOTHING

UnaryOpcode(tok) == IF tok = "SUB_TOKEN" THEN OP_NEG ELSE OP_NOT

BinaryOpcode(tok) ==
  CASE tok = "ADD_TOKEN"      -> OP_ADD
    [] tok = "SUB_TOKEN"      -> OP_SUB
    [] tok = "MUL_TOKEN"      -> OP_MUL
    [] tok = "SLASH_TOKEN"    -> OP_DIV
    [] tok = "MOD_TOKEN"      -> OP_MOD
    [] tok = "EQUALITY_TOKEN" -> OP_EQUALITY
    [] tok = "NEQ_TOKEN"      -> OP_NEQ
    [] tok = "LT_TOKEN"       -> OP_LT
    [] tok = "GT_TOKEN"       -> OP_GT
    [] tok = "LTE_TOKEN"      -> OP_LTE
    [] OTHER                  -> OP_GTE

-----------------------------------------------------------------------------
ValueType ==
  {"VAL_INUM", "VAL_UNUM", "VAL_FNUM", "VAL_BOOL", "VAL_NOTHING", "VAL_OBJ"}

(* The value type that unum(), inum(), fnum() and string() give a constant. *)
ConstantType(tok) ==
  CASE tok = "UNUM_TOKEN" -> "VAL_UNUM"
    [] tok = "INUM_TOKEN" -> "VAL_INUM"
    [] tok = "FNUM_TOKEN" -> "VAL_FNUM"
    [] OTHER              -> "VAL_OBJ"
=============================================================================
