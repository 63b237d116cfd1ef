------------------------------ MODULE Grammar -------------------------------
(***************************************************************************)
(* The language of the expression compiler as a grammar that also gives    *)
(* the code.  There is one rule for each function of expression.c that     *)
(* parses, and no algorithm: the language is the smallest set that is      *)
(* closed under the rules.                                                 *)
(*                                                                         *)
(* A sentence has a level.  The binary operators of its text that are in   *)
(* no parentheses have at least this precedence, and those of the same     *)
(* precedence group to the left.  K stands for the constants of the block  *)
(* the code is in: OP_CONSTANT is followed by an index into them.          *)
(***************************************************************************)
EXTENDS Tokens, Sequences

PREC_PRIMARY == 10

AnySentence ==
  [level : Precedence, text : Seq(TextToken), words : Seq(Nat)]

Sentence(level, text, words) ==
  [level |-> level, text |-> text, words |-> words]

AtLevel(R, p) == {s \in R : s.level = p}

(* unum(), inum(), fnum() and string() *)
ConstantRule(K) ==
  {Sentence(PREC_PRIMARY, <<c[1]>>, <<OP_CONSTANT, c[2]>>) :
     c \in {x \in ConstantToken \X (0 .. Len(K) - 1) : K[x[2] + 1] = ConstantType(x[1])}}

(* literal() *)
LiteralRule ==
  {Sentence(PREC_PRIMARY, <<tok>>, <<LiteralOpcode(tok)>>) : tok \in LiteralToken}

(* grouping() *)
GroupingRule(R) ==
  {Sentence(PREC_PRIMARY, <<"OPAR_TOKEN">> \o s.text \o <<"CPAR_TOKEN">>, s.words) :
     s \in AtLevel(R, PREC_ASSIGNMENT)}

(* unary() *)
UnaryRule(R) ==
  {Sentence(PREC_UNARY, <<tok>> \o s.text, s.words \o <<UnaryOpcode(tok)>>) :
     tok \in UnaryToken, s \in AtLevel(R, PREC_UNARY)}

(* abinary() and cbinary() *)
BinaryRule(R) ==
  UNION {{Sentence(RulePrec(tok), l.text \o <<tok>> \o r.text,
                   l.words \o r.words \o <<BinaryOpcode(tok)>>) :
            l \in AtLevel(R, RulePrec(tok)), r \in AtLevel(R, RulePrec(tok) + 1)} :
         tok \in BinaryToken}

(* What binds strongly enough for one level does for the weaker ones. *)
WeakerRule(R) ==
  UNION {{Sentence(p, s.text, s.words) : p \in 0 .. s.level} : s \in R}

Produced(R, K) ==
  ConstantRule(K) \cup LiteralRule \cup GroupingRule(R) \cup UnaryRule(R)
    \cup BinaryRule(R) \cup WeakerRule(R)

Closed(R, K) == R \subseteq AnySentence /\ Produced(R, K) \subseteq R

(* The rules give the text at this level, and these words as its code. *)
Derived(level, text, words, K) ==
  \A R \in SUBSET AnySentence :
    Closed(R, K) => Sentence(level, text, words) \in R
=============================================================================
