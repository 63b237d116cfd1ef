----------------------- MODULE CompilerLanguageProofs -----------------------
(***************************************************************************)
(* The proof that the compiler translates: the code of an accepted line is *)
(* one that the rules of Grammar give for the whole text of the line, and  *)
(* that it accepts every line whose text these rules give.                 *)
(***************************************************************************)
EXTENDS CompilerProofs, Grammar

-----------------------------------------------------------------------------
LEMMA SentenceFields ==
  ASSUME NEW p, NEW s, NEW c
  PROVE  /\ Sentence(p, s, c).level = p
         /\ Sentence(p, s, c).text = s
         /\ Sentence(p, s, c).words = c
         /\ Sentence(p, s, c) \in AnySentence
              <=> p \in Precedence /\ s \in Seq(TextToken) /\ c \in Seq(Nat)
BY DEF Sentence, AnySentence

(* One lemma for each rule of the grammar. *)
LEMMA DerivedConstant ==
  ASSUME NEW K, NEW tok \in ConstantToken, NEW i \in 0 .. Len(K) - 1,
         K[i + 1] = ConstantType(tok)
  PROVE  Derived(PREC_PRIMARY, <<tok>>, <<OP_CONSTANT, i>>, K)
<1> DEFINE x == <<tok, i>>
<1>1. x \in ConstantToken \X (0 .. Len(K) - 1) /\ K[x[2] + 1] = ConstantType(x[1])
  OBVIOUS
<1>2. Sentence(PREC_PRIMARY, <<x[1]>>, <<OP_CONSTANT, x[2]>>) \in ConstantRule(K)
  BY <1>1 DEF ConstantRule
<1> QED  BY <1>2 DEF Derived, Closed, Produced

LEMMA DerivedLiteral ==
  ASSUME NEW K, NEW tok \in LiteralToken
  PROVE  Derived(PREC_PRIMARY, <<tok>>, <<LiteralOpcode(tok)>>, K)
BY DEF Derived, Closed, Produced, LiteralRule

LEMMA DerivedGrouping ==
  ASSUME NEW K, NEW s, NEW c, Derived(PREC_ASSIGNMENT, s, c, K)
  PROVE  Derived(PREC_PRIMARY, <<"OPAR_TOKEN">> \o s \o <<"CPAR_TOKEN">>, c, K)
<1> SUFFICES ASSUME NEW R \in SUBSET AnySentence, Closed(R, K)
             PROVE  Sentence(PREC_PRIMARY, <<"OPAR_TOKEN">> \o s \o <<"CPAR_TOKEN">>, c) \in R
  BY DEF Derived
<1> DEFINE x == Sentence(PREC_ASSIGNMENT, s, c)
<1>1. x \in AtLevel(R, PREC_ASSIGNMENT) /\ x.text = s /\ x.words = c
  BY SentenceFields DEF Derived, AtLevel
<1> HIDE DEF x
<1>2. Sentence(PREC_PRIMARY, <<"OPAR_TOKEN">> \o x.text \o <<"CPAR_TOKEN">>, x.words)
        \in GroupingRule(R)
  BY <1>1 DEF GroupingRule
<1> QED  BY <1>1, <1>2 DEF Closed, Produced

LEMMA DerivedUnary ==
  ASSUME NEW K, NEW tok \in UnaryToken, NEW s, NEW c, Derived(PREC_UNARY, s, c, K)
  PROVE  Derived(PREC_UNARY, <<tok>> \o s, c \o <<UnaryOpcode(tok)>>, K)
<1> SUFFICES ASSUME NEW R \in SUBSET AnySentence, Closed(R, K)
             PROVE  Sentence(PREC_UNARY, <<tok>> \o s, c \o <<UnaryOpcode(tok)>>) \in R
  BY DEF Derived
<1> DEFINE x == Sentence(PREC_UNARY, s, c)
<1>1. x \in AtLevel(R, PREC_UNARY) /\ x.text = s /\ x.words = c
  BY SentenceFields DEF Derived, AtLevel
<1> HIDE DEF x
<1>2. Sentence(PREC_UNARY, <<tok>> \o x.text, x.words \o <<UnaryOpcode(tok)>>)
        \in UnaryRule(R)
  BY <1>1 DEF UnaryRule
<1> QED  BY <1>1, <1>2 DEF Closed, Produced

LEMMA DerivedBinary ==
  ASSUME NEW K, NEW tok \in BinaryToken, NEW s, NEW c, NEW t, NEW d,
         Derived(RulePrec(tok), s, c, K), Derived(RulePrec(tok) + 1, t, d, K)
  PROVE  Derived(RulePrec(tok), s \o <<tok>> \o t, c \o d \o <<BinaryOpcode(tok)>>, K)
<1> DEFINE p == RulePrec(tok)
           y == Sentence(p, s \o <<tok>> \o t, c \o d \o <<BinaryOpcode(tok)>>)
<1> SUFFICES ASSUME NEW R \in SUBSET AnySentence, Closed(R, K)
             PROVE  y \in R
  BY DEF Derived
<1> DEFINE l == Sentence(p, s, c)
           r == Sentence(p + 1, t, d)
<1>1. /\ l \in AtLevel(R, p) /\ l.text = s /\ l.words = c
      /\ r \in AtLevel(R, p + 1) /\ r.text = t /\ r.words = d
  BY SentenceFields DEF Derived, AtLevel
<1> HIDE DEF l, r
<1>2. Sentence(p, l.text \o <<tok>> \o r.text, l.words \o r.words \o <<BinaryOpcode(tok)>>)
        \in BinaryRule(R)
  BY <1>1 DEF BinaryRule
<1> QED  BY <1>1, <1>2 DEF Closed, Produced

LEMMA DerivedWeaker ==
  ASSUME NEW K, NEW p, NEW q \in 0 .. p, NEW s, NEW c, Derived(p, s, c, K)
  PROVE  Derived(q, s, c, K)
<1> SUFFICES ASSUME NEW R \in SUBSET AnySentence, Closed(R, K)
             PROVE  Sentence(q, s, c) \in R
  BY DEF Derived
<1> DEFINE x == Sentence(p, s, c)
<1>1. x \in R /\ x.level = p /\ x.text = s /\ x.words = c
  BY SentenceFields DEF Derived
<1> HIDE DEF x
<1>2. Sentence(q, x.text, x.words) \in WeakerRule(R)
  BY <1>1 DEF WeakerRule
<1> QED  BY <1>1, <1>2 DEF Closed, Produced

(* A constant more takes no sentence away. *)
LEMMA DerivedExtends ==
  ASSUME NEW K \in Seq(ValueType), NEW v \in ValueType,
         NEW p, NEW s, NEW c, Derived(p, s, c, K)
  PROVE  Derived(p, s, c, Append(K, v))
<1> SUFFICES ASSUME NEW R \in SUBSET AnySentence, Closed(R, Append(K, v))
             PROVE  Closed(R, K)
  BY DEF Derived
<1> DEFINE L == Append(K, v)
<1>1. /\ Len(L) = Len(K) + 1 /\ Len(K) \in Nat
      /\ \A i \in 1 .. Len(K) : L[i] = K[i]
  BY AppendProperties, LenProperties
<1> HIDE DEF L
<1>2. ConstantRule(K) \subseteq ConstantRule(L)
  <2> SUFFICES ASSUME NEW x \in ConstantToken \X (0 .. Len(K) - 1),
                      K[x[2] + 1] = ConstantType(x[1])
               PROVE  x \in ConstantToken \X (0 .. Len(L) - 1)
                      /\ L[x[2] + 1] = ConstantType(x[1])
    BY DEF ConstantRule
  <2>1. x[2] \in 0 .. Len(K) - 1
    OBVIOUS
  <2>2. x[2] + 1 \in 1 .. Len(K) /\ x[2] \in 0 .. Len(L) - 1
    BY <1>1, <2>1
  <2> QED  BY <1>1, <2>2
<1> QED  BY <1>2 DEF Closed, Produced, L

LEMMA TokensAreText ==
  /\ ConstantToken \cup LiteralToken \cup UnaryToken \cup BinaryToken \subseteq TextToken
  /\ {"OPAR_TOKEN", "CPAR_TOKEN"} \subseteq TextToken
  /\ \A tok \in BinaryToken : RulePrec(tok) \in 4 .. 7
  /\ {PREC_ASSIGNMENT, PREC_UNARY, PREC_PRIMARY} \subseteq Precedence
  /\ OP_CONSTANT \in Nat
  /\ \A tok : /\ LiteralOpcode(tok) \in Nat
              /\ UnaryOpcode(tok) \in Nat
              /\ BinaryOpcode(tok) \in Nat
<1>1. \A tok \in BinaryToken : RulePrec(tok) \in 4 .. 7
  BY DEF RulePrec, BinaryToken, ArithmeticToken, ComparisonToken, PREC_FACTOR,
         PREC_TERM, PREC_COMPARISON, PREC_EQUALITY
<1>2. OP_CONSTANT \in Nat
  BY DEF OP_CONSTANT
<1>3. \A tok : /\ LiteralOpcode(tok) \in Nat
               /\ UnaryOpcode(tok) \in Nat
               /\ BinaryOpcode(tok) \in Nat
  BY OpcodeFacts
<1>4. {PREC_ASSIGNMENT, PREC_UNARY, PREC_PRIMARY} \subseteq Precedence
  BY DEF PREC_ASSIGNMENT, PREC_UNARY, PREC_PRIMARY, Precedence
<1> QED  BY <1>1, <1>2, <1>3, <1>4 DEF TextToken

LEMMA SingleSeq ==
  ASSUME NEW S, NEW e \in S
  PROVE  <<e>> \in Seq(S)
OBVIOUS

LEMMA SentenceType ==
  ASSUME NEW p \in Precedence, NEW s \in Seq(TextToken), NEW c \in Seq(Nat)
  PROVE  Sentence(p, s, c) \in AnySentence
BY SentenceFields

(* The rules make sentences of sentences, so the language is one of them.  *)
LEMMA SentencesClosed ==
  ASSUME NEW K, Len(K) \in Nat
  PROVE  Closed(AnySentence, K)
<1>1. ConstantRule(K) \subseteq AnySentence
  <2> SUFFICES ASSUME NEW tok \in ConstantToken, NEW i \in 0 .. Len(K) - 1
               PROVE  Sentence(PREC_PRIMARY, <<tok>>, <<OP_CONSTANT, i>>) \in AnySentence
    BY DEF ConstantRule
  <2>1. <<tok>> \in Seq(TextToken)
    BY TokensAreText, SingleSeq
  <2>2. <<OP_CONSTANT, i>> \in Seq(Nat)
    BY TokensAreText
  <2> QED  BY <2>1, <2>2, SentenceType, TokensAreText
<1>2. LiteralRule \subseteq AnySentence
  <2> SUFFICES ASSUME NEW tok \in LiteralToken
               PROVE  Sentence(PREC_PRIMARY, <<tok>>, <<LiteralOpcode(tok)>>) \in AnySentence
    BY DEF LiteralRule
  <2>1. <<tok>> \in Seq(TextToken) /\ <<LiteralOpcode(tok)>> \in Seq(Nat)
    BY TokensAreText, SingleSeq
  <2> QED  BY <2>1, SentenceType, TokensAreText
<1>3. ASSUME NEW x \in AnySentence
      PROVE  /\ x.level \in Precedence /\ x.text \in Seq(TextToken) /\ x.words \in Seq(Nat)
             /\ x.level \in 0 .. 10
  BY DEF AnySentence, Precedence
<1>4. GroupingRule(AnySentence) \subseteq AnySentence
  <2> SUFFICES ASSUME NEW x \in AnySentence
               PROVE  Sentence(PREC_PRIMARY, <<"OPAR_TOKEN">> \o x.text \o <<"CPAR_TOKEN">>,
                               x.words) \in AnySentence
    BY DEF GroupingRule, AtLevel
  <2>1. <<"OPAR_TOKEN">> \in Seq(TextToken) /\ <<"CPAR_TOKEN">> \in Seq(TextToken)
    BY TokensAreText, SingleSeq
  <2>2. <<"OPAR_TOKEN">> \o x.text \o <<"CPAR_TOKEN">> \in Seq(TextToken)
    BY <1>3, <2>1, ConcatProperties
  <2> QED  BY <1>3, <2>2, SentenceType, TokensAreText
<1>5. UnaryRule(AnySentence) \subseteq AnySentence
  <2> SUFFICES ASSUME NEW y \in UnaryRule(AnySentence)
               PROVE  y \in AnySentence
    OBVIOUS
  <2>1. PICK tok \in UnaryToken, x \in AnySentence :
          y = Sentence(PREC_UNARY, <<tok>> \o x.text, x.words \o <<UnaryOpcode(tok)>>)
    BY DEF UnaryRule, AtLevel
  <2>2. <<tok>> \in Seq(TextToken) /\ <<UnaryOpcode(tok)>> \in Seq(Nat)
    BY TokensAreText, SingleSeq
  <2>3. <<tok>> \o x.text \in Seq(TextToken)
        /\ x.words \o <<UnaryOpcode(tok)>> \in Seq(Nat)
    BY <1>3, <2>2, ConcatProperties
  <2> QED  BY <2>1, <2>3, SentenceType, TokensAreText
<1>6. BinaryRule(AnySentence) \subseteq AnySentence
  <2> SUFFICES ASSUME NEW tok \in BinaryToken, NEW l \in AnySentence, NEW r \in AnySentence,
                      NEW y, y = Sentence(RulePrec(tok), l.text \o <<tok>> \o r.text,
                                          l.words \o r.words \o <<BinaryOpcode(tok)>>)
               PROVE  y \in AnySentence
    <3> SUFFICES ASSUME NEW y \in BinaryRule(AnySentence) PROVE y \in AnySentence
      OBVIOUS
    <3>1. PICK tok \in BinaryToken :
            y \in {Sentence(RulePrec(tok), l.text \o <<tok>> \o r.text,
                            l.words \o r.words \o <<BinaryOpcode(tok)>>) :
                     l \in AtLevel(AnySentence, RulePrec(tok)),
                     r \in AtLevel(AnySentence, RulePrec(tok) + 1)}
      BY DEF BinaryRule
    <3>2. PICK l \in AtLevel(AnySentence, RulePrec(tok)),
               r \in AtLevel(AnySentence, RulePrec(tok) + 1) :
            y = Sentence(RulePrec(tok), l.text \o <<tok>> \o r.text,
                         l.words \o r.words \o <<BinaryOpcode(tok)>>)
      BY <3>1
    <3>3. l \in AnySentence /\ r \in AnySentence
      BY DEF AtLevel
    <3> QED  BY <3>2, <3>3
  <2>1. <<tok>> \in Seq(TextToken) /\ <<BinaryOpcode(tok)>> \in Seq(Nat)
        /\ RulePrec(tok) \in Precedence
    BY TokensAreText, SingleSeq DEF Precedence
  <2>2. l.text \o <<tok>> \o r.text \in Seq(TextToken)
    BY <1>3, <2>1, ConcatProperties
  <2>3. l.words \o r.words \o <<BinaryOpcode(tok)>> \in Seq(Nat)
    BY <1>3, <2>1, ConcatProperties
  <2> QED  BY <2>1, <2>2, <2>3, SentenceType
<1>7. WeakerRule(AnySentence) \subseteq AnySentence
  <2> SUFFICES ASSUME NEW x \in AnySentence, NEW q \in 0 .. x.level
               PROVE  Sentence(q, x.text, x.words) \in AnySentence
    BY DEF WeakerRule
  <2>1. q \in Precedence
    BY <1>3 DEF Precedence
  <2>2. x.text \in Seq(TextToken) /\ x.words \in Seq(Nat)
    BY <1>3
  <2> QED  BY <2>1, <2>2, SentenceType
<1> QED  BY <1>1, <1>2, <1>4, <1>5, <1>6, <1>7 DEF Closed, Produced

LEMMA DerivedType ==
  ASSUME NEW K, Len(K) \in Nat, NEW p, NEW s, NEW c, Derived(p, s, c, K)
  PROVE  p \in Precedence /\ s \in Seq(TextToken) /\ c \in Seq(Nat)
<1>1. Sentence(p, s, c) \in AnySentence
  BY SentencesClosed DEF Derived
<1> QED  BY <1>1, SentenceFields

(* A larger set of sentences gives no fewer. *)
LEMMA ProducedGrows ==
  ASSUME NEW K, NEW R, NEW Q, R \subseteq Q
  PROVE  Produced(R, K) \subseteq Produced(Q, K)
<1>1. \A p : AtLevel(R, p) \subseteq AtLevel(Q, p)
  BY DEF AtLevel
<1>2. GroupingRule(R) \subseteq GroupingRule(Q)
  BY <1>1 DEF GroupingRule
<1>3. UnaryRule(R) \subseteq UnaryRule(Q)
  BY <1>1 DEF UnaryRule
<1>4. BinaryRule(R) \subseteq BinaryRule(Q)
  BY <1>1 DEF BinaryRule
<1>5. WeakerRule(R) \subseteq WeakerRule(Q)
  BY DEF WeakerRule
<1> QED  BY <1>2, <1>3, <1>4, <1>5 DEF Produced

-----------------------------------------------------------------------------
(* text is what the scanner lets through of the first k tokens of s. *)
Reads(s, k, text) ==
  \E at \in [1 .. Len(text) -> 1 .. k] :
    /\ \A i, j \in 1 .. Len(text) : i < j => at[i] < at[j]
    /\ \A j \in 1 .. Len(text) : text[j] = s[at[j]]
    /\ \A i \in 1 .. k :
         s[i] # "ERROR_TOKEN" <=> \E j \in 1 .. Len(text) : at[j] = i

LEMMA ReadsNothing ==
  ASSUME NEW s
  PROVE  Reads(s, 0, << >>)
<1> DEFINE at == [j \in 1 .. 0 |-> j]
<1>1. at \in [1 .. 0 -> 1 .. 0]
  OBVIOUS
<1> DEFINE text == << >>
<1>2. Len(text) = 0
  OBVIOUS
<1> HIDE DEF at, text
<1>3. \A j \in 1 .. Len(text) : FALSE
  BY <1>2
<1>4. at \in [1 .. Len(text) -> 1 .. 0] /\ \A j \in 1 .. 0 : FALSE
  BY <1>1, <1>2
<1>5. Reads(s, 0, text)
  BY <1>3, <1>4 DEF Reads
<1> QED  BY <1>5 DEF text

LEMMA ReadsNext ==
  ASSUME NEW s \in Seq(TextToken), NEW text \in Seq(TextToken),
         NEW k \in 0 .. Len(s), NEW m \in k + 1 .. Len(s), Reads(s, k, text),
         s[m] # "ERROR_TOKEN", \A i \in k + 1 .. m - 1 : s[i] = "ERROR_TOKEN"
  PROVE  Reads(s, m, Append(text, s[m]))
<1> DEFINE new == Append(text, s[m])
           n   == Len(text)
<1>1. /\ Len(s) \in Nat /\ n \in Nat /\ k \in Nat /\ m \in Nat /\ k < m
      /\ s[m] \in TextToken
  <2>1. Len(s) \in Nat /\ Len(text) \in Nat
    BY LenProperties
  <2>2. k \in Nat /\ m \in Nat /\ k < m /\ m \in 1 .. Len(s)
    BY <2>1
  <2> QED  BY <2>1, <2>2, ElementOfSeq
<1>2. /\ Len(new) = n + 1
      /\ \A j \in 1 .. n : new[j] = text[j]
      /\ new[n + 1] = s[m]
  BY <1>1, AppendProperties
<1>3. PICK at \in [1 .. n -> 1 .. k] :
        /\ \A i, j \in 1 .. n : i < j => at[i] < at[j]
        /\ \A j \in 1 .. n : text[j] = s[at[j]]
        /\ \A i \in 1 .. k : s[i] # "ERROR_TOKEN" <=> \E j \in 1 .. n : at[j] = i
  BY DEF Reads
<1> HIDE DEF n, new
<1> DEFINE to == [j \in 1 .. n + 1 |-> IF j = n + 1 THEN m ELSE at[j]]
<1>4. /\ to \in [1 .. n + 1 -> 1 .. m]
      /\ to[n + 1] = m
      /\ \A j \in 1 .. n : to[j] = at[j] /\ at[j] \in 1 .. k
  BY <1>1, <1>3
<1> HIDE DEF to
<1>5. ASSUME NEW i \in 1 .. n + 1, NEW j \in 1 .. n + 1, i < j
      PROVE  to[i] < to[j]
  <2>1. i \in 1 .. n /\ to[i] \in 1 .. k
    BY <1>1, <1>4, <1>5
  <2>2. CASE j = n + 1
    BY <1>1, <1>4, <2>1, <2>2
  <2>3. CASE j \in 1 .. n
    BY <1>3, <1>4, <1>5, <2>1, <2>3
  <2> QED  BY <1>1, <2>2, <2>3
<1>6. \A j \in 1 .. n + 1 : new[j] = s[to[j]]
  BY <1>1, <1>2, <1>3, <1>4
<1>7. ASSUME NEW i \in 1 .. m
      PROVE  s[i] # "ERROR_TOKEN" <=> \E j \in 1 .. n + 1 : to[j] = i
  <2>1. CASE i \in 1 .. k
    <3>1. s[i] # "ERROR_TOKEN" <=> \E j \in 1 .. n : to[j] = i
      BY <1>3, <1>4, <2>1
    <3>2. to[n + 1] # i
      BY <1>1, <1>4, <2>1
    <3>3. \A j \in 1 .. n + 1 : j \in 1 .. n \/ j = n + 1
      BY <1>1
    <3>4. 1 .. n \subseteq 1 .. n + 1
      BY <1>1
    <3> QED  BY <3>1, <3>2, <3>3, <3>4
  <2>2. CASE i \in k + 1 .. m - 1
    <3>1. \A j \in 1 .. n + 1 : j \in 1 .. n \/ j = n + 1
      BY <1>1
    <3>2. \A j \in 1 .. n + 1 : to[j] \in 1 .. k \/ to[j] = m
      BY <1>4, <3>1
    <3>3. ASSUME NEW j \in 1 .. n + 1 PROVE to[j] # i
      <4>1. CASE to[j] \in 1 .. k
        BY <1>1, <2>2, <4>1
      <4>2. CASE to[j] = m
        BY <1>1, <2>2, <4>2
      <4> QED  BY <3>2, <4>1, <4>2
    <3> QED  BY <2>2, <3>3
  <2>3. CASE i = m
    BY <1>1, <1>4, <2>3
  <2> QED  BY <1>1, <2>1, <2>2, <2>3
<1> DEFINE l == Len(new)
<1>8. l = n + 1
  BY <1>2
<1> HIDE DEF l
<1>9. /\ to \in [1 .. l -> 1 .. m]
      /\ \A i, j \in 1 .. l : i < j => to[i] < to[j]
      /\ \A j \in 1 .. l : new[j] = s[to[j]]
      /\ \A i \in 1 .. m : s[i] # "ERROR_TOKEN" <=> \E j \in 1 .. l : to[j] = i
  BY <1>4, <1>5, <1>6, <1>7, <1>8
<1>10. Reads(s, m, new)
  BY <1>9 DEF Reads, l
<1> QED  BY <1>10 DEF new

LEMMA ReadsEnd ==
  ASSUME NEW s \in Seq(TextToken), NEW text \in Seq(TextToken),
         NEW k \in 0 .. Len(s), Reads(s, k, text),
         \A i \in k + 1 .. Len(s) : s[i] = "ERROR_TOKEN"
  PROVE  Reads(s, Len(s), text)
<1>1. Len(s) \in Nat /\ Len(text) \in Nat
  BY LenProperties
<1>2. PICK at \in [1 .. Len(text) -> 1 .. k] :
        /\ \A i, j \in 1 .. Len(text) : i < j => at[i] < at[j]
        /\ \A j \in 1 .. Len(text) : text[j] = s[at[j]]
        /\ \A i \in 1 .. k :
             s[i] # "ERROR_TOKEN" <=> \E j \in 1 .. Len(text) : at[j] = i
  BY DEF Reads
<1>3. /\ at \in [1 .. Len(text) -> 1 .. Len(s)]
      /\ \A j \in 1 .. Len(text) : at[j] \in 1 .. k
  BY <1>1, <1>2
<1>4. \A i \in 1 .. Len(s) :
        s[i] # "ERROR_TOKEN" <=> \E j \in 1 .. Len(text) : at[j] = i
  BY <1>1, <1>2, <1>3
<1> QED  BY <1>2, <1>3, <1>4 DEF Reads

(* What is left of the text s, of which k tokens were read. *)
Rest(s, k) == SubSeq(s, k + 1, Len(s))

LEMMA RestProperties ==
  ASSUME NEW s \in Seq(TextToken), NEW k \in 0 .. Len(s)
  PROVE  /\ Rest(s, k) \in Seq(TextToken)
         /\ Len(Rest(s, k)) = Len(s) - k
         /\ \A i \in 1 .. Len(s) - k : Rest(s, k)[i] = s[k + i]
<1>1. Len(s) \in Nat /\ k \in Nat /\ k <= Len(s) /\ \A i \in k + 1 .. Len(s) : s[i] \in TextToken
  BY LenProperties, ElementOfSeq
<1>2. /\ Rest(s, k) \in Seq(TextToken)
      /\ Len(Rest(s, k)) = IF k + 1 <= Len(s) THEN Len(s) - (k + 1) + 1 ELSE 0
      /\ \A i \in 1 .. Len(s) - (k + 1) + 1 : Rest(s, k)[i] = s[k + 1 + i - 1]
  BY <1>1, SubSeqProperties DEF Rest
<1>3. Len(Rest(s, k)) = Len(s) - k
  BY <1>1, <1>2
<1>4. ASSUME NEW i \in 1 .. Len(s) - k PROVE Rest(s, k)[i] = s[k + i]
  <2>1. k + 1 + i - 1 = k + i /\ i \in 1 .. Len(s) - (k + 1) + 1
    BY <1>1
  <2> QED  BY <1>2, <2>1
<1> QED  BY <1>2, <1>3, <1>4

LEMMA RestOfRest ==
  ASSUME NEW s \in Seq(TextToken), NEW k \in 0 .. Len(s), NEW i \in 1 .. Len(s) - k
  PROVE  SubSeq(Rest(s, k), i + 1, Len(Rest(s, k))) = Rest(s, k + i)
<1> DEFINE t == Rest(s, k)
           u == SubSeq(t, i + 1, Len(t))
           v == Rest(s, k + i)
<1>1. Len(s) \in Nat /\ k \in Nat /\ i \in Nat /\ k <= Len(s) /\ i <= Len(s) - k
  BY LenProperties
<1>2. /\ t \in Seq(TextToken)
      /\ Len(t) = Len(s) - k
      /\ \A j \in 1 .. Len(s) - k : t[j] = s[k + j]
  BY RestProperties
<1>3. k + i \in 0 .. Len(s)
  BY <1>1
<1>4. /\ v \in Seq(TextToken)
      /\ Len(v) = Len(s) - (k + i)
      /\ \A j \in 1 .. Len(s) - (k + i) : v[j] = s[k + i + j]
  BY <1>3, RestProperties
<1>5. \A j \in i + 1 .. Len(t) : t[j] \in TextToken
  BY <1>1, <1>2, ElementOfSeq
<1> HIDE DEF t, v
<1>6. /\ u \in Seq(TextToken)
      /\ Len(u) = IF i + 1 <= Len(t) THEN Len(t) - (i + 1) + 1 ELSE 0
      /\ \A j \in 1 .. Len(t) - (i + 1) + 1 : u[j] = t[i + 1 + j - 1]
  BY <1>1, <1>2, <1>5, SubSeqProperties
<1> HIDE DEF u
<1>7. Len(u) = Len(v)
  <2>1. CASE i + 1 <= Len(t)
    BY <1>1, <1>2, <1>4, <1>6, <2>1
  <2>2. CASE ~(i + 1 <= Len(t))
    <3>1. i = Len(s) - k
      BY <1>1, <1>2, <2>2
    <3>2. Len(u) = 0 /\ Len(v) = Len(s) - (k + i)
      BY <1>4, <1>6, <2>2
    <3> QED  BY <1>1, <3>1, <3>2
  <2> QED  BY <2>1, <2>2
<1>8. ASSUME NEW j \in 1 .. Len(u) PROVE u[j] = v[j]
  <2>1. /\ j \in 1 .. Len(t) - (i + 1) + 1 /\ i + 1 + j - 1 = i + j
        /\ i + j \in 1 .. Len(s) - k /\ k + (i + j) = k + i + j
        /\ j \in 1 .. Len(s) - (k + i)
    BY <1>1, <1>2, <1>4, <1>7
  <2>2. u[j] = t[i + j] /\ t[i + j] = s[k + i + j] /\ v[j] = s[k + i + j]
    BY <1>2, <1>4, <1>6, <2>1
  <2> QED  BY <2>2
<1>9. u = v
  BY <1>4, <1>6, <1>7, <1>8, SeqEqual
<1> QED  BY <1>9 DEF t, u, v

(* One call of advance() reads on from where the one before stopped. *)
LEMMA TokenRead ==
  ASSUME InputTypeOK, NEW tok, GetTok(tok), Readable # << >>,
         NEW s \in Seq(TextToken), NEW text \in Seq(TextToken), NEW k \in 0 .. Len(s),
         Head(Readable) = Rest(s, k), Reads(s, k, text)
  PROVE  /\ tok = "END_OF_FILE" => Reads(s, Len(s), text)
         /\ tok # "END_OF_FILE"
              => \E m \in 1 .. Len(s) :
                   Head(streams') = Rest(s, m) /\ Reads(s, m, Append(text, tok))
<1> DEFINE t == Rest(s, k)
<1>1. /\ t \in Seq(TextToken)
      /\ Len(t) = Len(s) - k
      /\ \A j \in 1 .. Len(s) - k : t[j] = s[k + j]
      /\ DOMAIN t = 1 .. Len(s) - k
      /\ Len(s) \in Nat /\ k \in Nat /\ k <= Len(s)
  <2>1. Len(s) \in Nat /\ k \in Nat /\ k <= Len(s)
    BY LenProperties
  <2>2. /\ t \in Seq(TextToken)
        /\ Len(t) = Len(s) - k
        /\ \A j \in 1 .. Len(s) - k : t[j] = s[k + j]
    BY RestProperties
  <2> HIDE DEF t
  <2>3. DOMAIN t = 1 .. Len(s) - k
    BY <2>2, LenProperties
  <2> QED  BY <2>1, <2>2, <2>3
<1> HIDE DEF t
<1>2. CASE /\ \A i \in DOMAIN t : t[i] = "ERROR_TOKEN"
           /\ tok = "END_OF_FILE"
  <2>1. ASSUME NEW i \in k + 1 .. Len(s) PROVE s[i] = "ERROR_TOKEN"
    <3>1. i - k \in 1 .. Len(s) - k /\ k + (i - k) = i
      BY <1>1
    <3> QED  BY <1>1, <1>2, <3>1
  <2> QED  BY <1>2, <2>1, ReadsEnd
<1>3. ASSUME NEW i \in DOMAIN t, t[i] # "ERROR_TOKEN",
             \A j \in 1 .. i - 1 : t[j] = "ERROR_TOKEN",
             tok = t[i],
             streams' = <<SubSeq(t, i + 1, Len(t))>> \o Tail(Readable)
      PROVE  /\ tok # "END_OF_FILE"
             /\ \E m \in 1 .. Len(s) :
                  Head(streams') = Rest(s, m) /\ Reads(s, m, Append(text, tok))
  <2> DEFINE m == k + i
  <2>0. i \in 1 .. Len(s) - k
    BY <1>1
  <2>1. m \in k + 1 .. Len(s) /\ m \in 1 .. Len(s) /\ i \in 1 .. Len(s) - k /\ tok = s[m]
    <3>1. m \in k + 1 .. Len(s) /\ m \in 1 .. Len(s)
      BY <1>1, <2>0
    <3> QED  BY <1>1, <1>3, <2>0, <3>1
  <2>2. ASSUME NEW j \in k + 1 .. m - 1 PROVE s[j] = "ERROR_TOKEN"
    <3>1. j - k \in 1 .. i - 1 /\ j - k \in 1 .. Len(s) - k /\ k + (j - k) = j
      BY <1>1, <2>1
    <3> QED  BY <1>1, <1>3, <3>1
  <2>3. s[m] # "ERROR_TOKEN"
    BY <1>3, <2>1
  <2> HIDE DEF m
  <2>4. Reads(s, m, Append(text, tok))
    BY <2>1, <2>2, <2>3, ReadsNext
  <2>5. Head(streams') = Rest(s, m)
    <3>1. Tail(Readable) \in Seq(Seq(TextToken))
      BY HeadTailProperties DEF InputTypeOK, Readable
    <3> DEFINE u == SubSeq(t, i + 1, Len(t))
    <3>2. u = Rest(s, m)
      BY <2>1, RestOfRest DEF t, m
    <3>3. streams' = <<u>> \o Tail(Readable)
      BY <1>3
    <3> HIDE DEF u
    <3>4. Head(streams') = u
      BY <3>1, <3>3
    <3> QED  BY <3>2, <3>4
  <2>6. tok # "END_OF_FILE"
    <3>1. tok \in TextToken
      BY <1>1, <1>3, ElementOfSeq
    <3> QED  BY <3>1 DEF TextToken, ConstantToken, LiteralToken, UnaryToken,
                BinaryToken, ArithmeticToken, ComparisonToken
  <2> QED  BY <2>1, <2>4, <2>5, <2>6
<1> QED  BY <1>2, <1>3 DEF GetTok, t

-----------------------------------------------------------------------------
(* The level of the expression that a function asks of get_precedence().   *)
Asked(f) ==
  IF f.fn = "unary" THEN PREC_UNARY
  ELSE IF f.fn = "binary" THEN RulePrec(f.type) + 1
  ELSE PREC_ASSIGNMENT

Entry == {"get_precedence", "get_precedence_loop"}
Rule  == {"grouping", "unary", "binary"}

(* f calls g: get_precedence() is called for what its caller asks, the rule *)
(* functions are called by its loop.                                       *)
Calls(f, g) ==
  /\ g.fn \in Entry => f.fn \notin Entry /\ g.prec = Asked(f)
  /\ g.fn \in Rule => f.fn = "get_precedence_loop"
  /\ g.fn = "binary" => f.prec <= RulePrec(g.type)

Linked(fs) ==
  /\ fs # << >>
  /\ fs[1].fn = "compile"
  /\ \A i \in 2 .. Len(fs) : Calls(fs[i - 1], fs[i])

(* What was read (t) and emitted (w) between the call of f and f's call of *)
(* the frame above it, the calls below left aside: an operator waits with  *)
(* its left operand.                                                       *)
Held(f, t, w, K) ==
  IF f.fn = "grouping" THEN t = <<"OPAR_TOKEN">> /\ w = << >>
  ELSE IF f.fn = "unary" THEN t = <<f.type>> /\ w = << >>
  ELSE IF f.fn = "binary"
    THEN \E l \in Seq(TextToken) :
           t = l \o <<f.type>> /\ Derived(RulePrec(f.type), l, w, K)
  ELSE t = << >> /\ w = << >>

(* a and b are what all the frames of fs hold, one after the other.        *)
Waiting(fs, a, b, K) ==
  \E T \in [Nat -> Seq(TextToken)], W \in [Nat -> Seq(Nat)] :
    /\ T[1] = << >> /\ W[1] = << >>
    /\ \A i \in 1 .. Len(fs) :
         \E t \in Seq(TextToken), w \in Seq(Nat) :
           T[i + 1] = T[i] \o t /\ W[i + 1] = W[i] \o w /\ Held(fs[i], t, w, K)
    /\ a = T[Len(fs) + 1] /\ b = W[Len(fs) + 1]

(* What the frame on top has besides: nothing yet, the operand that its    *)
(* loop goes on with, or the expression it asked for.                      *)
OnTop(f, t, w, K, tok) ==
  IF f.fn = "get_precedence" THEN t = << >> /\ w = << >>
  ELSE IF f.fn = "get_precedence_loop"
    THEN \E m \in Precedence :
           f.prec <= m /\ RulePrec(tok) <= m /\ Derived(m, t, w, K)
  ELSE RulePrec(tok) < Asked(f) /\ Derived(Asked(f), t, w, K)

(* text was read, words were emitted, and tok is the token to come. *)
Parsed(fs, text, words, K, tok) ==
  /\ Linked(fs)
  /\ \E a, t \in Seq(TextToken), b, w \in Seq(Nat) :
       /\ text = a \o t /\ words = b \o w
       /\ Waiting(fs, a, b, K)
       /\ OnTop(fs[Len(fs)], t, w, K, tok)

-----------------------------------------------------------------------------
LEMMA WaitingType ==
  ASSUME NEW fs \in Seq(Frame), NEW a, NEW b, NEW K, Waiting(fs, a, b, K)
  PROVE  a \in Seq(TextToken) /\ b \in Seq(Nat)
<1>1. Len(fs) + 1 \in Nat
  BY LenProperties
<1> QED  BY <1>1 DEF Waiting

LEMMA AssocText ==
  ASSUME NEW a \in Seq(TextToken), NEW b \in Seq(TextToken), NEW c \in Seq(TextToken)
  PROVE  (a \o b) \o c = a \o (b \o c)
BY ConcatAssociative

LEMMA AssocWords ==
  ASSUME NEW a \in Seq(Nat), NEW b \in Seq(Nat), NEW c \in Seq(Nat)
  PROVE  (a \o b) \o c = a \o (b \o c)
BY ConcatAssociative

LEMMA ConcatText ==
  \A a, b, c \in Seq(TextToken) :
    a \o b \in Seq(TextToken) /\ (a \o b) \o c = a \o (b \o c)
<1>1. \A a, b \in Seq(TextToken) : a \o b \in Seq(TextToken)
  BY ConcatProperties
<1> QED  BY <1>1, AssocText, Zenon

LEMMA AssocBehind ==
  ASSUME NEW c \in Seq(TextToken), NEW d \in Seq(TextToken)
  PROVE  \A x \in Seq(TextToken) : (x \o c) \o d = x \o (c \o d)
BY AssocText

LEMMA AssocBefore ==
  ASSUME NEW a \in Seq(TextToken), NEW b \in Seq(TextToken)
  PROVE  \A x \in Seq(TextToken) : (a \o b) \o x = a \o (b \o x)
BY AssocText

LEMMA ConcatWords ==
  \A a, b, c \in Seq(Nat) : a \o b \in Seq(Nat) /\ (a \o b) \o c = a \o (b \o c)
<1>1. \A a, b \in Seq(Nat) : a \o b \in Seq(Nat)
  BY ConcatProperties
<1> QED  BY <1>1, AssocWords, Zenon

LEMMA NothingIsSeq == << >> \in Seq(TextToken) /\ << >> \in Seq(Nat)
OBVIOUS

LEMMA WaitingNothing ==
  ASSUME NEW K
  PROVE  Waiting(<< >>, << >>, << >>, K)
<1> DEFINE T == [i \in Nat |-> << >>]
<1>1. T \in [Nat -> Seq(TextToken)] /\ T \in [Nat -> Seq(Nat)] /\ T[1] = << >>
  BY EmptySeq
<1> DEFINE fs == << >>
<1>2. Len(fs) = 0
  OBVIOUS
<1> HIDE DEF T, fs
<1>3. T[Len(fs) + 1] = << >> /\ \A i \in 1 .. Len(fs) : FALSE
  BY <1>1, <1>2
<1>4. Waiting(fs, << >>, << >>, K)
  BY <1>1, <1>3 DEF Waiting
<1> QED  BY <1>4 DEF fs

LEMMA ExceptOne ==
  ASSUME NEW S, NEW T \in [Nat -> S], NEW m \in Nat, NEW x \in S
  PROVE  /\ [T EXCEPT ![m] = x] \in [Nat -> S]
         /\ [T EXCEPT ![m] = x][m] = x
         /\ \A i \in Nat : i # m => [T EXCEPT ![m] = x][i] = T[i]
OBVIOUS

LEMMA WaitingPush ==
  ASSUME NEW fs \in Seq(Frame), NEW f \in Frame, NEW a, NEW b, NEW K,
         NEW t \in Seq(TextToken), NEW w \in Seq(Nat),
         Waiting(fs, a, b, K), Held(f, t, w, K)
  PROVE  Waiting(Append(fs, f), a \o t, b \o w, K)
<1> DEFINE gs == Append(fs, f)
           n  == Len(fs)
<1>1. /\ n \in Nat /\ Len(gs) = n + 1 /\ gs[n + 1] = f
      /\ \A i \in 1 .. n : gs[i] = fs[i]
  BY AppendProperties, LenProperties
<1>2. PICK T \in [Nat -> Seq(TextToken)], W \in [Nat -> Seq(Nat)] :
        /\ T[1] = << >> /\ W[1] = << >>
        /\ \A i \in 1 .. n :
             \E u \in Seq(TextToken), v \in Seq(Nat) :
               T[i + 1] = T[i] \o u /\ W[i + 1] = W[i] \o v /\ Held(fs[i], u, v, K)
        /\ a = T[n + 1] /\ b = W[n + 1]
  BY DEF Waiting
<1>3. a \in Seq(TextToken) /\ b \in Seq(Nat)
  BY WaitingType
<1>4. a \o t \in Seq(TextToken) /\ b \o w \in Seq(Nat)
  BY <1>3, ConcatProperties
<1> DEFINE T2 == [T EXCEPT ![n + 2] = a \o t]
           W2 == [W EXCEPT ![n + 2] = b \o w]
<1> HIDE DEF n, gs
<1>5. /\ T2 \in [Nat -> Seq(TextToken)] /\ W2 \in [Nat -> Seq(Nat)]
      /\ T2[n + 2] = a \o t /\ W2[n + 2] = b \o w
      /\ \A i \in 1 .. n + 1 : T2[i] = T[i] /\ W2[i] = W[i]
  <2>1. n + 2 \in Nat /\ \A i \in 1 .. n + 1 : i \in Nat /\ i # n + 2
    BY <1>1
  <2>2. /\ T2 \in [Nat -> Seq(TextToken)] /\ T2[n + 2] = a \o t
        /\ \A i \in Nat : i # n + 2 => T2[i] = T[i]
    BY <1>4, <2>1, ExceptOne
  <2>3. /\ W2 \in [Nat -> Seq(Nat)] /\ W2[n + 2] = b \o w
        /\ \A i \in Nat : i # n + 2 => W2[i] = W[i]
    BY <1>4, <2>1, ExceptOne
  <2> HIDE DEF T2, W2
  <2> QED  BY <2>1, <2>2, <2>3
<1> HIDE DEF T2, W2
<1>6. T2[1] = << >> /\ W2[1] = << >>
  <2>1. 1 \in 1 .. n + 1
    BY <1>1
  <2> QED  BY <1>2, <1>5, <2>1
<1>7. ASSUME NEW i \in 1 .. n + 1
      PROVE  \E u \in Seq(TextToken), v \in Seq(Nat) :
               T2[i + 1] = T2[i] \o u /\ W2[i + 1] = W2[i] \o v /\ Held(gs[i], u, v, K)
  <2>1. CASE i = n + 1
    <3>1. i + 1 = n + 2 /\ i \in 1 .. n + 1 /\ gs[i] = f
      BY <1>1, <2>1
    <3>2. T2[i] = a /\ W2[i] = b
      BY <1>2, <1>5, <2>1, <3>1
    <3>3. T2[i + 1] = T2[i] \o t /\ W2[i + 1] = W2[i] \o w /\ Held(gs[i], t, w, K)
      BY <1>5, <3>1, <3>2
    <3> QED  BY <3>3
  <2>2. CASE i \in 1 .. n
    <3>1. i \in 1 .. n + 1 /\ i + 1 \in 1 .. n + 1
      BY <1>1, <2>2
    <3>2. T2[i] = T[i] /\ T2[i + 1] = T[i + 1] /\ W2[i] = W[i] /\ W2[i + 1] = W[i + 1]
          /\ gs[i] = fs[i]
      BY <1>1, <1>5, <2>2, <3>1
    <3>3. PICK u \in Seq(TextToken), v \in Seq(Nat) :
            T[i + 1] = T[i] \o u /\ W[i + 1] = W[i] \o v /\ Held(fs[i], u, v, K)
      BY <1>2, <2>2
    <3>4. T2[i + 1] = T2[i] \o u /\ W2[i + 1] = W2[i] \o v /\ Held(gs[i], u, v, K)
      BY <3>2, <3>3
    <3> QED  BY <3>4
  <2>3. i = n + 1 \/ i \in 1 .. n
    BY <1>1
  <2> QED  BY <2>1, <2>2, <2>3
<1> DEFINE l == Len(gs)
<1>8. l = n + 1
  BY <1>1
<1> HIDE DEF l
<1>9. /\ \A i \in 1 .. l :
           \E u \in Seq(TextToken), v \in Seq(Nat) :
             T2[i + 1] = T2[i] \o u /\ W2[i + 1] = W2[i] \o v /\ Held(gs[i], u, v, K)
      /\ a \o t = T2[l + 1] /\ b \o w = W2[l + 1]
  <2>1. l + 1 = n + 2
    BY <1>1, <1>8
  <2> QED  BY <1>5, <1>7, <1>8, <2>1
<1>10. Waiting(gs, a \o t, b \o w, K)
  BY <1>5, <1>6, <1>9 DEF Waiting, l
<1> QED  BY <1>10 DEF gs

(* f holds the end of a and b, and the frames of cs hold what is before.  *)
HoldsLast(f, cs, a, b, K) ==
  \E a0 \in Seq(TextToken), t \in Seq(TextToken), b0 \in Seq(Nat), w \in Seq(Nat) :
    /\ a = a0 \o t /\ b = b0 \o w
    /\ Held(f, t, w, K)
    /\ Waiting(cs, a0, b0, K)

LEMMA WaitingPop ==
  ASSUME NEW fs \in Seq(Frame), fs # << >>, NEW a, NEW b, NEW K, Waiting(fs, a, b, K)
  PROVE  HoldsLast(fs[Len(fs)], SubSeq(fs, 1, Len(fs) - 1), a, b, K)
<1> DEFINE cs == SubSeq(fs, 1, Len(fs) - 1)
           n  == Len(fs)
<1>1. /\ n \in Nat \ {0} /\ Len(cs) = n - 1
      /\ \A i \in 1 .. n - 1 : cs[i] = fs[i]
  BY OperandsReturn
<1>2. PICK T \in [Nat -> Seq(TextToken)], W \in [Nat -> Seq(Nat)] :
        /\ T[1] = << >> /\ W[1] = << >>
        /\ \A i \in 1 .. n :
             \E u \in Seq(TextToken), v \in Seq(Nat) :
               T[i + 1] = T[i] \o u /\ W[i + 1] = W[i] \o v /\ Held(fs[i], u, v, K)
        /\ a = T[n + 1] /\ b = W[n + 1]
  BY DEF Waiting
<1> HIDE DEF n, cs
<1>3. n \in 1 .. n /\ T[n] \in Seq(TextToken) /\ W[n] \in Seq(Nat)
  BY <1>1, <1>2
<1>4. PICK t \in Seq(TextToken), w \in Seq(Nat) :
        a = T[n] \o t /\ b = W[n] \o w /\ Held(fs[n], t, w, K)
  BY <1>2, <1>3
<1> DEFINE l == Len(cs)
<1>5. l = n - 1 /\ l + 1 = n
  BY <1>1
<1> HIDE DEF l
<1>6. ASSUME NEW i \in 1 .. l
      PROVE  \E u \in Seq(TextToken), v \in Seq(Nat) :
               T[i + 1] = T[i] \o u /\ W[i + 1] = W[i] \o v /\ Held(cs[i], u, v, K)
  <2>1. i \in 1 .. n /\ cs[i] = fs[i]
    BY <1>1, <1>5
  <2> QED  BY <1>2, <2>1
<1>7. T[n] = T[l + 1] /\ W[n] = W[l + 1]
  BY <1>5
<1>8. Waiting(cs, T[n], W[n], K)
  BY <1>2, <1>6, <1>7 DEF Waiting, l
<1>9. HoldsLast(fs[n], cs, a, b, K)
  BY <1>3, <1>4, <1>8 DEF HoldsLast
<1> QED  BY <1>9 DEF cs, n

(* All sentences of K are sentences of L. *)
Extends(K, L) == \A p, s, c : Derived(p, s, c, K) => Derived(p, s, c, L)

LEMMA HeldExtends ==
  ASSUME NEW K, NEW L, Extends(K, L), NEW f, NEW t, NEW w, Held(f, t, w, K)
  PROVE  Held(f, t, w, L)
BY DEF Held, Extends

LEMMA WaitingExtends ==
  ASSUME NEW K, NEW L, Extends(K, L), NEW fs, NEW a, NEW b, Waiting(fs, a, b, K)
  PROVE  Waiting(fs, a, b, L)
<1> DEFINE n == Len(fs)
<1>1. PICK T \in [Nat -> Seq(TextToken)], W \in [Nat -> Seq(Nat)] :
        /\ T[1] = << >> /\ W[1] = << >>
        /\ \A i \in 1 .. n :
             \E u \in Seq(TextToken), v \in Seq(Nat) :
               T[i + 1] = T[i] \o u /\ W[i + 1] = W[i] \o v /\ Held(fs[i], u, v, K)
        /\ a = T[n + 1] /\ b = W[n + 1]
  BY DEF Waiting
<1> HIDE DEF n
<1>2. \A i \in 1 .. n :
        \E u \in Seq(TextToken), v \in Seq(Nat) :
          T[i + 1] = T[i] \o u /\ W[i + 1] = W[i] \o v /\ Held(fs[i], u, v, L)
  BY <1>1, HeldExtends
<1> QED  BY <1>1, <1>2 DEF Waiting, n

-----------------------------------------------------------------------------
LEMMA LinkedPush ==
  ASSUME NEW fs \in Seq(Frame), Linked(fs), NEW f \in Frame, Calls(fs[Len(fs)], f)
  PROVE  Linked(Append(fs, f)) /\ Append(fs, f)[Len(Append(fs, f))] = f
<1> DEFINE gs == Append(fs, f)
           n  == Len(fs)
<1>1. /\ n \in Nat \ {0} /\ Len(gs) = n + 1 /\ gs[n + 1] = f /\ gs # << >>
      /\ \A i \in 1 .. n : gs[i] = fs[i]
  BY AppendProperties, EmptySeq DEF Linked
<1> HIDE DEF gs, n
<1>2. /\ fs[1].fn = "compile"
      /\ \A i \in 2 .. n : Calls(fs[i - 1], fs[i])
      /\ Calls(fs[n], f)
  BY DEF Linked, n
<1>3. gs[1].fn = "compile"
  BY <1>1, <1>2
<1>4. ASSUME NEW i \in 2 .. n + 1 PROVE Calls(gs[i - 1], gs[i])
  <2>1. CASE i = n + 1
    <3>1. i - 1 = n /\ n \in 1 .. n
      BY <1>1, <2>1
    <3>2. gs[i - 1] = fs[n] /\ gs[i] = f
      BY <1>1, <2>1, <3>1
    <3> QED  BY <1>2, <3>2
  <2>2. CASE i \in 2 .. n
    <3>1. i \in 1 .. n /\ i - 1 \in 1 .. n
      BY <1>1, <2>2
    <3>2. gs[i - 1] = fs[i - 1] /\ gs[i] = fs[i]
      BY <1>1, <3>1
    <3> QED  BY <1>2, <2>2, <3>2
  <2> QED  BY <1>1, <2>1, <2>2
<1>5. Linked(gs)
  BY <1>1, <1>3, <1>4 DEF Linked
<1> QED  BY <1>1, <1>5 DEF gs

LEMMA LinkedPop ==
  ASSUME NEW fs \in Seq(Frame), Linked(fs), fs[Len(fs)].fn # "compile"
  PROVE  LET cs == SubSeq(fs, 1, Len(fs) - 1)
         IN  Linked(cs) /\ Calls(cs[Len(cs)], fs[Len(fs)])
<1> DEFINE cs == SubSeq(fs, 1, Len(fs) - 1)
           n  == Len(fs)
<1>1. /\ n \in Nat \ {0} /\ Len(cs) = n - 1 /\ cs \in Seq(Frame)
      /\ \A i \in 1 .. n - 1 : cs[i] = fs[i]
  BY OperandsReturn DEF Linked
<1> HIDE DEF n, cs
<1>2. /\ fs[1].fn = "compile"
      /\ \A i \in 2 .. n : Calls(fs[i - 1], fs[i])
      /\ fs[n].fn # "compile"
  BY DEF Linked, n
<1>3. n # 1
  BY <1>2
<1>4. n \in 2 .. n /\ n - 1 \in 1 .. n - 1 /\ 1 \in 1 .. n - 1
  BY <1>1, <1>3
<1>5. cs[1].fn = "compile" /\ Calls(cs[n - 1], fs[n])
  BY <1>1, <1>2, <1>4
<1>6. ASSUME NEW i \in 2 .. n - 1 PROVE Calls(cs[i - 1], cs[i])
  <2>1. i \in 1 .. n - 1 /\ i - 1 \in 1 .. n - 1 /\ i \in 2 .. n
    BY <1>1
  <2> QED  BY <1>1, <1>2, <2>1
<1>7. cs # << >>
  BY <1>1, <1>4, EmptySeq
<1>8. Linked(cs)
  BY <1>1, <1>5, <1>6, <1>7 DEF Linked
<1> QED  BY <1>1, <1>5, <1>8 DEF cs, n

LEMMA AskedLevel ==
  ASSUME NEW f \in Frame
  PROVE  /\ Asked(f) \in 1 .. 8
         /\ Asked(f) \in Precedence
         /\ f.fn = "binary" => f.type \in BinaryToken
         /\ f.fn = "unary" => f.type \in UnaryToken
         /\ f.fn \in Entry => f.prec \in Precedence
         /\ f.fn \in Entry \cup Rule \cup {"compile", "compile_end"}
<1>1. /\ f.fn = "binary" => f.type \in BinaryToken
      /\ f.fn = "unary" => f.type \in UnaryToken
      /\ f.fn \in Entry => f.prec \in Precedence
      /\ f.fn \in Entry \cup Rule \cup {"compile", "compile_end"}
  BY DEF Frame, Entry, Rule
<1>2. f.fn = "binary" => RulePrec(f.type) \in 4 .. 7
  BY <1>1, TokensAreText
<1>3. Asked(f) \in 1 .. 8
  BY <1>2 DEF Asked, PREC_UNARY, PREC_ASSIGNMENT
<1> QED  BY <1>1, <1>3 DEF Precedence

(* The binding strength of the operand that a rule function returns is no  *)
(* less than what the loop it returns to was entered with.                 *)
LEMMA LoopLevel ==
  ASSUME NEW fs \in Seq(Frame), Linked(fs), fs[Len(fs)].fn \in Entry
  PROVE  fs[Len(fs)].prec \in 1 .. 8
<1> DEFINE cs == SubSeq(fs, 1, Len(fs) - 1)
<1>1. Linked(cs) /\ Calls(cs[Len(cs)], fs[Len(fs)])
  BY LinkedPop DEF Entry
<1>2. cs \in Seq(Frame)
  BY OperandsReturn DEF Linked
<1> HIDE DEF cs
<1>3. cs[Len(cs)] \in Frame
  <2>1. Len(cs) \in 1 .. Len(cs)
    BY <1>1, <1>2, EmptySeq DEF Linked
  <2> QED  BY <1>2, <2>1, ElementOfSeq
<1> QED  BY <1>1, <1>3, AskedLevel DEF Calls

-----------------------------------------------------------------------------
(* What is asked for is less than what an operand without operators is.    *)
LEMMA LevelsBelow ==
  ASSUME NEW tok \in Token, NEW p \in 1 .. 8
  PROVE  /\ PREC_UNARY \in Precedence /\ p <= PREC_UNARY /\ RulePrec(tok) <= PREC_UNARY
         /\ PREC_PRIMARY \in Precedence /\ p <= PREC_PRIMARY /\ RulePrec(tok) <= PREC_PRIMARY
<1>1. RulePrec(tok) \in 0 .. 7
  BY RuleFacts
<1> DEFINE r == RulePrec(tok)
<1> HIDE DEF r
<1>2. r \in 0 .. 7
  BY <1>1 DEF r
<1>3. PREC_UNARY \in Precedence /\ p <= PREC_UNARY /\ r <= PREC_UNARY
  BY <1>2 DEF PREC_UNARY, Precedence
<1>4. PREC_PRIMARY \in Precedence /\ p <= PREC_PRIMARY /\ r <= PREC_PRIMARY
  BY <1>2 DEF PREC_PRIMARY, Precedence
<1> QED  BY <1>3, <1>4 DEF r

LEMMA BelowNext ==
  ASSUME NEW x \in Nat, NEW y \in Nat, x < y + 1
  PROVE  x <= y
OBVIOUS

(* get_precedence() has passed its first token, and its loop is to begin.  *)
LEMMA LoopEntered ==
  ASSUME NEW fs \in Seq(Frame), NEW text, NEW words, NEW K, NEW tok, NEW L,
         Parsed(fs, text, words, K, tok), fs[Len(fs)].fn = "get_precedence",
         Extends(K, L)
  PROVE  LET gs == Append(SubSeq(fs, 1, Len(fs) - 1), Loop(fs[Len(fs)].prec))
         IN  /\ gs \in Seq(Frame) /\ Linked(gs)
             /\ gs[Len(gs)] = Loop(fs[Len(fs)].prec)
             /\ Waiting(gs, text, words, L)
             /\ fs[Len(fs)].prec \in 1 .. 8
             /\ text \in Seq(TextToken) /\ words \in Seq(Nat)
<1> DEFINE cs == SubSeq(fs, 1, Len(fs) - 1)
           f  == fs[Len(fs)]
           g  == Loop(f.prec)
           gs == Append(cs, g)
<1>1. Linked(fs)
  BY DEF Parsed
<1>2. Linked(cs) /\ Calls(cs[Len(cs)], f)
  BY <1>1, LinkedPop
<1>3. fs # << >> /\ cs \in Seq(Frame) /\ f \in Frame
  BY <1>1, OperandsReturn DEF Linked
<1>4. f.prec \in 1 .. 8
  BY <1>1, LoopLevel DEF Entry
<1>5. f.prec \in Precedence
  BY <1>4 DEF Precedence
<1>6. g \in Frame /\ g.fn = "get_precedence_loop" /\ g.prec = f.prec
  BY <1>5, FrameFacts DEF Loop
<1>7. PICK a \in Seq(TextToken), b \in Seq(Nat) :
        text = a \o << >> /\ words = b \o << >> /\ Waiting(fs, a, b, K)
  BY DEF Parsed, OnTop
<1>8. text = a /\ words = b
  BY <1>7, ConcatEmptySeq
<1>9. PICK a0 \in Seq(TextToken), t0 \in Seq(TextToken), b0 \in Seq(Nat), w0 \in Seq(Nat) :
        /\ a = a0 \o t0 /\ b = b0 \o w0
        /\ Held(f, t0, w0, K)
        /\ Waiting(cs, a0, b0, K)
  <2>1. HoldsLast(f, cs, a, b, K)
    BY <1>3, <1>7, WaitingPop
  <2> HIDE DEF cs, f
  <2> QED  BY <2>1 DEF HoldsLast
<1> HIDE DEF cs, f
<1>10. t0 = << >> /\ w0 = << >>
  BY <1>9 DEF Held, f
<1>11. Waiting(cs, a, b, L)
  BY <1>9, <1>10, WaitingExtends, ConcatEmptySeq
<1> HIDE DEF g
<1>12. Linked(gs) /\ gs[Len(gs)] = g /\ gs \in Seq(Frame)
  <2>1. Calls(cs[Len(cs)], g)
    BY <1>2, <1>6 DEF Calls, Entry, Rule, f
  <2>2. gs \in Seq(Frame)
    BY <1>3, <1>6, AppendProperties
  <2> QED  BY <1>2, <1>3, <1>6, <2>1, <2>2, LinkedPush
<1>13. Waiting(gs, a, b, L)
  <2>1. Held(g, << >>, << >>, L)
    BY <1>6 DEF Held
  <2>2. Waiting(gs, a \o << >>, b \o << >>, L)
    BY <1>3, <1>6, <1>11, <2>1, NothingIsSeq, WaitingPush
  <2> QED  BY <2>2, ConcatEmptySeq
<1> QED  BY <1>4, <1>8, <1>12, <1>13 DEF gs, g, f, cs

(* A loop goes on with an operand that binds strongly enough.              *)
LEMMA ParsedLoop ==
  ASSUME NEW fs \in Seq(Frame), Linked(fs), fs[Len(fs)].fn = "get_precedence_loop",
         NEW a \in Seq(TextToken), NEW b \in Seq(Nat), NEW K, Waiting(fs, a, b, K),
         NEW t \in Seq(TextToken), NEW w \in Seq(Nat), NEW next,
         NEW m \in Precedence, Derived(m, t, w, K),
         fs[Len(fs)].prec <= m, RulePrec(next) <= m
  PROVE  Parsed(fs, a \o t, b \o w, K, next)
<1>1. OnTop(fs[Len(fs)], t, w, K, next)
  BY DEF OnTop
<1> QED  BY <1>1 DEF Parsed

(* get_precedence() has its first operand.                                 *)
LEMMA ParsedOperand ==
  ASSUME NEW fs \in Seq(Frame), NEW text, NEW words, NEW K, NEW tok, NEW L, NEW next \in Token,
         Parsed(fs, text, words, K, tok), fs[Len(fs)].fn = "get_precedence",
         Extends(K, L), NEW t \in Seq(TextToken), NEW w \in Seq(Nat),
         Derived(PREC_PRIMARY, t, w, L)
  PROVE  Parsed(Append(SubSeq(fs, 1, Len(fs) - 1), Loop(fs[Len(fs)].prec)),
                text \o t, words \o w, L, next)
<1> DEFINE gs == Append(SubSeq(fs, 1, Len(fs) - 1), Loop(fs[Len(fs)].prec))
           p  == fs[Len(fs)].prec
<1>1. /\ gs \in Seq(Frame) /\ Linked(gs)
      /\ gs[Len(gs)] = Loop(p)
      /\ Waiting(gs, text, words, L)
      /\ p \in 1 .. 8
      /\ text \in Seq(TextToken) /\ words \in Seq(Nat)
  BY LoopEntered
<1> HIDE DEF gs, p
<1>2. gs[Len(gs)].fn = "get_precedence_loop" /\ gs[Len(gs)].prec = p
  BY <1>1 DEF Loop
<1>3. PREC_PRIMARY \in Precedence /\ p <= PREC_PRIMARY /\ RulePrec(next) <= PREC_PRIMARY
  BY <1>1, LevelsBelow
<1>4. Parsed(gs, text \o t, words \o w, L, next)
  BY <1>1, <1>2, <1>3, ParsedLoop
<1> QED  BY <1>4 DEF gs

(* A loop calls a rule function, which asks for an operand.                *)
LEMMA ParsedCall ==
  ASSUME NEW fs \in Seq(Frame), Linked(fs), fs[Len(fs)].fn = "get_precedence_loop",
         NEW a, NEW b, NEW K, Waiting(fs, a, b, K),
         NEW f \in Frame, f.fn \in Rule, Calls(fs[Len(fs)], f),
         NEW t \in Seq(TextToken), NEW w \in Seq(Nat), Held(f, t, w, K), NEW next
  PROVE  Parsed(Append(Append(fs, f), GetPrecedence(Asked(f))), a \o t, b \o w, K, next)
<1> DEFINE g  == GetPrecedence(Asked(f))
           gs == Append(fs, f)
           hs == Append(gs, g)
<1>1. g \in Frame /\ g.fn = "get_precedence" /\ g.prec = Asked(f)
  BY AskedLevel, FrameFacts DEF GetPrecedence
<1>2. gs \in Seq(Frame) /\ Linked(gs) /\ gs[Len(gs)] = f
  BY AppendProperties, LinkedPush
<1>3. Waiting(gs, a \o t, b \o w, K)
  BY WaitingPush
<1> HIDE DEF g, gs
<1>4. Calls(f, g)
  BY <1>1 DEF Calls, Entry, Rule
<1>5. Linked(hs) /\ hs[Len(hs)] = g
  BY <1>1, <1>2, <1>4, LinkedPush
<1>6. a \o t \in Seq(TextToken) /\ b \o w \in Seq(Nat)
  BY <1>2, <1>3, WaitingType
<1>7. Waiting(hs, a \o t, b \o w, K)
  <2>1. Held(g, << >>, << >>, K)
    BY <1>1 DEF Held
  <2>2. Waiting(hs, (a \o t) \o << >>, (b \o w) \o << >>, K)
    BY <1>1, <1>2, <1>3, <2>1, NothingIsSeq, WaitingPush
  <2> QED  BY <1>6, <2>2, ConcatEmptySeq
<1>8. OnTop(g, << >>, << >>, K, next)
  BY <1>1 DEF OnTop
<1>9. a \o t = (a \o t) \o << >> /\ b \o w = (b \o w) \o << >>
  BY <1>6, ConcatEmptySeq
<1> HIDE DEF hs
<1>10. Parsed(hs, a \o t, b \o w, K, next)
  BY <1>5, <1>6, <1>7, <1>8, <1>9, NothingIsSeq DEF Parsed
<1> QED  BY <1>10 DEF hs, gs, g

(* The loop on top ends, and its function returns to the one that asked.   *)
LEMMA ParsedLoopEnd ==
  ASSUME NEW fs \in Seq(Frame), NEW text, NEW words, NEW K, NEW tok \in Token,
         Parsed(fs, text, words, K, tok),
         fs[Len(fs)].fn = "get_precedence_loop", RulePrec(tok) < fs[Len(fs)].prec
  PROVE  Parsed(SubSeq(fs, 1, Len(fs) - 1), text, words, K, tok)
<1> DEFINE cs == SubSeq(fs, 1, Len(fs) - 1)
           f  == fs[Len(fs)]
           g  == cs[Len(cs)]
<1>1. Linked(fs)
  BY DEF Parsed
<1>2. Linked(cs) /\ Calls(g, f)
  BY <1>1, LinkedPop
<1>3. fs # << >> /\ cs \in Seq(Frame) /\ f \in Frame
  BY <1>1, OperandsReturn DEF Linked
<1>4. PICK a \in Seq(TextToken), t \in Seq(TextToken), b \in Seq(Nat), w \in Seq(Nat) :
        /\ text = a \o t /\ words = b \o w
        /\ Waiting(fs, a, b, K)
        /\ OnTop(f, t, w, K, tok)
  BY DEF Parsed
<1>5. HoldsLast(f, cs, a, b, K)
  BY <1>3, <1>4, WaitingPop
<1>6. f.fn = "get_precedence_loop" /\ RulePrec(tok) < f.prec /\ f.prec \in 1 .. 8
  BY <1>1, LoopLevel DEF Entry
<1> HIDE DEF cs, f
<1>7. g \in Frame
  <2>1. Len(cs) \in 1 .. Len(cs)
    BY <1>2, <1>3, EmptySeq DEF Linked
  <2> QED  BY <1>3, <2>1, ElementOfSeq
<1>8. PICK a0 \in Seq(TextToken), t0 \in Seq(TextToken), b0 \in Seq(Nat), w0 \in Seq(Nat) :
        /\ a = a0 \o t0 /\ b = b0 \o w0
        /\ Held(f, t0, w0, K)
        /\ Waiting(cs, a0, b0, K)
  BY <1>5 DEF HoldsLast
<1>9. a = a0 /\ b = b0
  <2>1. t0 = << >> /\ w0 = << >>
    BY <1>6, <1>8 DEF Held
  <2> QED  BY <1>8, <2>1, ConcatEmptySeq
<1> HIDE DEF g
<1>10. g.fn \notin Entry /\ f.prec = Asked(g)
  BY <1>2, <1>6 DEF Calls, Entry
<1>11. PICK m \in Precedence : f.prec <= m /\ Derived(m, t, w, K)
  BY <1>4, <1>6 DEF OnTop
<1>12. Derived(Asked(g), t, w, K)
  <2>1. Asked(g) \in 0 .. m
    BY <1>6, <1>10, <1>11 DEF Precedence
  <2> QED  BY <1>11, <2>1, DerivedWeaker
<1>13. OnTop(g, t, w, K, tok)
  BY <1>6, <1>10, <1>12 DEF OnTop, Entry
<1>14. Parsed(cs, text, words, K, tok)
  BY <1>2, <1>4, <1>8, <1>9, <1>13 DEF Parsed, g
<1> QED  BY <1>14 DEF cs

(* A rule function on top has read h and then its operand t.               *)
Finished(fs, f, cs, text, words, K, tok) ==
  \E a \in Seq(TextToken), h \in Seq(TextToken), t \in Seq(TextToken),
     b \in Seq(Nat), g \in Seq(Nat), w \in Seq(Nat) :
    /\ text = a \o (h \o t) /\ words = b \o (g \o w)
    /\ Held(f, h, g, K)
    /\ Derived(Asked(f), t, w, K)
    /\ RulePrec(tok) < Asked(f)
    /\ Waiting(cs, a, b, K)

LEMMA RuleFinished ==
  ASSUME NEW fs \in Seq(Frame), NEW text, NEW words, NEW K, NEW tok,
         Parsed(fs, text, words, K, tok), fs[Len(fs)].fn \in Rule
  PROVE  LET cs == SubSeq(fs, 1, Len(fs) - 1)
             f  == fs[Len(fs)]
             c  == cs[Len(cs)]
         IN  /\ cs \in Seq(Frame) /\ Linked(cs)
             /\ c.fn = "get_precedence_loop" /\ c.prec \in 1 .. 8
             /\ f \in Frame
             /\ f.fn = "binary" => c.prec <= RulePrec(f.type)
             /\ Finished(fs, f, cs, text, words, K, tok)
<1> DEFINE cs == SubSeq(fs, 1, Len(fs) - 1)
           f  == fs[Len(fs)]
           c  == cs[Len(cs)]
<1>1. Linked(fs)
  BY DEF Parsed
<1>2. Linked(cs) /\ Calls(c, f)
  BY <1>1, LinkedPop DEF Rule
<1>3. fs # << >> /\ cs \in Seq(Frame) /\ f \in Frame /\ f.fn \in Rule
  BY <1>1, OperandsReturn DEF Linked
<1>4. PICK x \in Seq(TextToken), t \in Seq(TextToken), y \in Seq(Nat), w \in Seq(Nat) :
        /\ text = x \o t /\ words = y \o w
        /\ Waiting(fs, x, y, K)
        /\ OnTop(f, t, w, K, tok)
  BY DEF Parsed
<1>5. HoldsLast(f, cs, x, y, K)
  BY <1>3, <1>4, WaitingPop
<1> HIDE DEF cs, f
<1>6. c.fn = "get_precedence_loop" /\ (f.fn = "binary" => c.prec <= RulePrec(f.type))
  BY <1>2, <1>3 DEF Calls
<1>7. c.prec \in 1 .. 8
  BY <1>2, <1>3, <1>6, LoopLevel DEF Entry
<1>8. PICK a \in Seq(TextToken), h \in Seq(TextToken), b \in Seq(Nat), g \in Seq(Nat) :
        /\ x = a \o h /\ y = b \o g
        /\ Held(f, h, g, K)
        /\ Waiting(cs, a, b, K)
  BY <1>5 DEF HoldsLast
<1>9. text = a \o (h \o t) /\ words = b \o (g \o w)
  <2>1. (a \o h) \o t = a \o (h \o t)
    BY AssocText, Zenon
  <2>2. (b \o g) \o w = b \o (g \o w)
    BY AssocWords, Zenon
  <2> QED  BY <1>4, <1>8, <2>1, <2>2
<1>10. RulePrec(tok) < Asked(f) /\ Derived(Asked(f), t, w, K)
  BY <1>3, <1>4 DEF OnTop, Rule
<1>11. Finished(fs, f, cs, text, words, K, tok)
  BY <1>8, <1>9, <1>10 DEF Finished
<1> QED  BY <1>2, <1>3, <1>6, <1>7, <1>11 DEF cs, f

LEMMA ParsedUnaryEnd ==
  ASSUME NEW fs \in Seq(Frame), NEW text, NEW words, NEW K, NEW tok \in Token,
         Parsed(fs, text, words, K, tok), fs[Len(fs)].fn = "unary"
  PROVE  Parsed(SubSeq(fs, 1, Len(fs) - 1), text,
                words \o <<UnaryOpcode(fs[Len(fs)].type)>>, K, tok)
<1> DEFINE cs == SubSeq(fs, 1, Len(fs) - 1)
           f  == fs[Len(fs)]
           c  == cs[Len(cs)]
           op == <<UnaryOpcode(f.type)>>
<1>1. /\ cs \in Seq(Frame) /\ Linked(cs)
      /\ c.fn = "get_precedence_loop" /\ c.prec \in 1 .. 8
      /\ f \in Frame /\ f.fn = "unary"
      /\ Finished(fs, f, cs, text, words, K, tok)
  BY RuleFinished DEF Rule
<1> HIDE DEF cs, f
<1>2. f.type \in UnaryToken /\ Asked(f) = PREC_UNARY
  BY <1>1, AskedLevel DEF Asked
<1>3. PICK a \in Seq(TextToken), h \in Seq(TextToken), t \in Seq(TextToken),
           b \in Seq(Nat), g \in Seq(Nat), w \in Seq(Nat) :
        /\ text = a \o (h \o t) /\ words = b \o (g \o w)
        /\ Held(f, h, g, K)
        /\ Derived(PREC_UNARY, t, w, K)
        /\ Waiting(cs, a, b, K)
  BY <1>1, <1>2 DEF Finished
<1>4. h = <<f.type>> /\ g = << >>
  BY <1>1, <1>3 DEF Held
<1>5. Derived(PREC_UNARY, h \o t, w \o op, K)
  BY <1>2, <1>3, <1>4, DerivedUnary
<1>6. op \in Seq(Nat)
  BY TokensAreText, SingleSeq
<1> HIDE DEF op
<1>7. g \o w = w /\ h \o t \in Seq(TextToken) /\ w \o op \in Seq(Nat)
      /\ words \o op = b \o (w \o op)
  <2>1. g \o w = w
    BY <1>3, <1>4, ConcatEmptySeq
  <2>2. words = b \o w
    BY <1>3, <2>1
  <2>3. w \o op \in Seq(Nat)
    BY <1>3, <1>6, ConcatWords
  <2>5. (b \o w) \o op = b \o (w \o op)
    BY <1>6, AssocWords
  <2>4. h \o t \in Seq(TextToken)
    BY <1>3, ConcatText
  <2> QED  BY <2>1, <2>2, <2>3, <2>4, <2>5
<1>8. PREC_UNARY \in Precedence /\ c.prec <= PREC_UNARY /\ RulePrec(tok) <= PREC_UNARY
  BY <1>1, LevelsBelow
<1>9. Parsed(cs, a \o (h \o t), b \o (w \o op), K, tok)
  BY <1>1, <1>3, <1>5, <1>7, <1>8, ParsedLoop
<1> QED  BY <1>3, <1>7, <1>9 DEF cs, f, op

LEMMA ParsedBinaryEnd ==
  ASSUME NEW fs \in Seq(Frame), NEW text, NEW words, NEW K, NEW tok \in Token,
         Parsed(fs, text, words, K, tok), fs[Len(fs)].fn = "binary"
  PROVE  Parsed(SubSeq(fs, 1, Len(fs) - 1), text,
                words \o <<BinaryOpcode(fs[Len(fs)].type)>>, K, tok)
<1> DEFINE cs == SubSeq(fs, 1, Len(fs) - 1)
           f  == fs[Len(fs)]
           c  == cs[Len(cs)]
           op == <<BinaryOpcode(f.type)>>
<1>1. /\ cs \in Seq(Frame) /\ Linked(cs)
      /\ c.fn = "get_precedence_loop" /\ c.prec <= RulePrec(f.type)
      /\ f \in Frame /\ f.fn = "binary"
      /\ Finished(fs, f, cs, text, words, K, tok)
  BY RuleFinished DEF Rule
<1> HIDE DEF cs, f
<1> DEFINE p == RulePrec(f.type)
<1>2. f.type \in BinaryToken /\ Asked(f) = p + 1 /\ p \in 4 .. 7
  BY <1>1, AskedLevel, TokensAreText DEF Asked
<1> HIDE DEF p
<1>3. PICK a \in Seq(TextToken), h \in Seq(TextToken), t \in Seq(TextToken),
           b \in Seq(Nat), g \in Seq(Nat), w \in Seq(Nat) :
        /\ text = a \o (h \o t) /\ words = b \o (g \o w)
        /\ Held(f, h, g, K)
        /\ Derived(p + 1, t, w, K)
        /\ RulePrec(tok) < p + 1
        /\ Waiting(cs, a, b, K)
  BY <1>1, <1>2 DEF Finished
<1>4. PICK l \in Seq(TextToken) : h = l \o <<f.type>> /\ Derived(p, l, g, K)
  BY <1>1, <1>3 DEF Held, p
<1>5. Derived(p, h \o t, (g \o w) \o op, K)
  BY <1>2, <1>3, <1>4, DerivedBinary DEF p
<1>6. op \in Seq(Nat)
  BY TokensAreText, SingleSeq
<1> HIDE DEF op
<1>7. h \o t \in Seq(TextToken) /\ (g \o w) \o op \in Seq(Nat)
      /\ words \o op = b \o ((g \o w) \o op)
  <2>1. g \o w \in Seq(Nat) /\ h \o t \in Seq(TextToken)
    BY <1>3, ConcatText, ConcatWords
  <2>2. (g \o w) \o op \in Seq(Nat)
    BY <1>6, <2>1, ConcatWords
  <2> DEFINE gw == g \o w
  <2>3. (b \o gw) \o op = b \o (gw \o op)
    <3>1. ASSUME NEW z \in Seq(Nat)
          PROVE  (b \o z) \o op = b \o (z \o op)
      BY <1>6, AssocWords, ZenonT(30)
    <3> QED  BY <2>1, <3>1, Zenon
  <2> QED  BY <1>3, <2>1, <2>2, <2>3
<1>8. p \in Precedence /\ c.prec <= p /\ RulePrec(tok) <= p
  <2>1. RulePrec(tok) \in 0 .. 7 /\ c.prec <= p
    BY <1>1, RuleFacts DEF p
  <2>2. p \in Precedence
    BY <1>2 DEF Precedence
  <2>3. RulePrec(tok) <= p
    <3>1. RulePrec(tok) \in Nat
      BY <2>1
    <3>2. p \in Nat
      BY <1>2
    <3> QED  BY <1>3, <3>1, <3>2, BelowNext, Zenon
  <2> QED  BY <2>1, <2>2, <2>3
<1>9. Parsed(cs, a \o (h \o t), b \o ((g \o w) \o op), K, tok)
  BY <1>1, <1>3, <1>5, <1>7, <1>8, ParsedLoop
<1> QED  BY <1>3, <1>7, <1>9 DEF cs, f, op

LEMMA ParsedGroupingEnd ==
  ASSUME NEW fs \in Seq(Frame), NEW text, NEW words, NEW K, NEW tok, NEW next \in Token,
         Parsed(fs, text, words, K, tok), fs[Len(fs)].fn = "grouping"
  PROVE  Parsed(SubSeq(fs, 1, Len(fs) - 1), text \o <<"CPAR_TOKEN">>, words, K, next)
<1> DEFINE cs == SubSeq(fs, 1, Len(fs) - 1)
           f  == fs[Len(fs)]
           c  == cs[Len(cs)]
           p  == <<"CPAR_TOKEN">>
<1>1. /\ cs \in Seq(Frame) /\ Linked(cs)
      /\ c.fn = "get_precedence_loop" /\ c.prec \in 1 .. 8
      /\ f \in Frame /\ f.fn = "grouping"
      /\ Finished(fs, f, cs, text, words, K, tok)
  BY RuleFinished DEF Rule
<1> HIDE DEF cs, f
<1>2. Asked(f) = PREC_ASSIGNMENT
  BY <1>1 DEF Asked
<1>3. PICK a \in Seq(TextToken), h \in Seq(TextToken), t \in Seq(TextToken),
           b \in Seq(Nat), g \in Seq(Nat), w \in Seq(Nat) :
        /\ text = a \o (h \o t) /\ words = b \o (g \o w)
        /\ Held(f, h, g, K)
        /\ Derived(PREC_ASSIGNMENT, t, w, K)
        /\ Waiting(cs, a, b, K)
  BY <1>1, <1>2 DEF Finished
<1>4. h = <<"OPAR_TOKEN">> /\ g = << >>
  BY <1>1, <1>3 DEF Held
<1>5. Derived(PREC_PRIMARY, (h \o t) \o p, w, K)
  BY <1>3, <1>4, DerivedGrouping
<1>6. p \in Seq(TextToken)
  BY TokensAreText, SingleSeq
<1> HIDE DEF p
<1>7. g \o w = w /\ (h \o t) \o p \in Seq(TextToken) /\ text \o p = a \o ((h \o t) \o p)
  <2>1. g \o w = w
    BY <1>3, <1>4, ConcatEmptySeq
  <2>2. h \o t \in Seq(TextToken)
    BY <1>3, ConcatText
  <2>3. (h \o t) \o p \in Seq(TextToken)
    BY <1>6, <2>2, ConcatText
  <2> DEFINE ht == h \o t
  <2>4. (a \o ht) \o p = a \o (ht \o p)
    <3>1. ASSUME NEW z \in Seq(TextToken)
          PROVE  (a \o z) \o p = a \o (z \o p)
      BY <1>6, AssocText, ZenonT(30)
    <3> QED  BY <2>2, <3>1, Zenon
  <2> QED  BY <1>3, <2>1, <2>3, <2>4
<1>8. PREC_PRIMARY \in Precedence /\ c.prec <= PREC_PRIMARY /\ RulePrec(next) <= PREC_PRIMARY
  BY <1>1, LevelsBelow
<1>9. Parsed(cs, a \o ((h \o t) \o p), b \o w, K, next)
  BY <1>1, <1>3, <1>5, <1>7, <1>8, ParsedLoop
<1> QED  BY <1>3, <1>7, <1>9 DEF cs, f, p

-----------------------------------------------------------------------------
(* text is what was passed of the first stream of src, tok the next token. *)
ReadUpTo(src, strs, tok, text) ==
  /\ tok = "END_OF_FILE" => Reads(src[1], Len(src[1]), text)
  /\ tok \notin EndToken =>
       \E k \in 1 .. Len(src[1]) :
         Head(strs) = Rest(src[1], k) /\ Reads(src[1], k, Append(text, tok))

(* words were emitted since compile() was entered. *)
Emitted(block, entry, words) ==
  \E before \in Seq(Nat) : Len(before) = entry /\ block = before \o words

Fits == Len(constants) <= WordSize

(* What was compiled so far is what was read so far. *)
Translates ==
  \E text \in Seq(TextToken), words \in Seq(Nat) :
    /\ ReadUpTo(source, streams, crnt, text)
    /\ Emitted(code, start, words)
    /\ Parsed(frames, text, words, constants, crnt)

(* The code is the translation of the whole text, and these words more. *)
Translated(end) ==
  \E text \in Seq(TextToken), words \in Seq(Nat) :
    /\ Reads(source[1], Len(source[1]), text)
    /\ Emitted(code, start, words \o end)
    /\ Derived(PREC_ASSIGNMENT, text, words, constants)

LanguageInv ==
  /\ phase = "compiling" /\ ~hadError /\ Fits
       => IF NoEnd(frames) THEN Translates ELSE Translated(<< >>)
  /\ phase = "compiled" /\ ~hadError /\ Fits => Translated(<<OP_RETURN>>)

-----------------------------------------------------------------------------
LEMMA FirstSource ==
  ASSUME IndInv, InFirstStream, crnt # "END_OF_INPUT"
  PROVE  source # << >> /\ source[1] \in Seq(TextToken) /\ streams # << >>
<1>1. /\ streams \in Seq(Seq(TextToken)) /\ source \in Seq(Seq(TextToken))
      /\ streams # << >> /\ Len(streams) = Len(source)
  BY DEF IndInv, TypeOK, InputTypeOK, InFirstStream
<1>2. 1 \in 1 .. Len(source)
  BY <1>1, EmptySeq
<1> QED  BY <1>1, <1>2, ElementOfSeq, EmptySeq

(* A token of the text is passed, and advance() reads the one after it.    *)
LEMMA ReadOn ==
  ASSUME IndInv, InFirstStream, crnt \in Token, crnt \notin EndToken,
         NEW text \in Seq(TextToken), ReadUpTo(source, streams, crnt, text), Advance
  PROVE  /\ <<crnt>> \in Seq(TextToken)
         /\ text \o <<crnt>> \in Seq(TextToken)
         /\ ReadUpTo(source, streams', crnt', text \o <<crnt>>)
<1>1. crnt \in TextToken
  BY DEF Token, EndToken
<1>2. source[1] \in Seq(TextToken) /\ streams # << >> /\ ~file_flag /\ Readable = streams
  BY FirstSource DEF EndToken, InFirstStream, Readable
<1>3. InputTypeOK /\ GetTok(crnt')
  BY DEF IndInv, TypeOK, Advance
<1> DEFINE s == source[1]
           new == Append(text, crnt)
<1>4. PICK k \in 1 .. Len(s) : Head(streams) = Rest(s, k) /\ Reads(s, k, new)
  BY DEF ReadUpTo
<1>5. new \in Seq(TextToken) /\ new = text \o <<crnt>> /\ <<crnt>> \in Seq(TextToken)
  BY <1>1, AppendProperties, AppendIsConcat, SingleSeq
<1>6. k \in 0 .. Len(s)
  BY <1>2, LenProperties
<1> HIDE DEF s, new
<1>7. /\ crnt' = "END_OF_FILE" => Reads(s, Len(s), new)
      /\ crnt' # "END_OF_FILE"
           => \E m \in 1 .. Len(s) :
                Head(streams') = Rest(s, m) /\ Reads(s, m, Append(new, crnt'))
  <2>1. s \in Seq(TextToken) /\ Readable # << >> /\ Head(Readable) = Rest(s, k)
    BY <1>2, <1>4 DEF s
  <2> QED  BY <1>3, <1>4, <1>5, <1>6, <2>1, TokenRead
<1>8. ReadUpTo(source, streams', crnt', new)
  BY <1>7 DEF ReadUpTo, EndToken, s
<1> QED  BY <1>5, <1>8

(* The first token. *)
LEMMA ReadFirst ==
  ASSUME IndInv, Compile
  PROVE  ReadUpTo(source', streams', crnt', << >>)
<1>1. InputTypeOK /\ GetTok(crnt') /\ source' = Readable
  BY DEF IndInv, TypeOK, Compile, Advance
<1>2. CASE Readable = << >>
  <2>1. crnt' = "END_OF_INPUT"
    BY <1>1, <1>2, GetTokEffect
  <2> QED  BY <2>1 DEF ReadUpTo, EndToken
<1>3. CASE Readable # << >>
  <2>1. Readable \in Seq(Seq(TextToken))
    BY <1>1, HeadTailProperties DEF InputTypeOK, Readable
  <2> DEFINE s == Readable[1]
  <2>2. s = Head(Readable) /\ s \in Seq(TextToken)
    BY <1>3, <2>1, HeadTailProperties
  <2> HIDE DEF s
  <2>3. s = Rest(s, 0) /\ 0 \in 0 .. Len(s)
    BY <2>2, SubSeqFull, LenProperties DEF Rest
  <2>4. /\ crnt' = "END_OF_FILE" => Reads(s, Len(s), << >>)
        /\ crnt' # "END_OF_FILE"
             => \E m \in 1 .. Len(s) :
                  Head(streams') = Rest(s, m) /\ Reads(s, m, Append(<< >>, crnt'))
    BY <1>1, <1>3, <2>2, <2>3, TokenRead, ReadsNothing, NothingIsSeq
  <2> QED  BY <1>1, <2>4 DEF ReadUpTo, EndToken, s
<1> QED  BY <1>2, <1>3

LEMMA EmitMore ==
  ASSUME NEW block, NEW entry, NEW words \in Seq(Nat), NEW more \in Seq(Nat),
         Emitted(block, entry, words)
  PROVE  /\ words \o more \in Seq(Nat)
         /\ Emitted(block \o more, entry, words \o more)
<1>1. PICK before \in Seq(Nat) : Len(before) = entry /\ block = before \o words
  BY DEF Emitted
<1>2. words \o more \in Seq(Nat)
  BY ConcatWords
<1>3. (before \o words) \o more = before \o (words \o more)
  BY AssocWords
<1>4. block \o more = before \o (words \o more)
  BY <1>1, <1>3
<1> QED  BY <1>1, <1>2, <1>4 DEF Emitted

LEMMA CodeIsWords ==
  ASSUME BlockTypeOK
  PROVE  code \in Seq(Nat)
<1>1. 0 .. WordSize - 1 \subseteq Nat
  BY WordSizeAssumption
<1> QED  BY <1>1, SeqMonotonic DEF BlockTypeOK

(* An opcode is appended to the code. *)
LEMMA EmitOne ==
  ASSUME BlockTypeOK, NEW op \in Nat, NEW effect, Emit(op, effect),
         NEW words \in Seq(Nat), Emitted(code, start, words)
  PROVE  /\ words \o <<op>> \in Seq(Nat)
         /\ Emitted(code', start, words \o <<op>>)
         /\ constants' = constants
<1>1. code' = Append(code, op) /\ constants' = constants
  BY DEF Emit, EmitOpcode
<1>2. code \in Seq(Nat)
  BY CodeIsWords
<1>3. code' = code \o <<op>>
  BY <1>1, <1>2, AppendIsConcat
<1> DEFINE more == <<op>>
<1>4. more \in Seq(Nat)
  BY SingleSeq
<1> HIDE DEF more
<1>5. words \o more \in Seq(Nat) /\ Emitted(code \o more, start, words \o more)
  BY <1>4, EmitMore
<1> QED  BY <1>1, <1>3, <1>5 DEF more

(* An OP_CONSTANT is appended with an index that no cut has changed.       *)
LEMMA EmitValue ==
  ASSUME BlockTypeOK, NEW tok \in ConstantToken, EmitConstant(ConstantType(tok)), Fits'
  PROVE  /\ Fits
         /\ <<OP_CONSTANT, Len(constants)>> \in Seq(Nat)
         /\ \A words \in Seq(Nat) :
              Emitted(code, start, words)
                => Emitted(code', start, words \o <<OP_CONSTANT, Len(constants)>>)
         /\ Extends(constants, constants')
         /\ Derived(PREC_PRIMARY, <<tok>>, <<OP_CONSTANT, Len(constants)>>, constants')
<1> DEFINE n == Len(constants)
           v == ConstantType(tok)
           more == <<OP_CONSTANT, n>>
<1>1. constants' = Append(constants, v) /\ code' = code \o <<OP_CONSTANT, n % WordSize>>
  BY DEF EmitConstant
<1>2. constants \in Seq(ValueType) /\ n \in Nat /\ v \in ValueType /\ WordSize \in Nat
  BY LenProperties, OpcodeFacts, WordSizeAssumption DEF BlockTypeOK
<1> HIDE DEF v
<1>3. Len(constants') = n + 1 /\ constants'[n + 1] = v
  BY <1>1, <1>2, AppendProperties
<1>4. n + 1 <= WordSize
  BY <1>3 DEF Fits
<1>5. Fits
  BY <1>2, <1>4 DEF Fits
<1>6. n % WordSize = n
  BY <1>2, <1>4, SmallModulo
<1>7. Extends(constants, constants')
  BY <1>1, <1>2, DerivedExtends DEF Extends
<1>8. Derived(PREC_PRIMARY, <<tok>>, <<OP_CONSTANT, n>>, constants')
  <2>1. n \in 0 .. Len(constants') - 1
    BY <1>2, <1>3
  <2> QED  BY <1>3, <2>1, DerivedConstant DEF v
<1>9. more \in Seq(Nat)
  <2>1. OP_CONSTANT \in Nat
    BY TokensAreText
  <2> QED  BY <1>2, <2>1
<1>10. code' = code \o more
  BY <1>1, <1>6
<1> HIDE DEF more
<1>11. \A words \in Seq(Nat) :
         Emitted(code, start, words) => Emitted(code \o more, start, words \o more)
  BY <1>9, EmitMore
<1> QED  BY <1>5, <1>7, <1>8, <1>9, <1>10, <1>11 DEF more

(* What is known while a function runs that is not at its end.             *)
LEMMA BeforeTranslates ==
  ASSUME IndInv, DrainInv, LanguageInv, NEW fn, Running(fn), fn # "compile_end",
         ~hadError, Fits
  PROVE  /\ Translates /\ InFirstStream
         /\ frames \in Seq(Frame) /\ crnt \in Token /\ phase = "compiling"
         /\ frames[Len(frames)] = TopFrame /\ TopFrame \in Frame /\ TopFrame.fn = fn
         /\ BlockTypeOK
BY BeforeEndRunning, RunningFacts DEF LanguageInv, BeforeEnd, IndInv, TypeOK

LEMMA TranslatesSuffices ==
  ASSUME DrainInv', phase' = "compiling",
         NEW text \in Seq(TextToken), NEW words \in Seq(Nat),
         ReadUpTo(source', streams', crnt', text),
         Emitted(code', start', words),
         Parsed(frames', text, words, constants', crnt')
  PROVE  LanguageInv'
<1>1. frames'[1].fn = "compile"
  BY DEF Parsed, Linked
<1>2. NoEnd(frames')
  <2>1. frames' # <<[fn |-> "compile_end"]>>
    BY <1>1
  <2> QED  BY <2>1 DEF DrainInv
<1>3. Translates'
  BY DEF Translates
<1> QED  BY <1>2, <1>3 DEF LanguageInv
-----------------------------------------------------------------------------
(* compile() asks for an expression, and nothing was read yet.             *)
LEMMA ParsedStart ==
  ASSUME NEW K, NEW tok
  PROVE  Parsed(<<[fn |-> "compile"], Expression>>, << >>, << >>, K, tok)
<1> DEFINE c  == [fn |-> "compile"]
           e  == Expression
           fs == Append(<< >>, c)
           gs == Append(fs, e)
<1>1. /\ c \in Frame /\ e \in Frame /\ << >> \in Seq(Frame)
      /\ c.fn = "compile" /\ e.fn = "get_precedence" /\ e.prec = PREC_ASSIGNMENT
  BY FrameFacts, EmptySeq DEF Expression, GetPrecedence
<1>2. <<c, e>> = gs
  BY <1>1
<1> HIDE DEF c, e
<1>3. fs \in Seq(Frame) /\ Len(fs) = 1 /\ fs[1] = c /\ fs # << >>
  BY <1>1
<1>4. Waiting(fs, << >>, << >>, K)
  <2>1. Held(c, << >>, << >>, K)
    BY <1>1 DEF Held
  <2>2. Waiting(fs, << >> \o << >>, << >> \o << >>, K)
    BY <1>1, <2>1, NothingIsSeq, WaitingNothing, WaitingPush
  <2> QED  BY <2>2, NothingIsSeq, ConcatEmptySeq
<1> HIDE DEF fs
<1>5. Linked(fs) /\ Calls(fs[Len(fs)], e)
  BY <1>1, <1>3 DEF Linked, Calls, Entry, Rule, Asked
<1>6. Linked(gs) /\ gs[Len(gs)] = e
  BY <1>1, <1>3, <1>5, LinkedPush
<1>7. Waiting(gs, << >>, << >>, K)
  <2>1. Held(e, << >>, << >>, K)
    BY <1>1 DEF Held
  <2>2. Waiting(gs, << >> \o << >>, << >> \o << >>, K)
    BY <1>1, <1>3, <1>4, <2>1, NothingIsSeq, WaitingPush
  <2> QED  BY <2>2, NothingIsSeq, ConcatEmptySeq
<1> HIDE DEF gs
<1>8. OnTop(e, << >>, << >>, K, tok)
  BY <1>1 DEF OnTop
<1>9. << >> = << >> \o << >>
  BY NothingIsSeq, ConcatEmptySeq
<1>10. Parsed(gs, << >>, << >>, K, tok)
  BY <1>6, <1>7, <1>8, <1>9, NothingIsSeq DEF Parsed
<1> QED  BY <1>2, <1>10 DEF c, e

(* grouping() or unary() is called on the first token of an operand.       *)
LEMMA ParsedPrefix ==
  ASSUME NEW fs \in Seq(Frame), NEW text, NEW words, NEW K, NEW tok,
         Parsed(fs, text, words, K, tok), fs[Len(fs)].fn = "get_precedence",
         NEW f \in Frame, f.fn \in {"grouping", "unary"},
         NEW t \in Seq(TextToken), Held(f, t, << >>, K), NEW next
  PROVE  Parsed(SubSeq(fs, 1, Len(fs) - 1)
                  \o <<Loop(fs[Len(fs)].prec), f, GetPrecedence(Asked(f))>>,
                text \o t, words, K, next)
<1> DEFINE cs == SubSeq(fs, 1, Len(fs) - 1)
           p  == fs[Len(fs)].prec
           gs == Append(cs, Loop(p))
<1>1. /\ gs \in Seq(Frame) /\ Linked(gs)
      /\ gs[Len(gs)] = Loop(p)
      /\ Waiting(gs, text, words, K)
      /\ p \in 1 .. 8
      /\ text \in Seq(TextToken) /\ words \in Seq(Nat)
  BY LoopEntered DEF Extends
<1>2. cs \in Seq(Frame)
  BY OperandsReturn DEF Parsed, Linked
<1>3. Loop(p) \in Frame /\ Loop(p).fn = "get_precedence_loop"
      /\ GetPrecedence(Asked(f)) \in Frame
  <2>1. p \in Precedence
    BY <1>1 DEF Precedence
  <2> HIDE DEF p
  <2> QED  BY <2>1, AskedLevel, FrameFacts
<1>4. cs \o <<Loop(p), f, GetPrecedence(Asked(f))>>
        = Append(Append(gs, f), GetPrecedence(Asked(f)))
  <2> HIDE DEF cs, p
  <2> QED  BY <1>2, <1>3, PushThree
<1> HIDE DEF gs, p, cs
<1>5. Calls(gs[Len(gs)], f)
  BY <1>1, <1>3 DEF Calls, Entry, Rule
<1>6. Parsed(Append(Append(gs, f), GetPrecedence(Asked(f))),
             text \o t, words \o << >>, K, next)
  BY <1>1, <1>3, <1>5, ParsedCall, NothingIsSeq DEF Rule
<1>7. words \o << >> = words
  BY <1>1, ConcatEmptySeq
<1> QED  BY <1>4, <1>6, <1>7 DEF cs, p

(* The loop of get_precedence() calls abinary() or cbinary().              *)
LEMMA ParsedInfix ==
  ASSUME NEW fs \in Seq(Frame), NEW text, NEW words, NEW K, NEW tok \in BinaryToken,
         Parsed(fs, text, words, K, tok), fs[Len(fs)].fn = "get_precedence_loop",
         fs[Len(fs)].prec <= RulePrec(tok), NEW next
  PROVE  Parsed(fs \o <<[fn |-> "binary", type |-> tok], GetPrecedence(RulePrec(tok) + 1)>>,
                text \o <<tok>>, words, K, next)
<1> DEFINE f == [fn |-> "binary", type |-> tok]
           x == <<tok>>
<1>1. /\ f \in Frame /\ f.fn = "binary" /\ f.type = tok /\ f.fn \in Rule
      /\ x \in Seq(TextToken)
  BY FrameFacts, TokensAreText, SingleSeq DEF Rule
<1>2. Asked(f) = RulePrec(tok) + 1
  BY <1>1 DEF Asked
<1> HIDE DEF f
<1>3. fs \o <<f, GetPrecedence(RulePrec(tok) + 1)>>
        = Append(Append(fs, f), GetPrecedence(Asked(f)))
  <2>1. GetPrecedence(Asked(f)) \in Frame
    BY <1>1, AskedLevel, FrameFacts
  <2> HIDE DEF x
  <2> QED  BY <1>1, <1>2, <2>1, PushTwo
<1>4. PICK a \in Seq(TextToken), t \in Seq(TextToken), b \in Seq(Nat), w \in Seq(Nat) :
        /\ text = a \o t /\ words = b \o w
        /\ Waiting(fs, a, b, K)
        /\ OnTop(fs[Len(fs)], t, w, K, tok)
  BY DEF Parsed
<1>5. PICK m \in Precedence : RulePrec(tok) <= m /\ Derived(m, t, w, K)
  BY <1>4 DEF OnTop
<1>6. Derived(RulePrec(tok), t, w, K)
  <2>0. RulePrec(tok) \in 4 .. 7
    BY TokensAreText
  <2>1. RulePrec(tok) \in 0 .. m
    BY <1>5, <2>0 DEF Precedence
  <2> QED  BY <1>5, <2>1, DerivedWeaker
<1>7. Held(f, t \o x, w, K)
  BY <1>1, <1>6 DEF Held
<1> HIDE DEF x
<1>8. t \o x \in Seq(TextToken) /\ (a \o t) \o x = a \o (t \o x)
  BY <1>1, ConcatText
<1>9. Linked(fs) /\ Calls(fs[Len(fs)], f)
  BY <1>1 DEF Parsed, Calls, Entry
<1>10. Parsed(Append(Append(fs, f), GetPrecedence(Asked(f))), a \o (t \o x), b \o w, K, next)
  BY <1>1, <1>4, <1>7, <1>8, <1>9, ParsedCall
<1> QED  BY <1>3, <1>4, <1>8, <1>10 DEF f, x

(* compile() has its expression: it is the whole of what was read.         *)
LEMMA ParsedWhole ==
  ASSUME NEW fs \in Seq(Frame), NEW text, NEW words, NEW K, NEW tok,
         Parsed(fs, text, words, K, tok), CallStackOK(fs), fs[Len(fs)].fn = "compile"
  PROVE  Derived(PREC_ASSIGNMENT, text, words, K)
<1> DEFINE cs == SubSeq(fs, 1, Len(fs) - 1)
           f  == fs[Len(fs)]
<1>1. fs # << >> /\ Len(fs) \in Nat \ {0} /\ cs \in Seq(Frame) /\ Len(cs) = Len(fs) - 1
  BY OperandsReturn DEF Parsed, Linked
<1>2. Len(fs) = 1
  <2>1. Len(fs) \in 1 .. Len(fs)
    BY <1>1
  <2> QED  BY <2>1 DEF CallStackOK
<1>3. PICK a \in Seq(TextToken), t \in Seq(TextToken), b \in Seq(Nat), w \in Seq(Nat) :
        /\ text = a \o t /\ words = b \o w
        /\ Waiting(fs, a, b, K)
        /\ OnTop(f, t, w, K, tok)
  BY DEF Parsed
<1>4. HoldsLast(f, cs, a, b, K)
  BY <1>1, <1>3, WaitingPop
<1>5. f.fn = "compile"
  OBVIOUS
<1>6. Len(cs) + 1 = 1
  BY <1>1, <1>2
<1> HIDE DEF cs, f
<1>7. PICK a0 \in Seq(TextToken), t0 \in Seq(TextToken), b0 \in Seq(Nat), w0 \in Seq(Nat) :
        /\ a = a0 \o t0 /\ b = b0 \o w0
        /\ Held(f, t0, w0, K)
        /\ Waiting(cs, a0, b0, K)
  BY <1>4 DEF HoldsLast
<1>8. a0 = << >> /\ b0 = << >>
  BY <1>6, <1>7 DEF Waiting
<1>9. t0 = << >> /\ w0 = << >>
  BY <1>5, <1>7 DEF Held
<1>10. a = << >> /\ b = << >>
  BY <1>7, <1>8, <1>9, NothingIsSeq, ConcatEmptySeq
<1>11. text = t /\ words = w
  BY <1>3, <1>10, ConcatEmptySeq
<1>12. Derived(PREC_ASSIGNMENT, t, w, K)
  BY <1>3, <1>5 DEF OnTop, Asked
<1> QED  BY <1>11, <1>12
-----------------------------------------------------------------------------
LEMMA InitLanguageInv == Init => LanguageInv
BY DEF Init, LanguageInv

(* A prefix or an infix rule is called: a token was passed, and nothing    *)
(* was emitted.                                                            *)
LEMMA CallTranslates ==
  ASSUME IndInv, IndInv', DrainInv', InFirstStream, phase = "compiling",
         crnt \in Token, crnt \notin EndToken,
         Advance, EmitNothing, SameInput,
         NEW text \in Seq(TextToken), NEW words \in Seq(Nat),
         ReadUpTo(source, streams, crnt, text),
         Emitted(code, start, words),
         Parsed(frames', text \o <<crnt>>, words, constants, crnt')
  PROVE  LanguageInv'
<1>1. text \o <<crnt>> \in Seq(TextToken)
      /\ ReadUpTo(source, streams', crnt', text \o <<crnt>>)
  BY ReadOn
<1>2. UNCHANGED <<source, start, code, constants, phase>>
  BY DEF EmitNothing, SameInput, blockVars
<1> QED  BY <1>1, <1>2, TranslatesSuffices

LEMMA NextLanguageInv ==
  ASSUME IndInv, IndInv', DrainInv, DrainInv', LanguageInv, [Next]_compilerVars
  PROVE  LanguageInv'
<1> SUFFICES ASSUME ~hadError', Fits' PROVE LanguageInv'
  BY DEF LanguageInv
<1>1. CASE Open \/ Interpreted
  <2>1. phase' \in {"opened", "exited", "ready"}
    BY <1>1 DEF Open, Interpreted
  <2> QED  BY <2>1 DEF LanguageInv
<1>2. CASE Compile
  <2>1. /\ frames' = <<[fn |-> "compile"], Expression>> /\ phase' = "compiling"
        /\ start' = Len(code) /\ code' = code
    BY <1>2 DEF Compile, blockVars
  <2>2. Parsed(frames', << >>, << >>, constants', crnt')
    BY <2>1, ParsedStart
  <2>3. Emitted(code', start', << >>)
    <3>1. code \in Seq(Nat)
      BY CodeIsWords DEF IndInv, TypeOK
    <3>2. code = code \o << >>
      BY <3>1, ConcatEmptySeq
    <3> QED  BY <2>1, <3>1, <3>2 DEF Emitted
  <2>4. ReadUpTo(source', streams', crnt', << >>)
    BY <1>2, ReadFirst
  <2> QED  BY <2>1, <2>2, <2>3, <2>4, NothingIsSeq, TranslatesSuffices
<1>3. CASE PrefixMissing
  BY <1>3 DEF PrefixMissing
<1>4. CASE PrefixConstant
  <2>1. /\ Running("get_precedence") /\ Advance /\ SameInput /\ ~hadError
        /\ PrefixRule(crnt) = "constant" /\ EmitConstant(ConstantType(crnt))
        /\ frames' = Append(Callers, Loop(TopFrame.prec))
    BY <1>4 DEF PrefixConstant
  <2>2. crnt \in ConstantToken
    BY <2>1 DEF PrefixRule
  <2> DEFINE value == <<OP_CONSTANT, Len(constants)>>
  <2>3. /\ Fits /\ value \in Seq(Nat)
        /\ \A w \in Seq(Nat) :
             Emitted(code, start, w) => Emitted(code', start, w \o value)
        /\ Extends(constants, constants')
        /\ Derived(PREC_PRIMARY, <<crnt>>, value, constants')
    <3>1. BlockTypeOK
      BY DEF IndInv, TypeOK
    <3> QED  BY <2>1, <2>2, <3>1, EmitValue
  <2> HIDE DEF value
  <2>4. /\ Translates /\ InFirstStream /\ frames \in Seq(Frame) /\ crnt \in Token
        /\ phase = "compiling" /\ frames[Len(frames)] = TopFrame
        /\ TopFrame.fn = "get_precedence"
    BY <2>1, <2>3, BeforeTranslates
  <2>5. PICK text \in Seq(TextToken), words \in Seq(Nat) :
          /\ ReadUpTo(source, streams, crnt, text)
          /\ Emitted(code, start, words)
          /\ Parsed(frames, text, words, constants, crnt)
    BY <2>4 DEF Translates
  <2>6. crnt \notin EndToken
    BY <2>1, <2>4, RuleFacts DEF EndToken
  <2>7. /\ <<crnt>> \in Seq(TextToken)
        /\ text \o <<crnt>> \in Seq(TextToken)
        /\ ReadUpTo(source, streams', crnt', text \o <<crnt>>)
    BY <2>1, <2>4, <2>5, <2>6, ReadOn
  <2>8. phase' = "compiling" /\ source' = source /\ start' = start
    BY <2>1, <2>4 DEF SameInput
  <2>9. crnt' \in Token
    BY <2>8 DEF IndInv, StackInv
  <2>10. Parsed(frames', text \o <<crnt>>, words \o value, constants', crnt')
    BY <2>1, <2>3, <2>4, <2>5, <2>7, <2>9, ParsedOperand DEF Callers
  <2>11. words \o value \in Seq(Nat) /\ Emitted(code', start, words \o value)
    BY <2>3, <2>5, ConcatWords
  <2> QED  BY <2>7, <2>8, <2>10, <2>11, TranslatesSuffices
<1>5. CASE PrefixLiteral
  <2> DEFINE op == LiteralOpcode(crnt)
  <2>1. /\ Running("get_precedence") /\ Advance /\ SameInput /\ ~hadError
        /\ PrefixRule(crnt) = "literal" /\ Emit(op, 1)
        /\ frames' = Append(Callers, Loop(TopFrame.prec))
    BY <1>5 DEF PrefixLiteral
  <2>2. op \in Nat /\ Derived(PREC_PRIMARY, <<crnt>>, <<op>>, constants)
    <3>1. crnt \in LiteralToken
      BY <2>1 DEF PrefixRule
    <3> QED  BY <3>1, TokensAreText, DerivedLiteral
  <2> HIDE DEF op
  <2>3. Fits /\ constants' = constants
    BY <2>1 DEF Emit, EmitOpcode, Fits
  <2>4. /\ Translates /\ InFirstStream /\ frames \in Seq(Frame) /\ crnt \in Token
        /\ phase = "compiling" /\ frames[Len(frames)] = TopFrame
        /\ TopFrame.fn = "get_precedence" /\ BlockTypeOK
    BY <2>1, <2>3, BeforeTranslates
  <2>5. PICK text \in Seq(TextToken), words \in Seq(Nat) :
          /\ ReadUpTo(source, streams, crnt, text)
          /\ Emitted(code, start, words)
          /\ Parsed(frames, text, words, constants, crnt)
    BY <2>4 DEF Translates
  <2>6. crnt \notin EndToken
    BY <2>1, <2>4, RuleFacts DEF EndToken
  <2>7. /\ <<crnt>> \in Seq(TextToken)
        /\ text \o <<crnt>> \in Seq(TextToken)
        /\ ReadUpTo(source, streams', crnt', text \o <<crnt>>)
    BY <2>1, <2>4, <2>5, <2>6, ReadOn
  <2>8. phase' = "compiling" /\ source' = source /\ start' = start
    BY <2>1, <2>4 DEF SameInput
  <2>9. crnt' \in Token
    BY <2>8 DEF IndInv, StackInv
  <2> DEFINE x == <<crnt>>
             more == <<op>>
  <2>10. Parsed(frames', text \o x, words \o more, constants, crnt')
    <3>1. more \in Seq(Nat) /\ x \in Seq(TextToken)
      BY <2>2, <2>7, SingleSeq
    <3>2. Derived(PREC_PRIMARY, x, more, constants) /\ Extends(constants, constants)
      BY <2>2 DEF Extends
    <3> HIDE DEF x, more
    <3> QED  BY <2>1, <2>4, <2>5, <2>9, <3>1, <3>2, ParsedOperand DEF Callers
  <2>11. words \o <<op>> \in Seq(Nat) /\ Emitted(code', start, words \o <<op>>)
    BY <2>1, <2>2, <2>4, <2>5, EmitOne
  <2> QED  BY <2>3, <2>7, <2>8, <2>10, <2>11, TranslatesSuffices
<1>6. CASE PrefixGrouping \/ PrefixUnary
  <2> DEFINE f == IF PrefixRule(crnt) = "grouping"
                    THEN [fn |-> "grouping"] ELSE [fn |-> "unary", type |-> crnt]
  <2>1. /\ Running("get_precedence") /\ Advance /\ SameInput /\ EmitNothing /\ ~hadError
        /\ PrefixRule(crnt) \in {"grouping", "unary"}
    BY <1>6 DEF PrefixGrouping, PrefixUnary
  <2>2. Fits
    BY <2>1 DEF EmitNothing, blockVars, Fits
  <2>3. /\ Translates /\ InFirstStream /\ frames \in Seq(Frame) /\ crnt \in Token
        /\ phase = "compiling" /\ frames[Len(frames)] = TopFrame
        /\ TopFrame.fn = "get_precedence"
    BY <2>1, <2>2, BeforeTranslates
  <2>4. crnt \notin EndToken
    BY <2>1, <2>3, RuleFacts DEF EndToken
  <2>5. PICK text \in Seq(TextToken), words \in Seq(Nat) :
          /\ ReadUpTo(source, streams, crnt, text)
          /\ Emitted(code, start, words)
          /\ Parsed(frames, text, words, constants, crnt)
    BY <2>3 DEF Translates
  <2> DEFINE x == <<crnt>>
  <2>6. x \in Seq(TextToken)
    BY <2>1, <2>3, <2>4, <2>5, ReadOn
  <2>7. /\ f \in Frame /\ f.fn \in {"grouping", "unary"}
        /\ Held(f, x, << >>, constants)
        /\ frames' = Callers \o <<Loop(TopFrame.prec), f, GetPrecedence(Asked(f))>>
    <3>1. CASE PrefixGrouping
      <4>1. PrefixRule(crnt) = "grouping" /\ crnt = "OPAR_TOKEN"
        BY <3>1 DEF PrefixGrouping, PrefixRule
      <4>2. f = [fn |-> "grouping"]
        BY <4>1
      <4>3. f \in Frame /\ f.fn = "grouping"
        BY <4>2, FrameFacts
      <4>4. GetPrecedence(Asked(f)) = Expression
        BY <4>3 DEF Asked, Expression
      <4>5. frames' = Callers \o <<Loop(TopFrame.prec), [fn |-> "grouping"], Expression>>
        BY <3>1 DEF PrefixGrouping
      <4> HIDE DEF f
      <4> QED  BY <4>1, <4>2, <4>3, <4>4, <4>5 DEF Held
    <3>2. CASE PrefixUnary
      <4>1. PrefixRule(crnt) = "unary" /\ crnt \in UnaryToken
        BY <2>3, <3>2, RuleFacts DEF PrefixUnary
      <4>2. f = [fn |-> "unary", type |-> crnt]
        BY <4>1
      <4>3. f \in Frame /\ f.fn = "unary" /\ f.type = crnt
        BY <4>1, <4>2, FrameFacts
      <4>4. GetPrecedence(Asked(f)) = GetPrecedence(PREC_UNARY)
        BY <4>3 DEF Asked
      <4>5. frames' = Callers \o <<Loop(TopFrame.prec), [fn |-> "unary", type |-> crnt],
                                   GetPrecedence(PREC_UNARY)>>
        BY <3>2 DEF PrefixUnary
      <4> HIDE DEF f
      <4> QED  BY <4>2, <4>3, <4>4, <4>5 DEF Held
    <3> QED  BY <1>6, <3>1, <3>2
  <2> HIDE DEF f
  <2>8. Parsed(frames', text \o x, words, constants, crnt')
    <3> HIDE DEF x
    <3> QED  BY <2>3, <2>5, <2>6, <2>7, ParsedPrefix DEF Callers
  <2> QED  BY <2>1, <2>3, <2>4, <2>5, <2>8, CallTranslates
<1>7. CASE Infix
  <2>1. /\ Running("get_precedence_loop") /\ Advance /\ SameInput /\ EmitNothing /\ ~hadError
        /\ TopFrame.prec <= RulePrec(crnt) /\ InfixRule(crnt) = "binary"
        /\ frames' = frames \o <<[fn |-> "binary", type |-> crnt],
                                 GetPrecedence(RulePrec(crnt) + 1)>>
    BY <1>7 DEF Infix
  <2>2. Fits
    BY <2>1 DEF EmitNothing, blockVars, Fits
  <2>3. /\ Translates /\ InFirstStream /\ frames \in Seq(Frame) /\ crnt \in Token
        /\ phase = "compiling" /\ frames[Len(frames)] = TopFrame
        /\ TopFrame.fn = "get_precedence_loop"
    BY <2>1, <2>2, BeforeTranslates
  <2>4. crnt \notin EndToken /\ crnt \in BinaryToken
    BY <2>1, <2>3, RuleFacts DEF EndToken
  <2>5. PICK text \in Seq(TextToken), words \in Seq(Nat) :
          /\ ReadUpTo(source, streams, crnt, text)
          /\ Emitted(code, start, words)
          /\ Parsed(frames, text, words, constants, crnt)
    BY <2>3 DEF Translates
  <2>6. Parsed(frames', text \o <<crnt>>, words, constants, crnt')
    BY <2>1, <2>3, <2>4, <2>5, ParsedInfix
  <2> QED  BY <2>1, <2>3, <2>4, <2>5, <2>6, CallTranslates
<1>8. CASE LoopEnd
  <2>1. /\ Running("get_precedence_loop") /\ SameInput /\ EmitNothing /\ ~hadError
        /\ TopFrame.prec > RulePrec(crnt) /\ frames' = Callers
        /\ UNCHANGED <<crnt, streams>>
    BY <1>8 DEF LoopEnd, Return, inputVars
  <2>2. Fits
    BY <2>1 DEF EmitNothing, blockVars, Fits
  <2>3. /\ Translates /\ frames \in Seq(Frame) /\ crnt \in Token
        /\ phase = "compiling" /\ frames[Len(frames)] = TopFrame
        /\ TopFrame.fn = "get_precedence_loop"
    BY <2>1, <2>2, BeforeTranslates
  <2>4. PICK text \in Seq(TextToken), words \in Seq(Nat) :
          /\ ReadUpTo(source, streams, crnt, text)
          /\ Emitted(code, start, words)
          /\ Parsed(frames, text, words, constants, crnt)
    BY <2>3 DEF Translates
  <2>5. RulePrec(crnt) < frames[Len(frames)].prec
    BY <2>1, <2>3
  <2>6. Parsed(frames', text, words, constants, crnt)
    BY <2>1, <2>3, <2>4, <2>5, ParsedLoopEnd DEF Callers
  <2>7. UNCHANGED <<source, start, code, constants, phase>>
    BY <2>1 DEF EmitNothing, SameInput, blockVars
  <2> QED  BY <2>1, <2>3, <2>4, <2>6, <2>7, TranslatesSuffices
<1>9. CASE GroupingEnd
  <2>1. /\ Running("grouping") /\ SameInput /\ EmitNothing /\ frames' = Callers
        /\ Consume("CPAR_TOKEN")
    BY <1>9 DEF GroupingEnd, Return
  <2>2. /\ ~hadError /\ crnt = "CPAR_TOKEN" /\ Advance
    BY <2>1, BeforeEndRunning, ConsumeEffect DEF BeforeEnd
  <2>3. Fits
    BY <2>1 DEF EmitNothing, blockVars, Fits
  <2>4. /\ Translates /\ InFirstStream /\ frames \in Seq(Frame) /\ crnt \in Token
        /\ phase = "compiling" /\ frames[Len(frames)] = TopFrame
        /\ TopFrame.fn = "grouping"
    BY <2>1, <2>2, <2>3, BeforeTranslates
  <2>5. crnt \notin EndToken
    BY <2>2 DEF EndToken
  <2>6. PICK text \in Seq(TextToken), words \in Seq(Nat) :
          /\ ReadUpTo(source, streams, crnt, text)
          /\ Emitted(code, start, words)
          /\ Parsed(frames, text, words, constants, crnt)
    BY <2>4 DEF Translates
  <2>7. crnt' \in Token
    BY <2>1, <2>4 DEF IndInv, StackInv, SameInput
  <2>8. Parsed(frames', text \o <<"CPAR_TOKEN">>, words, constants, crnt')
    BY <2>1, <2>4, <2>6, <2>7, ParsedGroupingEnd DEF Callers
  <2>9. Parsed(frames', text \o <<crnt>>, words, constants, crnt')
    BY <2>2, <2>8
  <2> QED  BY <2>1, <2>2, <2>4, <2>5, <2>6, <2>9, CallTranslates
<1>10. CASE UnaryEnd \/ BinaryEnd
  <2> DEFINE op == IF TopFrame.fn = "unary" THEN UnaryOpcode(TopFrame.type)
                                            ELSE BinaryOpcode(TopFrame.type)
  <2>1. PICK fn \in {"unary", "binary"}, effect \in Int :
          /\ Running(fn) /\ SameInput /\ ~hadError /\ frames' = Callers
          /\ Emit(op, effect)
          /\ UNCHANGED <<crnt, streams>>
    BY <1>10 DEF UnaryEnd, BinaryEnd, Return, Running, inputVars
  <2>2. op \in Nat
    BY TokensAreText
  <2>3. Fits /\ constants' = constants
    BY <2>1 DEF Emit, EmitOpcode, Fits
  <2>4. /\ Translates /\ frames \in Seq(Frame) /\ crnt \in Token
        /\ phase = "compiling" /\ frames[Len(frames)] = TopFrame
        /\ TopFrame.fn \in {"unary", "binary"} /\ BlockTypeOK
    BY <2>1, <2>3, BeforeTranslates
  <2>5. PICK text \in Seq(TextToken), words \in Seq(Nat) :
          /\ ReadUpTo(source, streams, crnt, text)
          /\ Emitted(code, start, words)
          /\ Parsed(frames, text, words, constants, crnt)
    BY <2>4 DEF Translates
  <2>6. Parsed(frames', text, words \o <<op>>, constants, crnt)
    <3>1. CASE TopFrame.fn = "unary"
      BY <2>1, <2>4, <2>5, <3>1, ParsedUnaryEnd DEF Callers
    <3>2. CASE TopFrame.fn = "binary"
      BY <2>1, <2>4, <2>5, <3>2, ParsedBinaryEnd DEF Callers
    <3> QED  BY <2>4, <3>1, <3>2
  <2> HIDE DEF op
  <2>7. words \o <<op>> \in Seq(Nat) /\ Emitted(code', start, words \o <<op>>)
    BY <2>1, <2>2, <2>4, <2>5, EmitOne
  <2>8. UNCHANGED <<source, start, phase>>
    BY <2>1 DEF SameInput
  <2> QED  BY <2>1, <2>3, <2>4, <2>5, <2>6, <2>7, <2>8, TranslatesSuffices
<1>11. CASE ConsumeEndOfFile
  <2>1. /\ Running("compile") /\ SameInput /\ EmitNothing
        /\ frames' = <<[fn |-> "compile_end"]>> /\ Consume("END_OF_FILE")
    BY <1>11 DEF ConsumeEndOfFile
  <2>2. ~hadError /\ crnt = "END_OF_FILE"
    BY <2>1, BeforeEndRunning, ConsumeEffect DEF BeforeEnd
  <2>3. Fits
    BY <2>1 DEF EmitNothing, blockVars, Fits
  <2>4. /\ Translates /\ frames \in Seq(Frame) /\ phase = "compiling"
        /\ frames[Len(frames)].fn = "compile" /\ CallStackOK(frames)
    BY <2>1, <2>2, <2>3, BeforeTranslates, RunningFacts
  <2>5. PICK text \in Seq(TextToken), words \in Seq(Nat) :
          /\ ReadUpTo(source, streams, crnt, text)
          /\ Emitted(code, start, words)
          /\ Parsed(frames, text, words, constants, crnt)
    BY <2>4 DEF Translates
  <2>6. Derived(PREC_ASSIGNMENT, text, words, constants)
    BY <2>4, <2>5, ParsedWhole
  <2>7. Reads(source[1], Len(source[1]), text)
    BY <2>2, <2>5 DEF ReadUpTo
  <2>8. words \o << >> = words
    BY ConcatEmptySeq
  <2>9. Emitted(code, start, words \o << >>)
    BY <2>5, <2>8
  <2>10. UNCHANGED <<source, start, code, constants, phase>>
    BY <2>1 DEF EmitNothing, SameInput, blockVars
  <2>11. Translated(<< >>)'
    BY <2>6, <2>7, <2>9, <2>10 DEF Translated
  <2>12. ~NoEnd(frames')
    BY <2>1 DEF NoEnd
  <2> QED  BY <2>4, <2>10, <2>11, <2>12 DEF LanguageInv
<1>12. CASE CompileEnd
  <2>1. /\ Running("compile_end") /\ Consume("END_OF_INPUT") /\ Emit(OP_RETURN, 0)
        /\ phase' = "compiled" /\ UNCHANGED <<source, start>>
    BY <1>12 DEF CompileEnd
  <2>2. /\ phase = "compiling" /\ ~NoEnd(frames) /\ BlockTypeOK
        /\ hadError \in BOOLEAN /\ panicMode \in BOOLEAN
    <3>1. frames \in Seq(Frame) /\ frames # << >> /\ phase = "compiling"
          /\ frames[Len(frames)].fn = "compile_end"
      BY <2>1, RunningFacts
    <3>2. Len(frames) \in 1 .. Len(frames)
      BY <3>1, EmptySeq
    <3> QED  BY <3>1, <3>2 DEF NoEnd, IndInv, TypeOK
  <2>3. ~hadError
    BY <2>1, <2>2, ConsumeEffect DEF DrainInv
  <2>4. Fits /\ constants' = constants
    BY <2>1 DEF Emit, EmitOpcode, Fits
  <2>5. PICK text \in Seq(TextToken), words \in Seq(Nat) :
          /\ Reads(source[1], Len(source[1]), text)
          /\ Emitted(code, start, words \o << >>)
          /\ Derived(PREC_ASSIGNMENT, text, words, constants)
    BY <2>2, <2>3, <2>4 DEF LanguageInv, Translated
  <2>6. words \o << >> = words
    BY ConcatEmptySeq
  <2>7. Emitted(code', start, words \o <<OP_RETURN>>)
    <3>1. OP_RETURN \in Nat /\ Emitted(code, start, words)
      BY <2>5, <2>6 DEF OP_RETURN
    <3> QED  BY <2>1, <2>2, <3>1, EmitOne
  <2>8. Translated(<<OP_RETURN>>)'
    BY <2>1, <2>4, <2>5, <2>7 DEF Translated
  <2> QED  BY <2>1, <2>8 DEF LanguageInv
<1>13. CASE UNCHANGED compilerVars
  <2>1. UNCHANGED <<phase, frames, hadError, crnt, source, streams, start, code, constants>>
    BY <1>13 DEF compilerVars, parserVars, inputVars, history, blockVars
  <2>2. (Fits <=> Fits') /\ (NoEnd(frames) <=> NoEnd(frames'))
        /\ (Translates <=> Translates')
        /\ (Translated(<< >>) <=> Translated(<< >>)')
        /\ (Translated(<<OP_RETURN>>) <=> Translated(<<OP_RETURN>>)')
    BY <2>1 DEF Fits, Translates, Translated
  <2> QED  BY <2>1, <2>2 DEF LanguageInv
<1> QED
  BY <1>1, <1>2, <1>3, <1>4, <1>5, <1>6, <1>7, <1>8, <1>9, <1>10, <1>11, <1>12, <1>13
     DEF Next, ParseStep

-----------------------------------------------------------------------------
(* The code of an accepted line is a translation of the text of the line:  *)
(* of all of its tokens but those that the scanner reports as errors and   *)
(* advance() leaves out.  Grammar says what a translation is.  Operators   *)
(* bind as rules[] says, those of the same level group to the left, every  *)
(* operand precedes its operator, every OP_CONSTANT finds the constant of  *)
(* its token, and one OP_RETURN follows.  More constants than a code word  *)
(* can tell apart are out of this (emit_inum_value() cuts the index).      *)
AcceptedIsTranslated ==
  phase = "compiled" /\ ~hadError /\ Len(constants) <= WordSize
    => \E text \in Seq(TextToken), words \in Seq(Nat) :
         /\ Reads(source[1], Len(source[1]), text)
         /\ Derived(PREC_ASSIGNMENT, text, words, constants)
         /\ SubSeq(code, start + 1, Len(code)) = words \o <<OP_RETURN>>

LEMMA LastPart ==
  ASSUME NEW before \in Seq(Nat), NEW words \in Seq(Nat)
  PROVE  SubSeq(before \o words, Len(before) + 1, Len(before \o words)) = words
<1> DEFINE all == before \o words
           m   == Len(before)
           n   == Len(words)
           sub == SubSeq(all, m + 1, m + n)
<1>1. /\ all \in Seq(Nat) /\ Len(all) = m + n /\ m \in Nat /\ n \in Nat
      /\ \A i \in 1 .. m + n : all[i] = IF i <= m THEN before[i] ELSE words[i - m]
  BY ConcatProperties, LenProperties
<1>2. \A i \in m + 1 .. m + n : all[i] \in Nat
  BY <1>1, ElementOfSeq
<1> HIDE DEF all, m, n
<1>3. /\ sub \in Seq(Nat)
      /\ Len(sub) = IF m + 1 <= m + n THEN (m + n) - (m + 1) + 1 ELSE 0
      /\ \A i \in 1 .. (m + n) - (m + 1) + 1 : sub[i] = all[m + 1 + i - 1]
  <2> DEFINE k == m + 1
             l == m + n
  <2>1. k \in Int /\ l \in Int /\ \A i \in k .. l : all[i] \in Nat
    BY <1>1, <1>2
  <2> HIDE DEF k, l, sub
  <2>2. /\ SubSeq(all, k, l) \in Seq(Nat)
        /\ Len(SubSeq(all, k, l)) = IF k <= l THEN l - k + 1 ELSE 0
        /\ \A i \in 1 .. l - k + 1 : SubSeq(all, k, l)[i] = all[k + i - 1]
    BY <2>1, SubSeqProperties
  <2> QED  BY <2>2 DEF k, l, sub
<1>4. Len(sub) = n
  BY <1>1, <1>3
<1>5. ASSUME NEW i \in 1 .. n PROVE sub[i] = words[i]
  <2>1. i \in 1 .. (m + n) - (m + 1) + 1 /\ m + 1 + i - 1 = m + i /\ m + i \in 1 .. m + n
        /\ ~(m + i <= m) /\ m + i - m = i
    BY <1>1
  <2> QED  BY <1>1, <1>3, <2>1
<1> HIDE DEF sub
<1>6. sub = words
  BY <1>3, <1>4, <1>5, SeqEqual DEF n
<1> QED  BY <1>1, <1>6 DEF sub, all, m, n

LEMMA LanguageInvSuffices ==
  ASSUME LanguageInv
  PROVE  AcceptedIsTranslated
<1> SUFFICES ASSUME phase = "compiled", ~hadError, Fits
             PROVE  \E text \in Seq(TextToken), words \in Seq(Nat) :
                      /\ Reads(source[1], Len(source[1]), text)
                      /\ Derived(PREC_ASSIGNMENT, text, words, constants)
                      /\ SubSeq(code, start + 1, Len(code)) = words \o <<OP_RETURN>>
  BY DEF AcceptedIsTranslated, Fits
<1>1. PICK text \in Seq(TextToken), words \in Seq(Nat) :
        /\ Reads(source[1], Len(source[1]), text)
        /\ Emitted(code, start, words \o <<OP_RETURN>>)
        /\ Derived(PREC_ASSIGNMENT, text, words, constants)
  BY DEF LanguageInv, Translated
<1>2. PICK before \in Seq(Nat) :
        Len(before) = start /\ code = before \o (words \o <<OP_RETURN>>)
  BY <1>1 DEF Emitted
<1> DEFINE all == words \o <<OP_RETURN>>
<1>3. all \in Seq(Nat)
  <2>1. OP_RETURN \in Nat
    BY DEF OP_RETURN
  <2>2. <<OP_RETURN>> \in Seq(Nat)
    BY <2>1, SingleSeq
  <2> QED  BY <2>2, ConcatWords
<1> HIDE DEF all
<1>4. SubSeq(code, start + 1, Len(code)) = all
  BY <1>2, <1>3, LastPart DEF all
<1> QED  BY <1>1, <1>4 DEF all

(* The compiler is a translator: what it accepts it turns into code of the *)
(* language of Grammar, for every set of lines, however deep they nest.    *)
THEOREM CompiledIsTranslation == Spec => []AcceptedIsTranslated
<1>1. Init => DrainInv /\ LanguageInv
  BY InitDrainInv, InitLanguageInv
<1>2. IndInv /\ IndInv' /\ DrainInv /\ LanguageInv /\ [Next]_compilerVars
        => DrainInv' /\ LanguageInv'
  BY NextDrainInv, NextLanguageInv
<1>3. LanguageInv => AcceptedIsTranslated
  BY LanguageInvSuffices
<1> QED  BY <1>1, <1>2, <1>3, Invariance, PTL DEF Spec
-----------------------------------------------------------------------------
(* The other direction: no text of the language is rejected.  A parse is   *)
(* a walk through pairs of a call stack and the tokens that are left.      *)
First(r) == IF r = << >> THEN "END_OF_FILE" ELSE Head(r)

(* What the parse functions do when they meet no error. *)
Moves(fs, r, gs, q) ==
  LET f  == fs[Len(fs)]
      cs == SubSeq(fs, 1, Len(fs) - 1)
  IN  \/ /\ f.fn = "get_precedence"
         /\ q = Tail(r)
         /\ \/ /\ PrefixRule(First(r)) \in {"constant", "literal"}
               /\ gs = Append(cs, Loop(f.prec))
            \/ /\ PrefixRule(First(r)) = "grouping"
               /\ gs = cs \o <<Loop(f.prec), [fn |-> "grouping"], Expression>>
            \/ /\ PrefixRule(First(r)) = "unary"
               /\ gs = cs \o <<Loop(f.prec), [fn |-> "unary", type |-> First(r)],
                               GetPrecedence(PREC_UNARY)>>
      \/ /\ f.fn = "get_precedence_loop"
         /\ f.prec <= RulePrec(First(r))
         /\ First(r) \in BinaryToken
         /\ q = Tail(r)
         /\ gs = fs \o <<[fn |-> "binary", type |-> First(r)],
                         GetPrecedence(RulePrec(First(r)) + 1)>>
      \/ /\ f.fn = "get_precedence_loop"
         /\ f.prec > RulePrec(First(r))
         /\ q = r /\ gs = cs
      \/ /\ f.fn = "grouping"
         /\ First(r) = "CPAR_TOKEN"
         /\ q = Tail(r) /\ gs = cs
      \/ /\ f.fn \in {"unary", "binary"}
         /\ q = r /\ gs = cs

Done(fs, r) == fs = <<[fn |-> "compile"]>> /\ r = << >>

(* From every pair of S a move leads to another one, or all is done.       *)
Leads(S) ==
  \A fs, r : <<fs, r>> \in S =>
    Done(fs, r) \/ \E gs, q : <<gs, q>> \in S /\ Moves(fs, r, gs, q)

(* The walk from here meets no error. *)
Passes(fs, r) == \E S : <<fs, r>> \in S /\ Leads(S)

(* What is left begins with a sentence of level p, and get_precedence() is *)
(* called for a level that is no higher: it parses the sentence.           *)
Parsable(p, s) ==
  \A cs \in Seq(Frame), q \in Precedence, r \in Seq(TextToken) :
    q <= p /\ RulePrec(First(r)) <= p /\ Passes(Append(cs, Loop(q)), r)
      => Passes(Append(cs, GetPrecedence(q)), s \o r)

-----------------------------------------------------------------------------
LEMMA PassesBefore ==
  ASSUME NEW fs, NEW r, NEW gs, NEW q, Moves(fs, r, gs, q), Passes(gs, q)
  PROVE  Passes(fs, r)
<1>1. PICK S : <<gs, q>> \in S /\ Leads(S)
  BY DEF Passes
<1> DEFINE T == S \cup {<<fs, r>>}
<1>2. ASSUME NEW hs, NEW u, <<hs, u>> \in T
      PROVE  Done(hs, u) \/ \E ks, v : <<ks, v>> \in T /\ Moves(hs, u, ks, v)
  <2>1. CASE <<hs, u>> \in S
    BY <1>1, <2>1 DEF Leads
  <2>2. CASE <<hs, u>> = <<fs, r>>
    BY <1>1, <2>2
  <2> QED  BY <1>2, <2>1, <2>2
<1> HIDE DEF T
<1>3. Leads(T)
  BY <1>2 DEF Leads
<1>4. <<fs, r>> \in T
  BY DEF T
<1> QED  BY <1>3, <1>4 DEF Passes

LEMMA PassesAfter ==
  ASSUME NEW fs, NEW r, Passes(fs, r)
  PROVE  Done(fs, r) \/ \E gs, q : Moves(fs, r, gs, q) /\ Passes(gs, q)
<1>1. PICK S : <<fs, r>> \in S /\ Leads(S)
  BY DEF Passes
<1>2. CASE Done(fs, r)
  BY <1>2
<1>3. CASE ~Done(fs, r)
  <2>1. PICK gs, q : <<gs, q>> \in S /\ Moves(fs, r, gs, q)
    BY <1>1, <1>3 DEF Leads
  <2>2. Passes(gs, q)
    BY <1>1, <2>1 DEF Passes
  <2> QED  BY <2>1, <2>2
<1> QED  BY <1>2, <1>3

LEMMA TopOfAppend ==
  ASSUME NEW cs \in Seq(Frame), NEW f \in Frame
  PROVE  LET fs == Append(cs, f)
         IN  /\ fs \in Seq(Frame) /\ fs # << >>
             /\ fs[Len(fs)] = f
             /\ SubSeq(fs, 1, Len(fs) - 1) = cs
<1> DEFINE fs == Append(cs, f)
           ds == SubSeq(fs, 1, Len(fs) - 1)
<1>1. /\ fs \in Seq(Frame) /\ Len(fs) = Len(cs) + 1 /\ Len(cs) \in Nat
      /\ fs[Len(cs) + 1] = f
      /\ \A i \in 1 .. Len(cs) : fs[i] = cs[i]
  BY AppendProperties, LenProperties
<1>2. fs # << >>
  BY <1>1, EmptySeq
<1> HIDE DEF fs
<1>3. /\ ds \in Seq(Frame) /\ Len(ds) = Len(fs) - 1
      /\ \A i \in 1 .. Len(fs) - 1 : ds[i] = fs[i]
  BY <1>1, <1>2, OperandsReturn
<1> HIDE DEF ds
<1>4. ds = cs
  BY <1>1, <1>3, SeqEqual
<1>5. fs[Len(fs)] = f
  BY <1>1
<1> QED  BY <1>1, <1>2, <1>4, <1>5 DEF ds, fs

LEMMA FirstOfText ==
  ASSUME NEW tok \in TextToken, NEW r \in Seq(TextToken)
  PROVE  /\ <<tok>> \o r \in Seq(TextToken)
         /\ First(<<tok>> \o r) = tok
         /\ Tail(<<tok>> \o r) = r
<1> DEFINE s == <<tok>> \o r
<1>1. <<tok>> \in Seq(TextToken) /\ Len(<<tok>>) = 1 /\ <<tok>>[1] = tok
  BY SingleSeq
<1>2. /\ s \in Seq(TextToken) /\ Len(s) = 1 + Len(r) /\ Len(r) \in Nat
      /\ \A i \in 1 .. 1 + Len(r) : s[i] = IF i <= 1 THEN tok ELSE r[i - 1]
  BY <1>1, ConcatProperties, LenProperties
<1> HIDE DEF s
<1>3. s # << >> /\ 1 \in 1 .. 1 + Len(r)
  BY <1>2, EmptySeq
<1>4. Head(s) = tok
  BY <1>2, <1>3, HeadTailProperties
<1>5. /\ Tail(s) \in Seq(TextToken) /\ Len(Tail(s)) = Len(s) - 1
      /\ \A i \in 1 .. Len(Tail(s)) : Tail(s)[i] = s[i + 1]
  BY <1>2, <1>3, HeadTailProperties
<1> DEFINE t == Tail(s)
<1>6. ASSUME NEW i \in 1 .. Len(r) PROVE t[i] = r[i]
  <2>1. i + 1 \in 1 .. 1 + Len(r) /\ ~(i + 1 <= 1) /\ (i + 1) - 1 = i /\ i \in 1 .. Len(t)
    BY <1>2, <1>5
  <2> QED  BY <1>2, <1>5, <2>1
<1>7. t \in Seq(TextToken) /\ Len(t) = Len(r)
  BY <1>2, <1>5
<1> HIDE DEF t
<1>8. t = r
  BY <1>6, <1>7, SeqEqual
<1> QED  BY <1>2, <1>3, <1>4, <1>8 DEF s, t, First

LEMMA PrecRange ==
  ASSUME NEW tok
  PROVE  RulePrec(tok) \in 0 .. 7
BY DEF RulePrec, PREC_NONE, PREC_FACTOR, PREC_TERM, PREC_COMPARISON, PREC_EQUALITY

(* A function returns to its caller. *)
LEMMA PassesReturn ==
  ASSUME NEW cs \in Seq(Frame), NEW f \in Frame, NEW r \in Seq(TextToken), Passes(cs, r),
         \/ f.fn \in {"unary", "binary"}
         \/ f.fn = "get_precedence_loop" /\ f.prec > RulePrec(First(r))
  PROVE  Passes(Append(cs, f), r)
<1> DEFINE fs == Append(cs, f)
<1>1. fs[Len(fs)] = f /\ SubSeq(fs, 1, Len(fs) - 1) = cs
  BY TopOfAppend
<1> HIDE DEF fs
<1>2. Moves(fs, r, cs, r)
  BY <1>1 DEF Moves
<1>3. Passes(fs, r)
  BY <1>2, PassesBefore
<1> QED  BY <1>3 DEF fs

-----------------------------------------------------------------------------
(* One lemma for each rule: what it makes of parsable parts is parsable.   *)
LEMMA ParsableOperand ==
  ASSUME NEW tok \in ConstantToken \cup LiteralToken
  PROVE  Parsable(PREC_PRIMARY, <<tok>>)
<1> SUFFICES ASSUME NEW cs \in Seq(Frame), NEW q \in Precedence, NEW r \in Seq(TextToken),
                    Passes(Append(cs, Loop(q)), r)
             PROVE  Passes(Append(cs, GetPrecedence(q)), <<tok>> \o r)
  BY DEF Parsable
<1> DEFINE f  == GetPrecedence(q)
           fs == Append(cs, f)
           s  == <<tok>> \o r
<1>1. f \in Frame /\ f.fn = "get_precedence" /\ f.prec = q
  BY FrameFacts DEF GetPrecedence
<1> HIDE DEF f
<1>2. fs[Len(fs)] = f /\ SubSeq(fs, 1, Len(fs) - 1) = cs
  BY <1>1, TopOfAppend
<1>3. tok \in TextToken /\ PrefixRule(tok) \in {"constant", "literal"}
  <2>1. CASE tok \in ConstantToken
    BY <2>1, TokensAreText DEF PrefixRule, ConstantToken, LiteralToken, UnaryToken
  <2>2. CASE tok \in LiteralToken
    BY <2>2, TokensAreText DEF PrefixRule, ConstantToken, LiteralToken, UnaryToken
  <2> QED  BY <2>1, <2>2
<1>4. First(s) = tok /\ Tail(s) = r
  BY <1>3, FirstOfText
<1> HIDE DEF fs, s
<1>5. Moves(fs, s, Append(cs, Loop(q)), r)
  BY <1>1, <1>2, <1>3, <1>4 DEF Moves
<1>6. Passes(fs, s)
  BY <1>5, PassesBefore
<1> QED  BY <1>6 DEF fs, f, s

LEMMA ParsableGrouping ==
  ASSUME NEW s \in Seq(TextToken), Parsable(PREC_ASSIGNMENT, s)
  PROVE  Parsable(PREC_PRIMARY, <<"OPAR_TOKEN">> \o s \o <<"CPAR_TOKEN">>)
<1> SUFFICES ASSUME NEW cs \in Seq(Frame), NEW q \in Precedence, NEW r \in Seq(TextToken),
                    Passes(Append(cs, Loop(q)), r)
             PROVE  Passes(Append(cs, GetPrecedence(q)),
                           (<<"OPAR_TOKEN">> \o s \o <<"CPAR_TOKEN">>) \o r)
  BY DEF Parsable
<1> DEFINE o   == <<"OPAR_TOKEN">>
           c   == <<"CPAR_TOKEN">>
           g   == [fn |-> "grouping"]
           one == Append(cs, Loop(q))
           two == Append(one, g)
           rest == c \o r
<1>1. /\ Loop(q) \in Frame /\ g \in Frame /\ g.fn = "grouping"
      /\ Expression \in Frame /\ Expression = GetPrecedence(PREC_ASSIGNMENT)
      /\ Loop(PREC_ASSIGNMENT) \in Frame
      /\ Loop(PREC_ASSIGNMENT).fn = "get_precedence_loop"
      /\ Loop(PREC_ASSIGNMENT).prec = PREC_ASSIGNMENT
      /\ GetPrecedence(q) \in Frame /\ GetPrecedence(q).fn = "get_precedence"
      /\ GetPrecedence(q).prec = q
      /\ PREC_ASSIGNMENT \in Precedence
  <2>1. PREC_ASSIGNMENT \in Precedence
    BY DEF PREC_ASSIGNMENT, Precedence
  <2> QED  BY <2>1, FrameFacts DEF Loop, GetPrecedence, Expression
<1>2. o \in Seq(TextToken) /\ c \in Seq(TextToken)
      /\ "OPAR_TOKEN" \in TextToken /\ "CPAR_TOKEN" \in TextToken
  BY TokensAreText, SingleSeq
<1>3. rest \in Seq(TextToken) /\ First(rest) = "CPAR_TOKEN" /\ Tail(rest) = r
  BY <1>2, FirstOfText
<1>4. RulePrec("CPAR_TOKEN") = 0 /\ PrefixRule("OPAR_TOKEN") = "grouping"
  BY DEF RulePrec, PREC_NONE, PrefixRule, ConstantToken, LiteralToken, UnaryToken
<1>5. one \in Seq(Frame) /\ two \in Seq(Frame)
      /\ two[Len(two)] = g /\ SubSeq(two, 1, Len(two) - 1) = one
  <2>1. one \in Seq(Frame)
    BY <1>1, TopOfAppend
  <2> HIDE DEF one, g
  <2> QED  BY <1>1, <2>1, TopOfAppend
<1>6. cs \o <<Loop(q), g, Expression>> = Append(two, Expression)
  <2> HIDE DEF g
  <2> QED  BY <1>1, PushThree
<1> HIDE DEF g, one, two, rest, o, c
<1>7. Passes(two, rest)
  <2>1. Moves(two, rest, one, r)
    BY <1>1, <1>3, <1>5 DEF Moves
  <2>2. Passes(one, r)
    BY DEF one
  <2> QED  BY <2>1, <2>2, PassesBefore
<1>8. Passes(Append(two, Loop(PREC_ASSIGNMENT)), rest)
  <2>1. Loop(PREC_ASSIGNMENT).prec > RulePrec(First(rest))
    BY <1>1, <1>3, <1>4 DEF PREC_ASSIGNMENT
  <2> QED  BY <1>1, <1>3, <1>5, <1>7, <2>1, PassesReturn
<1>9. Passes(Append(two, Expression), s \o rest)
  <2>1. RulePrec(First(rest)) <= PREC_ASSIGNMENT /\ PREC_ASSIGNMENT <= PREC_ASSIGNMENT
    BY <1>3, <1>4 DEF PREC_ASSIGNMENT
  <2> QED  BY <1>1, <1>3, <1>5, <1>8, <2>1 DEF Parsable
<1>10. s \o rest \in Seq(TextToken)
       /\ (o \o s \o c) \o r = o \o (s \o rest)
  <2>1. s \o rest \in Seq(TextToken)
    BY <1>3, ConcatText
  <2>2. o \o s \in Seq(TextToken) /\ (o \o s \o c) \o r = (o \o s) \o (c \o r)
    <3> DEFINE os == o \o s
    <3>1. os \in Seq(TextToken)
      BY <1>2, ConcatProperties
    <3> HIDE DEF os
    <3>2. (os \o c) \o r = os \o (c \o r)
      <4>1. c \in Seq(TextToken)
        BY <1>2
      <4> QED  BY <3>1, <4>1, AssocText, Zenon
    <3> QED  BY <3>1, <3>2 DEF os
  <2>3. (o \o s) \o rest = o \o (s \o rest)
    <3>1. o \in Seq(TextToken) /\ rest \in Seq(TextToken)
      BY <1>2, <1>3
    <3> QED  BY <3>1, AssocText, Zenon
  <2> QED  BY <2>1, <2>2, <2>3 DEF rest
<1> DEFINE u  == s \o rest
           v  == o \o u
           fs == Append(cs, GetPrecedence(q))
<1>11. First(v) = "OPAR_TOKEN" /\ Tail(v) = u
  BY <1>2, <1>10, FirstOfText DEF o
<1>12. fs[Len(fs)] = GetPrecedence(q) /\ SubSeq(fs, 1, Len(fs) - 1) = cs
  BY <1>1, TopOfAppend
<1> HIDE DEF u, v, fs
<1>13. Moves(fs, v, Append(two, Expression), u)
  BY <1>1, <1>4, <1>6, <1>11, <1>12 DEF Moves, g
<1>14. Passes(fs, v)
  BY <1>9, <1>13, PassesBefore DEF u
<1> QED  BY <1>10, <1>14 DEF fs, v, u, o, c

LEMMA ParsableUnary ==
  ASSUME NEW tok \in UnaryToken, NEW s \in Seq(TextToken), Parsable(PREC_UNARY, s)
  PROVE  Parsable(PREC_UNARY, <<tok>> \o s)
<1> SUFFICES ASSUME NEW cs \in Seq(Frame), NEW q \in Precedence, NEW r \in Seq(TextToken),
                    Passes(Append(cs, Loop(q)), r)
             PROVE  Passes(Append(cs, GetPrecedence(q)), (<<tok>> \o s) \o r)
  BY DEF Parsable
<1> DEFINE o   == <<tok>>
           g   == [fn |-> "unary", type |-> tok]
           one == Append(cs, Loop(q))
           two == Append(one, g)
<1>1. /\ Loop(q) \in Frame /\ g \in Frame /\ g.fn = "unary"
      /\ GetPrecedence(PREC_UNARY) \in Frame
      /\ Loop(PREC_UNARY) \in Frame
      /\ Loop(PREC_UNARY).fn = "get_precedence_loop"
      /\ Loop(PREC_UNARY).prec = PREC_UNARY
      /\ GetPrecedence(q) \in Frame /\ GetPrecedence(q).fn = "get_precedence"
      /\ GetPrecedence(q).prec = q
      /\ PREC_UNARY \in Precedence
  <2>1. PREC_UNARY \in Precedence
    BY DEF PREC_UNARY, Precedence
  <2> QED  BY <2>1, FrameFacts DEF Loop, GetPrecedence
<1>2. o \in Seq(TextToken) /\ tok \in TextToken /\ PrefixRule(tok) = "unary"
  BY TokensAreText, SingleSeq DEF PrefixRule, UnaryToken, ConstantToken, LiteralToken
<1>3. PREC_UNARY > RulePrec(First(r)) /\ RulePrec(First(r)) <= PREC_UNARY
      /\ PREC_UNARY <= PREC_UNARY
  <2> DEFINE x == RulePrec(First(r))
  <2>1. x \in 0 .. 7
    BY PrecRange
  <2> HIDE DEF x
  <2>2. PREC_UNARY > x /\ x <= PREC_UNARY /\ PREC_UNARY <= PREC_UNARY
    BY <2>1 DEF PREC_UNARY
  <2> QED  BY <2>2 DEF x
<1>4. one \in Seq(Frame) /\ two \in Seq(Frame)
  <2>1. one \in Seq(Frame)
    BY <1>1, TopOfAppend
  <2> HIDE DEF one, g
  <2> QED  BY <1>1, <2>1, TopOfAppend
<1>5. cs \o <<Loop(q), g, GetPrecedence(PREC_UNARY)>> = Append(two, GetPrecedence(PREC_UNARY))
  <2> HIDE DEF g
  <2> QED  BY <1>1, PushThree
<1>6. Passes(one, r)
  OBVIOUS
<1> HIDE DEF g, one, two, o
<1>7. Passes(two, r)
  BY <1>1, <1>4, <1>6, PassesReturn DEF two
<1>8. Passes(Append(two, Loop(PREC_UNARY)), r)
  BY <1>1, <1>3, <1>4, <1>7, PassesReturn
<1>9. Passes(Append(two, GetPrecedence(PREC_UNARY)), s \o r)
  BY <1>1, <1>3, <1>4, <1>8 DEF Parsable
<1>10. s \o r \in Seq(TextToken) /\ (o \o s) \o r = o \o (s \o r)
  BY <1>2, ConcatText
<1> DEFINE u  == s \o r
           v  == o \o u
           fs == Append(cs, GetPrecedence(q))
<1>11. First(v) = tok /\ Tail(v) = u
  BY <1>2, <1>10, FirstOfText DEF o
<1>12. fs[Len(fs)] = GetPrecedence(q) /\ SubSeq(fs, 1, Len(fs) - 1) = cs
  BY <1>1, TopOfAppend
<1> HIDE DEF u, v, fs
<1>13. Moves(fs, v, Append(two, GetPrecedence(PREC_UNARY)), u)
  BY <1>1, <1>2, <1>5, <1>11, <1>12 DEF Moves, g
<1>14. Passes(fs, v)
  BY <1>9, <1>13, PassesBefore DEF u
<1> QED  BY <1>10, <1>14 DEF fs, v, u, o

LEMMA ParsableBinary ==
  ASSUME NEW tok \in BinaryToken, NEW s \in Seq(TextToken), NEW t \in Seq(TextToken),
         Parsable(RulePrec(tok), s), Parsable(RulePrec(tok) + 1, t)
  PROVE  Parsable(RulePrec(tok), s \o <<tok>> \o t)
<1> DEFINE p == RulePrec(tok)
<1> SUFFICES ASSUME NEW cs \in Seq(Frame), NEW q \in Precedence, NEW r \in Seq(TextToken),
                    q <= p, RulePrec(First(r)) <= p, Passes(Append(cs, Loop(q)), r)
             PROVE  Passes(Append(cs, GetPrecedence(q)), (s \o <<tok>> \o t) \o r)
  BY DEF Parsable
<1> DEFINE o   == <<tok>>
           g   == [fn |-> "binary", type |-> tok]
           n   == p + 1
           one == Append(cs, Loop(q))
           two == Append(one, g)
<1>1. p \in 4 .. 7 /\ n \in Precedence /\ n = p + 1 /\ n <= n
  <2>1. p \in 4 .. 7
    BY TokensAreText
  <2> HIDE DEF p
  <2> QED  BY <2>1 DEF Precedence
<1>2. RulePrec(First(r)) <= n /\ n > RulePrec(First(r)) /\ p <= p
  <2> DEFINE x == RulePrec(First(r))
  <2>1. x \in 0 .. 7 /\ x <= p
    BY PrecRange
  <2> HIDE DEF x, p
  <2>2. x <= n /\ n > x /\ p <= p
    BY <1>1, <2>1
  <2> QED  BY <2>2 DEF x
<1> HIDE DEF n
<1>3. /\ Loop(q) \in Frame /\ Loop(q).fn = "get_precedence_loop" /\ Loop(q).prec = q
      /\ g \in Frame /\ g.fn = "binary"
      /\ GetPrecedence(n) \in Frame /\ Loop(n) \in Frame
      /\ Loop(n).fn = "get_precedence_loop" /\ Loop(n).prec = n
  BY <1>1, FrameFacts DEF Loop, GetPrecedence
<1>4. o \in Seq(TextToken) /\ tok \in TextToken
  BY TokensAreText, SingleSeq
<1>5. one \in Seq(Frame) /\ two \in Seq(Frame)
      /\ one[Len(one)] = Loop(q)
  <2>1. one \in Seq(Frame) /\ one[Len(one)] = Loop(q)
    BY <1>3, TopOfAppend
  <2> HIDE DEF one, g
  <2> QED  BY <1>3, <2>1, TopOfAppend
<1>6. one \o <<g, GetPrecedence(n)>> = Append(two, GetPrecedence(n))
  <2> HIDE DEF g, one
  <2> QED  BY <1>3, <1>5, PushTwo
<1>7. Passes(one, r)
  OBVIOUS
<1> HIDE DEF g, one, two, o
<1>8. Passes(two, r)
  BY <1>3, <1>5, <1>7, PassesReturn DEF two
<1>9. Passes(Append(two, Loop(n)), r)
  BY <1>2, <1>3, <1>5, <1>8, PassesReturn
<1>10. Passes(Append(two, GetPrecedence(n)), t \o r)
  <2>1. Parsable(n, t)
    BY DEF n
  <2> QED  BY <1>1, <1>2, <1>5, <1>9, <2>1 DEF Parsable
<1>11. /\ t \o r \in Seq(TextToken) /\ o \o (t \o r) \in Seq(TextToken)
       /\ (s \o o \o t) \o r = s \o (o \o (t \o r))
  <2>1. t \o r \in Seq(TextToken)
    BY ConcatProperties
  <2>2. o \o (t \o r) \in Seq(TextToken)
    BY <1>4, <2>1, ConcatProperties
  <2>3. (s \o o) \o t \o r = (s \o o) \o (t \o r)
    <3>1. s \o o \in Seq(TextToken)
      BY <1>4, ConcatProperties
    <3>2. \A x \in Seq(TextToken) : (x \o t) \o r = x \o (t \o r)
      BY AssocBehind, Zenon
    <3> QED  BY <3>1, <3>2, Zenon
  <2>4. (s \o o) \o (t \o r) = s \o (o \o (t \o r))
    <3>1. \A x \in Seq(TextToken) : (s \o o) \o x = s \o (o \o x)
      BY <1>4, AssocBefore, Zenon
    <3> QED  BY <2>1, <3>1, Zenon
  <2> QED  BY <2>1, <2>2, <2>3, <2>4, Zenon
<1> DEFINE u == t \o r
           v == o \o u
<1>12. First(v) = tok /\ Tail(v) = u
  BY <1>4, <1>11, FirstOfText DEF o
<1> HIDE DEF u, v, p
<1>13. Passes(one, v)
  <2>1. Moves(one, v, Append(two, GetPrecedence(n)), u)
    BY <1>3, <1>5, <1>6, <1>12 DEF Moves, g, n, p
  <2> QED  BY <1>10, <2>1, PassesBefore DEF u
<1>14. Passes(Append(cs, GetPrecedence(q)), s \o v)
  <2>1. RulePrec(First(v)) <= p
    BY <1>2, <1>12 DEF p
  <2>2. v \in Seq(TextToken)
    BY <1>11 DEF u, v
  <2>3. Parsable(p, s)
    BY DEF p
  <2>4. Passes(Append(cs, Loop(q)), v)
    BY <1>13 DEF one
  <2> QED  BY <2>1, <2>2, <2>3, <2>4 DEF Parsable
<1> QED  BY <1>11, <1>14 DEF v, u, o

LEMMA ParsableWeaker ==
  ASSUME NEW p \in Precedence, NEW q \in 0 .. p, NEW s, Parsable(p, s)
  PROVE  Parsable(q, s)
<1> SUFFICES ASSUME NEW cs \in Seq(Frame), NEW x \in Precedence, NEW r \in Seq(TextToken),
                    x <= q, RulePrec(First(r)) <= q
             PROVE  x <= p /\ RulePrec(First(r)) <= p
  BY DEF Parsable
<1> DEFINE y == RulePrec(First(r))
<1>1. y \in 0 .. 7 /\ y <= q
  BY PrecRange
<1> HIDE DEF y
<1>2. x <= p /\ y <= p
  BY <1>1 DEF Precedence
<1> QED  BY <1>2 DEF y

(* All sentences are parsable: the parsable ones are closed under the      *)
(* rules, and the language is in every set that is.                        *)
LEMMA DerivedParsable ==
  ASSUME NEW K, Len(K) \in Nat, NEW p, NEW s, NEW c, Derived(p, s, c, K)
  PROVE  Parsable(p, s)
<1> DEFINE G == {x \in AnySentence : Parsable(x.level, x.text)}
<1>1. G \subseteq AnySentence
  OBVIOUS
<1>2. Produced(G, K) \subseteq AnySentence
  <2>1. Produced(G, K) \subseteq Produced(AnySentence, K)
    BY <1>1, ProducedGrows
  <2>2. Produced(AnySentence, K) \subseteq AnySentence
    BY SentencesClosed DEF Closed
  <2> QED  BY <2>1, <2>2
<1>3. ASSUME NEW x \in G
      PROVE  /\ x.level \in Precedence /\ x.level \in 0 .. 10 /\ x.text \in Seq(TextToken)
             /\ Parsable(x.level, x.text)
  BY DEF AnySentence, Precedence
<1> HIDE DEF G
<1>4. ASSUME NEW y \in Produced(G, K)
      PROVE  Parsable(y.level, y.text)
  <2>1. CASE y \in ConstantRule(K)
    <3>1. PICK x \in ConstantToken \X (0 .. Len(K) - 1) :
            y = Sentence(PREC_PRIMARY, <<x[1]>>, <<OP_CONSTANT, x[2]>>)
      BY <2>1 DEF ConstantRule
    <3>2. x[1] \in ConstantToken \cup LiteralToken
      OBVIOUS
    <3> QED  BY <3>1, <3>2, ParsableOperand, SentenceFields
  <2>2. CASE y \in LiteralRule
    <3>1. PICK tok \in LiteralToken :
            y = Sentence(PREC_PRIMARY, <<tok>>, <<LiteralOpcode(tok)>>)
      BY <2>2 DEF LiteralRule
    <3>2. tok \in ConstantToken \cup LiteralToken
      OBVIOUS
    <3> QED  BY <3>1, <3>2, ParsableOperand, SentenceFields
  <2>3. CASE y \in GroupingRule(G)
    <3>1. PICK x \in AtLevel(G, PREC_ASSIGNMENT) :
            y = Sentence(PREC_PRIMARY, <<"OPAR_TOKEN">> \o x.text \o <<"CPAR_TOKEN">>, x.words)
      BY <2>3 DEF GroupingRule
    <3>2. x.text \in Seq(TextToken) /\ Parsable(PREC_ASSIGNMENT, x.text)
      BY <1>3 DEF AtLevel
    <3>3. Parsable(PREC_PRIMARY, <<"OPAR_TOKEN">> \o x.text \o <<"CPAR_TOKEN">>)
      BY <3>2, ParsableGrouping
    <3> QED  BY <3>1, <3>3, SentenceFields
  <2>4. CASE y \in UnaryRule(G)
    <3>1. PICK tok \in UnaryToken, x \in AtLevel(G, PREC_UNARY) :
            y = Sentence(PREC_UNARY, <<tok>> \o x.text, x.words \o <<UnaryOpcode(tok)>>)
      BY <2>4 DEF UnaryRule
    <3>2. x.text \in Seq(TextToken) /\ Parsable(PREC_UNARY, x.text)
      BY <1>3 DEF AtLevel
    <3>3. Parsable(PREC_UNARY, <<tok>> \o x.text)
      BY <3>2, ParsableUnary
    <3> QED  BY <3>1, <3>3, SentenceFields
  <2>5. CASE y \in BinaryRule(G)
    <3>1. PICK tok \in BinaryToken :
            y \in {Sentence(RulePrec(tok), l.text \o <<tok>> \o r.text,
                            l.words \o r.words \o <<BinaryOpcode(tok)>>) :
                     l \in AtLevel(G, RulePrec(tok)), r \in AtLevel(G, RulePrec(tok) + 1)}
      BY <2>5 DEF BinaryRule
    <3>2. PICK l \in AtLevel(G, RulePrec(tok)), r \in AtLevel(G, RulePrec(tok) + 1) :
            y = Sentence(RulePrec(tok), l.text \o <<tok>> \o r.text,
                         l.words \o r.words \o <<BinaryOpcode(tok)>>)
      BY <3>1
    <3>3. /\ l.text \in Seq(TextToken) /\ Parsable(RulePrec(tok), l.text)
          /\ r.text \in Seq(TextToken) /\ Parsable(RulePrec(tok) + 1, r.text)
      BY <1>3 DEF AtLevel
    <3>4. Parsable(RulePrec(tok), l.text \o <<tok>> \o r.text)
      BY <3>3, ParsableBinary
    <3> QED  BY <3>2, <3>4, SentenceFields
  <2>6. CASE y \in WeakerRule(G)
    <3>0. PICK x \in G : y \in {Sentence(q, x.text, x.words) : q \in 0 .. x.level}
      BY <2>6 DEF WeakerRule
    <3>1. PICK q \in 0 .. x.level : y = Sentence(q, x.text, x.words)
      BY <3>0
    <3>2. Parsable(q, x.text)
      BY <1>3, ParsableWeaker
    <3> QED  BY <3>1, <3>2, SentenceFields
  <2> QED  BY <2>1, <2>2, <2>3, <2>4, <2>5, <2>6 DEF Produced
<1>5. Closed(G, K)
  <2>1. Produced(G, K) \subseteq G
    BY <1>2, <1>4 DEF G
  <2> QED  BY <1>1, <2>1 DEF Closed
<1>6. Sentence(p, s, c) \in G
  BY <1>1, <1>5 DEF Derived
<1> QED  BY <1>3, <1>6, SentenceFields

(* compile() meets no error in a text of the language. *)
LEMMA WholePasses ==
  ASSUME NEW K, Len(K) \in Nat, NEW s, NEW c, Derived(PREC_ASSIGNMENT, s, c, K)
  PROVE  /\ s \in Seq(TextToken)
         /\ Passes(<<[fn |-> "compile"], Expression>>, s)
<1> DEFINE bottom == [fn |-> "compile"]
           cs == <<bottom>>
           none == << >>
<1>1. bottom \in Frame /\ cs \in Seq(Frame)
  BY FrameFacts, SingleSeq
<1>2. Passes(cs, none)
  <2>1. Done(cs, none)
    BY DEF Done
  <2> DEFINE S == {<<cs, none>>}
  <2> HIDE DEF cs, none
  <2>2. ASSUME NEW fs, NEW r, <<fs, r>> \in S PROVE Done(fs, r)
    BY <2>1, <2>2
  <2>3. Leads(S)
    BY <2>2 DEF Leads
  <2>4. <<cs, none>> \in S
    OBVIOUS
  <2> QED  BY <2>3, <2>4 DEF Passes
<1>3. /\ Loop(PREC_ASSIGNMENT) \in Frame /\ Loop(PREC_ASSIGNMENT).fn = "get_precedence_loop"
      /\ Loop(PREC_ASSIGNMENT).prec = PREC_ASSIGNMENT
      /\ PREC_ASSIGNMENT \in Precedence /\ Expression = GetPrecedence(PREC_ASSIGNMENT)
      /\ Expression \in Frame
  <2>1. PREC_ASSIGNMENT \in Precedence
    BY DEF PREC_ASSIGNMENT, Precedence
  <2> QED  BY <2>1, FrameFacts DEF Loop, Expression
<1>4. none \in Seq(TextToken) /\ RulePrec(First(none)) = 0
  BY NothingIsSeq DEF First, RulePrec, PREC_NONE
<1>5. /\ PREC_ASSIGNMENT > RulePrec(First(none))
      /\ RulePrec(First(none)) <= PREC_ASSIGNMENT
      /\ PREC_ASSIGNMENT <= PREC_ASSIGNMENT
  BY <1>4 DEF PREC_ASSIGNMENT
<1>6. s \in Seq(TextToken) /\ Parsable(PREC_ASSIGNMENT, s)
  BY DerivedType, DerivedParsable
<1>7. <<bottom, Expression>> = Append(cs, Expression)
  <2> HIDE DEF bottom
  <2> QED  BY <1>1, <1>3
<1>8. s \o none = s
  BY <1>6, ConcatEmptySeq
<1> HIDE DEF none, cs, bottom
<1>9. Passes(Append(cs, Loop(PREC_ASSIGNMENT)), none)
  BY <1>1, <1>2, <1>3, <1>4, <1>5, PassesReturn
<1>10. Passes(Append(cs, Expression), s \o none)
  BY <1>1, <1>3, <1>4, <1>5, <1>6, <1>9 DEF Parsable
<1> QED  BY <1>6, <1>7, <1>8, <1>10 DEF bottom

-----------------------------------------------------------------------------
(* rest are the tokens of the text that the parser has still to see, tok   *)
(* being the next one.                                                     *)
Remains(strs, tok, rest) ==
  \/ tok = "END_OF_FILE" /\ rest = << >>
  \/ /\ tok \notin EndToken
     /\ rest # << >> /\ Head(rest) = tok
     /\ Reads(Head(strs), Len(Head(strs)), Tail(rest))

LEMMA RemainsFirst ==
  ASSUME NEW strs, NEW tok, NEW rest, Remains(strs, tok, rest)
  PROVE  First(rest) = tok
BY DEF Remains, First

(* The first of the tokens that are let through is the one to come, and    *)
(* the others are let through of what is behind it.                        *)
LEMMA ReadsBehind ==
  ASSUME NEW s \in Seq(TextToken), NEW t \in Seq(TextToken), Reads(s, Len(s), t),
         NEW i \in 1 .. Len(s), s[i] # "ERROR_TOKEN",
         \A j \in 1 .. i - 1 : s[j] = "ERROR_TOKEN"
  PROVE  /\ t # << >> /\ Head(t) = s[i]
         /\ Reads(Rest(s, i), Len(Rest(s, i)), Tail(t))
<1> DEFINE n == Len(s)
           m == Len(t)
           v == Rest(s, i)
           u == Tail(t)
<1>1. n \in Nat /\ m \in Nat /\ i \in Nat /\ i \in 0 .. n
  BY LenProperties
<1>2. PICK at \in [1 .. m -> 1 .. n] :
        /\ \A k, j \in 1 .. m : k < j => at[k] < at[j]
        /\ \A j \in 1 .. m : t[j] = s[at[j]]
        /\ \A k \in 1 .. n : s[k] # "ERROR_TOKEN" <=> \E j \in 1 .. m : at[j] = k
  BY DEF Reads
<1>3. /\ v \in Seq(TextToken) /\ Len(v) = n - i
      /\ \A k \in 1 .. n - i : v[k] = s[i + k]
  BY <1>1, RestProperties
<1> HIDE DEF n, m, v, u
<1>4. \A j \in 1 .. m : at[j] \in 1 .. n /\ s[at[j]] # "ERROR_TOKEN" /\ at[j] >= i
  <2> SUFFICES ASSUME NEW j \in 1 .. m
               PROVE  at[j] \in 1 .. n /\ s[at[j]] # "ERROR_TOKEN" /\ at[j] >= i
    OBVIOUS
  <2>1. at[j] \in 1 .. n
    BY <1>2
  <2>2. s[at[j]] # "ERROR_TOKEN"
    BY <1>2, <2>1
  <2>3. at[j] >= i
    <3>1. at[j] \in 1 .. i - 1 \/ at[j] >= i
      BY <1>1, <2>1
    <3> QED  BY <2>2, <3>1
  <2> QED  BY <2>1, <2>2, <2>3
<1>5. 1 \in 1 .. m /\ at[1] = i
  <2>1. PICK j \in 1 .. m : at[j] = i
    BY <1>2 DEF n
  <2>2. 1 \in 1 .. m
    BY <1>1, <2>1
  <2>3. at[1] >= i
    BY <1>4, <2>2
  <2>4. j = 1 \/ 1 < j
    BY <1>1, <2>1
  <2>5. 1 < j => at[1] < i
    BY <1>2, <2>1, <2>2
  <2>6. at[1] \in Nat
    BY <1>1, <1>4, <2>2
  <2> QED  BY <1>1, <2>1, <2>2, <2>3, <2>4, <2>5, <2>6
<1>6. t # << >>
  BY <1>1, <1>5, EmptySeq DEF m
<1>7. Head(t) = s[i]
  <2>1. Head(t) = t[1]
    BY <1>6, HeadTailProperties
  <2>2. t[1] = s[at[1]]
    BY <1>2, <1>5
  <2> QED  BY <1>5, <2>1, <2>2
<1>8. /\ Len(u) = m - 1
      /\ \A j \in 1 .. m - 1 : u[j] = t[j + 1]
  <2>1. /\ Len(u) = m - 1 /\ \A j \in 1 .. Len(u) : u[j] = t[j + 1]
    BY <1>6, HeadTailProperties DEF u, m
  <2> QED  BY <2>1
<1> DEFINE to == [j \in 1 .. m - 1 |-> at[j + 1] - i]
<1>9. ASSUME NEW j \in 1 .. m - 1
      PROVE  /\ to[j] = at[j + 1] - i /\ j + 1 \in 1 .. m
             /\ to[j] \in 1 .. n - i
             /\ at[j + 1] = i + to[j]
  <2>1. j + 1 \in 1 .. m /\ 1 < j + 1
    BY <1>1
  <2>2. at[j + 1] \in 1 .. n /\ i < at[j + 1]
    BY <1>2, <1>4, <1>5, <2>1
  <2>3. to[j] = at[j + 1] - i
    OBVIOUS
  <2> DEFINE x == at[j + 1]
  <2> HIDE DEF x, to
  <2>4. to[j] = x - i /\ x \in 1 .. n /\ i < x
    BY <2>2, <2>3 DEF x
  <2>5. to[j] \in 1 .. n - i /\ x = i + to[j]
    BY <1>1, <2>4
  <2> QED  BY <2>1, <2>3, <2>5 DEF x
<1>10. to \in [1 .. m - 1 -> 1 .. n - i]
  <2>1. \A j \in 1 .. m - 1 : to[j] \in 1 .. n - i
    BY <1>9
  <2> QED  BY <2>1
<1> HIDE DEF to
<1>11. ASSUME NEW k \in 1 .. m - 1, NEW j \in 1 .. m - 1, k < j
       PROVE  to[k] < to[j]
  <2>1. k + 1 \in 1 .. m /\ j + 1 \in 1 .. m /\ k + 1 < j + 1
    BY <1>1, <1>11
  <2>2. at[k + 1] < at[j + 1]
    BY <1>2, <2>1
  <2>3. /\ to[k] \in 1 .. n - i /\ at[k + 1] = i + to[k]
        /\ to[j] \in 1 .. n - i /\ at[j + 1] = i + to[j]
    BY <1>9
  <2> DEFINE x == to[k]
             y == to[j]
  <2>4. i + x < i + y
    BY <2>2, <2>3
  <2>5. x \in 1 .. n - i /\ y \in 1 .. n - i
    BY <2>3
  <2> HIDE DEF x, y
  <2>6. x < y
    BY <1>1, <2>4, <2>5
  <2> QED  BY <2>6 DEF x, y
<1>12. ASSUME NEW j \in 1 .. m - 1
       PROVE  u[j] = v[to[j]]
  <2>1. /\ to[j] \in 1 .. n - i /\ at[j + 1] = i + to[j] /\ j + 1 \in 1 .. m
    BY <1>9
  <2>2. u[j] = t[j + 1] /\ t[j + 1] = s[at[j + 1]] /\ v[to[j]] = s[i + to[j]]
    BY <1>2, <1>3, <1>8, <2>1
  <2> QED  BY <2>1, <2>2
<1>13. ASSUME NEW k \in 1 .. n - i
       PROVE  v[k] # "ERROR_TOKEN" <=> \E j \in 1 .. m - 1 : to[j] = k
  <2>1. v[k] = s[i + k] /\ i + k \in 1 .. n /\ i + k # i
    BY <1>1, <1>3
  <2>2. ASSUME NEW j \in 1 .. m - 1, to[j] = k
        PROVE  v[k] # "ERROR_TOKEN"
    <3>1. at[j + 1] = i + k /\ j + 1 \in 1 .. m
      BY <1>9, <2>2
    <3> QED  BY <1>4, <2>1, <3>1
  <2>3. ASSUME v[k] # "ERROR_TOKEN"
        PROVE  \E j \in 1 .. m - 1 : to[j] = k
    <3>1. PICK h \in 1 .. m : at[h] = i + k
      BY <1>2, <2>1, <2>3
    <3>2. h # 1
      BY <1>5, <2>1, <3>1
    <3>3. h - 1 \in 1 .. m - 1 /\ (h - 1) + 1 = h
      BY <1>1, <3>2
    <3>4. to[h - 1] \in 1 .. n - i /\ i + k = i + to[h - 1]
      BY <1>9, <3>1, <3>3
    <3>5. to[h - 1] = k
      BY <1>1, <3>4
    <3> QED  BY <3>3, <3>5
  <2> QED  BY <2>2, <2>3
<1>14. Reads(v, Len(v), u)
  <2> DEFINE l == Len(u)
             k == Len(v)
  <2>1. l = m - 1 /\ k = n - i
    BY <1>3, <1>8
  <2> HIDE DEF l, k
  <2>2. /\ to \in [1 .. l -> 1 .. k]
        /\ \A x, j \in 1 .. l : x < j => to[x] < to[j]
        /\ \A j \in 1 .. l : u[j] = v[to[j]]
        /\ \A x \in 1 .. k : v[x] # "ERROR_TOKEN" <=> \E j \in 1 .. l : to[j] = x
    BY <1>10, <1>11, <1>12, <1>13, <2>1
  <2> QED  BY <2>2 DEF Reads, l, k
<1> QED  BY <1>6, <1>7, <1>14 DEF u, v

LEMMA ReadsErrorsOnly ==
  ASSUME NEW s \in Seq(TextToken), NEW t \in Seq(TextToken), Reads(s, Len(s), t),
         \A i \in DOMAIN s : s[i] = "ERROR_TOKEN"
  PROVE  t = << >>
<1>1. Len(s) \in Nat /\ Len(t) \in Nat /\ DOMAIN s = 1 .. Len(s)
  BY LenProperties
<1>2. PICK at \in [1 .. Len(t) -> 1 .. Len(s)] :
        \A i \in 1 .. Len(s) :
          s[i] # "ERROR_TOKEN" <=> \E j \in 1 .. Len(t) : at[j] = i
  BY DEF Reads
<1>3. 1 \notin 1 .. Len(t)
  <2> SUFFICES ASSUME 1 \in 1 .. Len(t) PROVE FALSE
    OBVIOUS
  <2>1. at[1] \in 1 .. Len(s)
    BY <1>2
  <2> QED  BY <1>1, <1>2, <2>1
<1>4. Len(t) = 0
  BY <1>1, <1>3
<1> QED  BY <1>4, EmptySeq

(* advance() passes one token of those that are left. *)
LEMMA TokenRemains ==
  ASSUME InputTypeOK, NEW tok, GetTok(tok), Readable # << >>,
         NEW t \in Seq(TextToken), Reads(Head(Readable), Len(Head(Readable)), t)
  PROVE  Remains(streams', tok, t)
<1> DEFINE s == Head(Readable)
<1>1. Readable \in Seq(Seq(TextToken))
  BY HeadTailProperties DEF InputTypeOK, Readable
<1>2. s \in Seq(TextToken) /\ Tail(Readable) \in Seq(Seq(TextToken)) /\ DOMAIN s = 1 .. Len(s)
  <2>1. s \in Seq(TextToken) /\ Tail(Readable) \in Seq(Seq(TextToken))
    BY <1>1, HeadTailProperties
  <2> HIDE DEF s
  <2> QED  BY <2>1, LenProperties
<1> HIDE DEF s
<1>3. CASE (\A i \in DOMAIN s : s[i] = "ERROR_TOKEN") /\ tok = "END_OF_FILE"
  <2>1. t = << >>
    BY <1>2, <1>3, ReadsErrorsOnly DEF s
  <2> QED  BY <1>3, <2>1 DEF Remains
<1>4. ASSUME NEW i \in DOMAIN s, s[i] # "ERROR_TOKEN",
             \A j \in 1 .. i - 1 : s[j] = "ERROR_TOKEN",
             tok = s[i],
             streams' = <<SubSeq(s, i + 1, Len(s))>> \o Tail(Readable)
      PROVE  Remains(streams', tok, t)
  <2>1. i \in 1 .. Len(s)
    BY <1>2
  <2>2. /\ t # << >> /\ Head(t) = s[i]
        /\ Reads(Rest(s, i), Len(Rest(s, i)), Tail(t))
    BY <1>2, <1>4, <2>1, ReadsBehind DEF s
  <2> DEFINE u == Rest(s, i)
  <2>3. streams' = <<u>> \o Tail(Readable)
    BY <1>4 DEF Rest
  <2>4. Head(streams') = u
    <3> HIDE DEF u
    <3> QED  BY <1>2, <2>3
  <2>5. tok \notin EndToken
    <3>1. tok \in TextToken
      BY <1>2, <1>4, <2>1, ElementOfSeq
    <3> QED  BY <3>1 DEF TextToken, ConstantToken, LiteralToken, UnaryToken,
                BinaryToken, ArithmeticToken, ComparisonToken, EndToken
  <2> QED  BY <1>4, <2>2, <2>4, <2>5 DEF Remains
<1> QED  BY <1>3, <1>4 DEF GetTok, s

-----------------------------------------------------------------------------
(* The text of s is one that the rules of Grammar give. *)
Derivable(s) ==
  \E text \in Seq(TextToken), words \in Seq(Nat), K \in Seq(ValueType) :
    Reads(s, Len(s), text) /\ Derived(PREC_ASSIGNMENT, text, words, K)

(* A line that is to be accepted: its text is in the language, and no      *)
(* earlier line left a stream open below it.                               *)
ToAccept == Len(source) = 1 /\ Derivable(source[1])

Accepting ==
  \E rest \in Seq(TextToken) : Remains(streams, crnt, rest) /\ Passes(frames, rest)

AcceptInv ==
  /\ phase = "compiling" /\ ToAccept
       => ~hadError /\ IF NoEnd(frames) THEN Accepting ELSE crnt = "END_OF_INPUT"
  /\ phase = "compiled" /\ ToAccept => ~hadError

-----------------------------------------------------------------------------
(* What is known while a function runs that is not at its end. *)
LEMMA BeforeAccepts ==
  ASSUME IndInv, DrainInv, AcceptInv, ToAccept, NEW fn, Running(fn), fn # "compile_end"
  PROVE  /\ ~hadError /\ InFirstStream /\ crnt \in Token /\ phase = "compiling"
         /\ frames[Len(frames)] = TopFrame /\ TopFrame.fn = fn
         /\ \E rest \in Seq(TextToken) :
              /\ Remains(streams, crnt, rest) /\ First(rest) = crnt
              /\ \/ Done(frames, rest)
                 \/ \E gs, q : Moves(frames, rest, gs, q) /\ Passes(gs, q)
<1>1. /\ BeforeEnd /\ crnt \in Token
      /\ frames[Len(frames)] = TopFrame /\ TopFrame.fn = fn
  BY BeforeEndRunning, RunningFacts
<1>2. ~hadError /\ InFirstStream /\ phase = "compiling" /\ Accepting
  BY <1>1 DEF BeforeEnd, AcceptInv
<1>3. PICK rest \in Seq(TextToken) : Remains(streams, crnt, rest) /\ Passes(frames, rest)
  BY <1>2 DEF Accepting
<1>4. /\ First(rest) = crnt
      /\ Done(frames, rest) \/ \E gs, q : Moves(frames, rest, gs, q) /\ Passes(gs, q)
  BY <1>3, RemainsFirst, PassesAfter
<1> QED  BY <1>1, <1>2, <1>3, <1>4

LEMMA AcceptsSuffices ==
  ASSUME DrainInv', phase' = "compiling", ~hadError',
         NEW rest \in Seq(TextToken), Remains(streams', crnt', rest), Passes(frames', rest)
  PROVE  AcceptInv'
<1>1. frames' # <<[fn |-> "compile_end"]>>
  <2> DEFINE fs == <<[fn |-> "compile_end"]>>
  <2>1. fs[Len(fs)].fn = "compile_end" /\ fs # <<[fn |-> "compile"]>>
    OBVIOUS
  <2> HIDE DEF fs
  <2>2. ~Passes(fs, rest)
    <3>1. ~Done(fs, rest)
      BY <2>1 DEF Done
    <3>2. \A gs, q : ~Moves(fs, rest, gs, q)
      BY <2>1 DEF Moves
    <3> QED  BY <3>1, <3>2, PassesAfter
  <2> QED  BY <2>2 DEF fs
<1>2. NoEnd(frames')
  BY <1>1 DEF DrainInv
<1>3. Accepting'
  BY DEF Accepting
<1> QED  BY <1>2, <1>3 DEF AcceptInv

(* A token of the text is passed. *)
LEMMA AcceptsOn ==
  ASSUME IndInv, DrainInv', InFirstStream, phase = "compiling", crnt \in Token \ EndToken,
         Advance, SameInput, ~hadError',
         NEW rest \in Seq(TextToken), Remains(streams, crnt, rest),
         Passes(frames', Tail(rest))
  PROVE  AcceptInv'
<1>1. streams # << >> /\ ~file_flag
  BY DEF InFirstStream, EndToken
<1>2. Readable = streams /\ InputTypeOK /\ GetTok(crnt')
  BY <1>1 DEF Readable, IndInv, TypeOK, Advance
<1> DEFINE t == Tail(rest)
<1>3. t \in Seq(TextToken) /\ Reads(Head(streams), Len(Head(streams)), t)
  BY HeadTailProperties DEF Remains, EndToken
<1> HIDE DEF t
<1>4. Remains(streams', crnt', t)
  BY <1>1, <1>2, <1>3, TokenRemains
<1> QED  BY <1>3, <1>4, AcceptsSuffices DEF SameInput, t

LEMMA InitAcceptInv == Init => AcceptInv
BY DEF Init, AcceptInv

LEMMA NextAcceptInv ==
  ASSUME IndInv, IndInv', DrainInv, DrainInv', AcceptInv, [Next]_compilerVars
  PROVE  AcceptInv'
<1> SUFFICES ASSUME ToAccept' PROVE AcceptInv'
  BY DEF AcceptInv
<1>1. CASE Open \/ Interpreted
  <2>1. phase' \in {"opened", "exited", "ready"}
    BY <1>1 DEF Open, Interpreted
  <2> QED  BY <2>1 DEF AcceptInv
<1>2. CASE Compile
  <2>1. /\ frames' = <<[fn |-> "compile"], Expression>> /\ phase' = "compiling"
        /\ ~hadError' /\ source' = Readable /\ GetTok(crnt') /\ InputTypeOK
    BY <1>2 DEF Compile, Advance, IndInv, TypeOK
  <2>2. Readable \in Seq(Seq(TextToken))
    BY <2>1, HeadTailProperties DEF InputTypeOK, Readable
  <2>3. Len(Readable) = 1 /\ Derivable(Readable[1])
    BY <2>1 DEF ToAccept
  <2>4. Readable # << >> /\ Head(Readable) = Readable[1]
    BY <2>2, <2>3, EmptySeq, HeadTailProperties
  <2>5. PICK text \in Seq(TextToken), words \in Seq(Nat), K \in Seq(ValueType) :
          /\ Reads(Head(Readable), Len(Head(Readable)), text)
          /\ Derived(PREC_ASSIGNMENT, text, words, K)
    BY <2>3, <2>4 DEF Derivable
  <2>6. Len(K) \in Nat
    BY LenProperties
  <2>7. Passes(frames', text)
    BY <2>1, <2>5, <2>6, WholePasses
  <2>8. Remains(streams', crnt', text)
    BY <2>1, <2>4, <2>5, TokenRemains
  <2> QED  BY <2>1, <2>7, <2>8, AcceptsSuffices
<1>3. ASSUME NEW fn, Running(fn), fn # "compile_end", SameInput
      PROVE  /\ ToAccept
             /\ ~hadError /\ InFirstStream /\ crnt \in Token /\ phase = "compiling"
             /\ frames[Len(frames)] = TopFrame /\ TopFrame.fn = fn
             /\ \E rest \in Seq(TextToken) :
                  /\ Remains(streams, crnt, rest) /\ First(rest) = crnt
                  /\ \/ Done(frames, rest)
                     \/ \E gs, q : Moves(frames, rest, gs, q) /\ Passes(gs, q)
  <2>1. ToAccept
    BY <1>3 DEF SameInput, ToAccept
  <2> QED  BY <1>3, <2>1, BeforeAccepts
<1>4. CASE \/ PrefixMissing \/ PrefixConstant \/ PrefixLiteral
           \/ PrefixGrouping \/ PrefixUnary
  <2>1. Running("get_precedence") /\ SameInput /\ Advance
    BY <1>4 DEF PrefixMissing, PrefixConstant, PrefixLiteral, PrefixGrouping, PrefixUnary
  <2>2. /\ ~hadError /\ InFirstStream /\ crnt \in Token /\ phase = "compiling"
        /\ frames[Len(frames)] = TopFrame /\ TopFrame.fn = "get_precedence"
    BY <1>3, <2>1
  <2>3. PICK rest \in Seq(TextToken) :
          /\ Remains(streams, crnt, rest) /\ First(rest) = crnt
          /\ \/ Done(frames, rest)
             \/ \E gs, q : Moves(frames, rest, gs, q) /\ Passes(gs, q)
    BY <1>3, <2>1
  <2>4. ~Done(frames, rest)
    <3>1. <<[fn |-> "compile"]>>[Len(<<[fn |-> "compile"]>>)].fn = "compile"
      OBVIOUS
    <3> QED  BY <2>2, <3>1 DEF Done
  <2>5. PICK gs, q : Moves(frames, rest, gs, q) /\ Passes(gs, q)
    BY <2>3, <2>4
  <2>6. /\ q = Tail(rest)
        /\ \/ /\ PrefixRule(crnt) \in {"constant", "literal"}
              /\ gs = Append(Callers, Loop(TopFrame.prec))
           \/ /\ PrefixRule(crnt) = "grouping"
              /\ gs = Callers \o <<Loop(TopFrame.prec), [fn |-> "grouping"], Expression>>
           \/ /\ PrefixRule(crnt) = "unary"
              /\ gs = Callers \o <<Loop(TopFrame.prec), [fn |-> "unary", type |-> crnt],
                                   GetPrecedence(PREC_UNARY)>>
    BY <2>2, <2>3, <2>5 DEF Moves, Callers
  <2>7. frames' = gs /\ ~hadError'
    <3> DEFINE rule == PrefixRule(crnt)
    <3>1. CASE PrefixMissing
      <4>1. rule = "NULL"
        BY <3>1 DEF PrefixMissing
      <4> QED  BY <2>6, <4>1
    <3>2. CASE PrefixConstant \/ PrefixLiteral
      <4>1. rule \in {"constant", "literal"} /\ UNCHANGED hadError
            /\ frames' = Append(Callers, Loop(TopFrame.prec))
        BY <3>2 DEF PrefixConstant, PrefixLiteral
      <4> QED  BY <2>2, <2>6, <4>1
    <3>3. CASE PrefixGrouping
      <4>1. /\ rule = "grouping" /\ UNCHANGED hadError
            /\ frames' = Callers \o <<Loop(TopFrame.prec), [fn |-> "grouping"], Expression>>
        BY <3>3 DEF PrefixGrouping
      <4>2. gs = Callers \o <<Loop(TopFrame.prec), [fn |-> "grouping"], Expression>>
        BY <2>6, <4>1
      <4> QED  BY <2>2, <4>1, <4>2
    <3>4. CASE PrefixUnary
      <4> DEFINE f == [fn |-> "unary", type |-> crnt]
      <4>1. /\ rule = "unary" /\ UNCHANGED hadError
            /\ frames' = Callers \o <<Loop(TopFrame.prec), f, GetPrecedence(PREC_UNARY)>>
        BY <3>4 DEF PrefixUnary
      <4>2. gs = Callers \o <<Loop(TopFrame.prec), f, GetPrecedence(PREC_UNARY)>>
        BY <2>6, <4>1
      <4> QED  BY <2>2, <4>1, <4>2
    <3> QED  BY <1>4, <3>1, <3>2, <3>3, <3>4
  <2>8. crnt \in Token \ EndToken
    BY <2>2, <2>6, RuleFacts DEF EndToken
  <2> QED  BY <2>1, <2>2, <2>3, <2>5, <2>6, <2>7, <2>8, AcceptsOn
<1>5. CASE Infix \/ LoopEnd
  <2>1. Running("get_precedence_loop") /\ SameInput /\ UNCHANGED hadError
    BY <1>5 DEF Infix, LoopEnd
  <2>2. /\ ~hadError /\ InFirstStream /\ crnt \in Token /\ phase = "compiling"
        /\ frames[Len(frames)] = TopFrame /\ TopFrame.fn = "get_precedence_loop"
    BY <1>3, <2>1
  <2>3. PICK rest \in Seq(TextToken) :
          /\ Remains(streams, crnt, rest) /\ First(rest) = crnt
          /\ \/ Done(frames, rest)
             \/ \E gs, q : Moves(frames, rest, gs, q) /\ Passes(gs, q)
    BY <1>3, <2>1
  <2>4. ~Done(frames, rest)
    <3>1. <<[fn |-> "compile"]>>[Len(<<[fn |-> "compile"]>>)].fn = "compile"
      OBVIOUS
    <3> QED  BY <2>2, <3>1 DEF Done
  <2>5. PICK gs, q : Moves(frames, rest, gs, q) /\ Passes(gs, q)
    BY <2>3, <2>4
  <2>6. \/ /\ TopFrame.prec <= RulePrec(crnt)
           /\ crnt \in BinaryToken
           /\ q = Tail(rest)
           /\ gs = frames \o <<[fn |-> "binary", type |-> crnt],
                               GetPrecedence(RulePrec(crnt) + 1)>>
        \/ /\ TopFrame.prec > RulePrec(crnt)
           /\ q = rest /\ gs = Callers
    BY <2>2, <2>3, <2>5 DEF Moves, Callers
  <2>7. ~(TopFrame.prec <= RulePrec(crnt) /\ TopFrame.prec > RulePrec(crnt))
    <3>1. TopFrame.prec \in Precedence
      BY <2>1, <2>2, RunningFacts, FrameFacts
    <3> DEFINE x == TopFrame.prec
               y == RulePrec(crnt)
    <3>2. x \in 0 .. 10 /\ y \in 0 .. 7
      BY <3>1, PrecRange DEF Precedence
    <3> HIDE DEF x, y
    <3>3. ~(x <= y /\ x > y)
      BY <3>2
    <3> QED  BY <3>3 DEF x, y
  <2>8. CASE Infix
    <3>1. /\ TopFrame.prec <= RulePrec(crnt) /\ InfixRule(crnt) = "binary" /\ Advance
          /\ frames' = frames \o <<[fn |-> "binary", type |-> crnt],
                                   GetPrecedence(RulePrec(crnt) + 1)>>
      BY <2>8 DEF Infix
    <3>2. q = Tail(rest) /\ frames' = gs
      BY <2>6, <2>7, <3>1
    <3>3. crnt \in Token \ EndToken
      BY <2>2, <3>1, RuleFacts DEF EndToken
    <3> QED  BY <2>1, <2>2, <2>3, <2>5, <3>1, <3>2, <3>3, AcceptsOn
  <2>9. CASE LoopEnd
    <3>1. /\ TopFrame.prec > RulePrec(crnt) /\ frames' = Callers
          /\ UNCHANGED <<crnt, streams, phase>>
      BY <2>9 DEF LoopEnd, Return, inputVars, SameInput
    <3>2. q = rest /\ frames' = gs
      BY <2>6, <2>7, <3>1
    <3> QED  BY <2>1, <2>2, <2>3, <2>5, <3>1, <3>2, AcceptsSuffices
  <2> QED  BY <1>5, <2>8, <2>9
<1>6. CASE GroupingEnd
  <2>1. /\ Running("grouping") /\ SameInput /\ frames' = Callers
        /\ Consume("CPAR_TOKEN")
    BY <1>6 DEF GroupingEnd, Return
  <2>2. /\ ~hadError /\ InFirstStream /\ crnt \in Token /\ phase = "compiling"
        /\ frames[Len(frames)] = TopFrame /\ TopFrame.fn = "grouping"
    BY <1>3, <2>1
  <2>3. PICK rest \in Seq(TextToken) :
          /\ Remains(streams, crnt, rest) /\ First(rest) = crnt
          /\ \/ Done(frames, rest)
             \/ \E gs, q : Moves(frames, rest, gs, q) /\ Passes(gs, q)
    BY <1>3, <2>1
  <2>4. ~Done(frames, rest)
    <3>1. <<[fn |-> "compile"]>>[Len(<<[fn |-> "compile"]>>)].fn = "compile"
      OBVIOUS
    <3> QED  BY <2>2, <3>1 DEF Done
  <2>5. PICK gs, q : Moves(frames, rest, gs, q) /\ Passes(gs, q)
    BY <2>3, <2>4
  <2>6. crnt = "CPAR_TOKEN" /\ q = Tail(rest) /\ gs = frames'
    BY <2>1, <2>2, <2>3, <2>5 DEF Moves, Callers
  <2>7. Advance /\ ~hadError'
    BY <2>1, <2>2, <2>6 DEF Consume
  <2>8. crnt \in Token \ EndToken
    BY <2>2, <2>6 DEF EndToken
  <2> QED  BY <2>1, <2>2, <2>3, <2>5, <2>6, <2>7, <2>8, AcceptsOn
<1>7. CASE UnaryEnd \/ BinaryEnd
  <2>1. PICK fn \in {"unary", "binary"} :
          /\ Running(fn) /\ SameInput /\ frames' = Callers
          /\ UNCHANGED <<crnt, streams, phase, hadError>>
    BY <1>7 DEF UnaryEnd, BinaryEnd, Return, inputVars, SameInput
  <2>2. /\ ~hadError /\ phase = "compiling"
        /\ frames[Len(frames)] = TopFrame /\ TopFrame.fn = fn
    BY <1>3, <2>1
  <2>3. PICK rest \in Seq(TextToken) :
          /\ Remains(streams, crnt, rest)
          /\ \/ Done(frames, rest)
             \/ \E gs, q : Moves(frames, rest, gs, q) /\ Passes(gs, q)
    BY <1>3, <2>1
  <2>4. ~Done(frames, rest)
    <3>1. <<[fn |-> "compile"]>>[Len(<<[fn |-> "compile"]>>)].fn = "compile"
      OBVIOUS
    <3> QED  BY <2>1, <2>2, <3>1 DEF Done
  <2>5. PICK gs, q : Moves(frames, rest, gs, q) /\ Passes(gs, q)
    BY <2>3, <2>4
  <2>6. q = rest /\ gs = frames'
    BY <2>1, <2>2, <2>5 DEF Moves, Callers
  <2> QED  BY <2>1, <2>2, <2>3, <2>5, <2>6, AcceptsSuffices
<1>8. CASE ConsumeEndOfFile
  <2>1. /\ Running("compile") /\ SameInput /\ Consume("END_OF_FILE")
        /\ frames' = <<[fn |-> "compile_end"]>>
    BY <1>8 DEF ConsumeEndOfFile
  <2>2. /\ ToAccept
        /\ ~hadError /\ InFirstStream /\ crnt \in Token /\ phase = "compiling"
        /\ frames[Len(frames)] = TopFrame /\ TopFrame.fn = "compile"
    BY <1>3, <2>1
  <2>3. PICK rest \in Seq(TextToken) :
          /\ Remains(streams, crnt, rest) /\ First(rest) = crnt
          /\ \/ Done(frames, rest)
             \/ \E gs, q : Moves(frames, rest, gs, q) /\ Passes(gs, q)
    BY <1>3, <2>1
  <2>4. Done(frames, rest)
    <3>1. \A gs, q : ~Moves(frames, rest, gs, q)
      BY <2>2 DEF Moves
    <3> QED  BY <2>3, <3>1
  <2>5. crnt = "END_OF_FILE"
    BY <2>3, <2>4 DEF First, Done
  <2>6. Advance /\ ~hadError'
    BY <2>1, <2>2, <2>5 DEF Consume
  <2>7. crnt' = "END_OF_INPUT"
    <3>1. /\ streams \in Seq(Seq(TextToken)) /\ streams # << >> /\ file_flag
          /\ Len(streams) = 1
      BY <2>2, <2>5 DEF InFirstStream, ToAccept, IndInv, TypeOK, InputTypeOK
    <3>2. Tail(streams) \in Seq(Seq(TextToken)) /\ Len(Tail(streams)) = 0
      BY <3>1, HeadTailProperties
    <3>3. Readable = << >>
      BY <3>1, <3>2, EmptySeq DEF Readable
    <3> QED  BY <2>6, <3>3, GetTokEffect DEF Advance, IndInv, TypeOK
  <2>8. ~NoEnd(frames') /\ phase' = "compiling"
    BY <2>1, <2>2 DEF NoEnd, SameInput
  <2> QED  BY <2>6, <2>7, <2>8 DEF AcceptInv
<1>9. CASE CompileEnd
  <2>1. /\ Running("compile_end") /\ Consume("END_OF_INPUT")
        /\ phase' = "compiled" /\ UNCHANGED source
    BY <1>9 DEF CompileEnd
  <2>2. ToAccept
    BY <2>1 DEF ToAccept
  <2>3. phase = "compiling" /\ ~NoEnd(frames)
    <3>1. frames \in Seq(Frame) /\ frames # << >> /\ phase = "compiling"
          /\ frames[Len(frames)].fn = "compile_end"
      BY <2>1, RunningFacts
    <3>2. Len(frames) \in 1 .. Len(frames)
      BY <3>1, EmptySeq
    <3> QED  BY <3>1, <3>2 DEF NoEnd
  <2>4. ~hadError /\ crnt = "END_OF_INPUT"
    BY <2>2, <2>3 DEF AcceptInv
  <2>5. ~hadError'
    BY <2>1, <2>4 DEF Consume
  <2> QED  BY <2>1, <2>5 DEF AcceptInv
<1>10. CASE UNCHANGED compilerVars
  <2>1. UNCHANGED <<phase, frames, hadError, crnt, source, streams>>
    BY <1>10 DEF compilerVars, parserVars, inputVars, history
  <2>2. (NoEnd(frames) <=> NoEnd(frames')) /\ (Accepting <=> Accepting')
        /\ (ToAccept <=> ToAccept')
    BY <2>1 DEF Accepting, ToAccept
  <2> QED  BY <2>1, <2>2 DEF AcceptInv
<1> QED
  BY <1>1, <1>2, <1>4, <1>5, <1>6, <1>7, <1>8, <1>9, <1>10 DEF Next, ParseStep

-----------------------------------------------------------------------------
(* A text of the language is never rejected: compile() returns without an  *)
(* error for every sentence of Grammar, if no earlier line left a stream   *)
(* open below it, whatever its length, its nesting and the code before.    *)
(* An operator that the loop of get_precedence() leaves to its caller is   *)
(* one that the caller takes.                                              *)
LanguageIsAccepted ==
  phase = "compiled" /\ ToAccept => ~hadError

THEOREM SentencesAccepted == Spec => []LanguageIsAccepted
<1>1. Init => DrainInv /\ AcceptInv
  BY InitDrainInv, InitAcceptInv
<1>2. IndInv /\ IndInv' /\ DrainInv /\ AcceptInv /\ [Next]_compilerVars
        => DrainInv' /\ AcceptInv'
  BY NextDrainInv, NextAcceptInv
<1>3. AcceptInv => LanguageIsAccepted
  BY DEF AcceptInv, LanguageIsAccepted
<1> QED  BY <1>1, <1>2, <1>3, Invariance, PTL DEF Spec

(* The two directions together: the lines that compile() accepts are the   *)
(* lines whose text is a sentence of Grammar, and no others.  The constant *)
(* list is taken to be within what a code word can tell apart, as it is in *)
(* AcceptedIsTranslated.                                                   *)
AcceptsTheLanguage ==
  phase = "compiled" /\ Len(constants) <= WordSize
    => (~hadError <=> Len(source) = 1 /\ Derivable(source[1]))

THEOREM CompilerAcceptsLanguage == Spec => []AcceptsTheLanguage
<1>1. IndInv /\ AcceptedDrainsInput /\ AcceptedIsTranslated /\ LanguageIsAccepted
        => AcceptsTheLanguage
  <2> SUFFICES ASSUME IndInv, AcceptedDrainsInput, AcceptedIsTranslated, LanguageIsAccepted,
                      phase = "compiled", Len(constants) <= WordSize
               PROVE  ~hadError <=> Len(source) = 1 /\ Derivable(source[1])
    BY DEF AcceptsTheLanguage
  <2>1. ASSUME ~hadError
        PROVE  Len(source) = 1 /\ Derivable(source[1])
    <3>1. Len(source) = 1
      BY <2>1 DEF AcceptedDrainsInput
    <3>2. constants \in Seq(ValueType)
      BY DEF IndInv, TypeOK, BlockTypeOK
    <3> QED  BY <2>1, <3>1, <3>2 DEF AcceptedIsTranslated, Derivable
  <2>2. ASSUME Len(source) = 1, Derivable(source[1])
        PROVE  ~hadError
    BY <2>2 DEF LanguageIsAccepted, ToAccept
  <2> QED  BY <2>1, <2>2
<1> QED  BY <1>1, Invariance, InputDrained, CompiledIsTranslation, SentencesAccepted, PTL
=============================================================================
