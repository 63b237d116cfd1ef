--------------------------- MODULE CompilerProofs ---------------------------
(***************************************************************************)
(* Proofs about Compiler, for every set of lines, every word size and      *)
(* every nesting limit.                                                    *)
(*                                                                         *)
(* The first argument is about the call stack.  A frame of binary() waits  *)
(* for its right operand, so its left operand is on the value stack; and a *)
(* frame on top that is not an entry of get_precedence() has just been     *)
(* returned to, so one more value is there.                                *)
(*                                                                         *)
(* The last two are about the recursion itself: a measure that every step  *)
(* of a parse function makes smaller, and the precedence that each frame   *)
(* was called with, which keeps the loop of get_precedence() away from the *)
(* empty entries of rules[].                                               *)
(***************************************************************************)
EXTENDS Compiler, FiniteSetTheorems, SequenceTheorems, TLAPS

(* The frames of abinary() and cbinary() in a call stack. *)
BinaryFrames(fs) == {i \in 1 .. Len(fs) : fs[i].fn = "binary"}

Operands(fs) == Cardinality(BinaryFrames(fs))

(* compile() is at the bottom of the stack and only there, and a function  *)
(* entry is only at the top.                                               *)
CallStackOK(fs) ==
  /\ \A i \in 1 .. Len(fs) : fs[i].fn \in {"compile", "compile_end"} <=> i = 1
  /\ \A i \in 1 .. Len(fs) : fs[i].fn = "get_precedence" => i = Len(fs)

(* Values on the value stack that a call stack accounts for. *)
Expected(fs) ==
  Operands(fs) + IF fs[Len(fs)].fn = "get_precedence" THEN 0 ELSE 1

-----------------------------------------------------------------------------
LEMMA TokenFacts ==
  /\ Token \subseteq TextToken \cup {"END_OF_FILE", "END_OF_INPUT"}
  /\ \A tok \in TextToken : tok # "ERROR_TOKEN" => tok \in Token
  /\ Null \notin Token
BY DEF Token, TextToken, Null, ConstantToken, LiteralToken, UnaryToken,
       BinaryToken, ArithmeticToken, ComparisonToken

LEMMA RuleFacts ==
  ASSUME NEW tok \in Token
  PROVE  /\ RulePrec(tok) \in 0 .. 7
         /\ PrefixRule(tok) = "unary" => tok \in UnaryToken
         /\ PrefixRule(tok) # "NULL" => tok \notin {"END_OF_FILE", "END_OF_INPUT"}
         /\ InfixRule(tok) = "binary"
              => tok \in BinaryToken /\ tok \notin {"END_OF_FILE", "END_OF_INPUT"}
BY DEF RulePrec, PrefixRule, InfixRule, PREC_NONE, PREC_FACTOR, PREC_TERM,
       PREC_COMPARISON, PREC_EQUALITY, ConstantToken, LiteralToken, UnaryToken,
       BinaryToken, ArithmeticToken, ComparisonToken

LEMMA OpcodeFacts ==
  /\ \A tok : LiteralOpcode(tok) \in LiteralOp
  /\ \A tok : UnaryOpcode(tok) \in UnaryOp
  /\ \A tok : BinaryOpcode(tok) \in BinaryOp
  /\ \A tok : ConstantType(tok) \in ValueType
  /\ LiteralOp \cup UnaryOp \cup BinaryOp \cup {OP_RETURN, OP_CONSTANT}
       \subseteq 0 .. 17
  /\ LiteralOp \cap (UnaryOp \cup BinaryOp) = {}
  /\ OP_RETURN \notin UnaryOp \cup BinaryOp
  /\ UnaryOp \cap BinaryOp = {}
BY DEF LiteralOpcode, UnaryOpcode, BinaryOpcode, ConstantType, ValueType,
       LiteralOp, UnaryOp, BinaryOp, ArithmeticOp, ComparisonOp,
       OP_CONSTANT, OP_ADD, OP_SUB, OP_MUL, OP_DIV, OP_MOD, OP_NEG,
       OP_NOTHING, OP_TRUE, OP_FALSE, OP_NOT, OP_EQUALITY, OP_NEQ, OP_LT,
       OP_GT, OP_LTE, OP_GTE, OP_RETURN

-----------------------------------------------------------------------------
LEMMA PrefixProperties ==
  ASSUME NEW S, NEW s, NEW n \in Nat, \A i \in 1 .. n : s[i] \in S
  PROVE  /\ SubSeq(s, 1, n) \in Seq(S)
         /\ Len(SubSeq(s, 1, n)) = n
         /\ \A i \in 1 .. n : SubSeq(s, 1, n)[i] = s[i]
OBVIOUS

(* The index of a constant is not cut as long as there is room for it.     *)
LEMMA SmallModulo ==
  ASSUME NEW n \in Nat, NEW size \in Nat, n + 1 <= size
  PROVE  n % size = n
OBVIOUS

(* The operands on the value stack when one more function is called. *)
LEMMA OperandsAppend ==
  ASSUME NEW fs \in Seq(Frame), NEW f \in Frame
  PROVE  /\ Operands(fs) \in Nat
         /\ Operands(Append(fs, f)) =
              Operands(fs) + IF f.fn = "binary" THEN 1 ELSE 0
<1> DEFINE gs == Append(fs, f)
<1>1. /\ gs \in Seq(Frame)
      /\ Len(gs) = Len(fs) + 1
      /\ gs[Len(fs) + 1] = f
      /\ \A i \in 1 .. Len(fs) : gs[i] = fs[i]
      /\ Len(fs) \in Nat
  BY AppendProperties
<1> HIDE DEF gs
<1>2. IsFiniteSet(BinaryFrames(fs))
  <2>1. IsFiniteSet(1 .. Len(fs))
    BY <1>1, FS_Interval
  <2> QED  BY <2>1, FS_Subset DEF BinaryFrames
<1>3. Operands(fs) \in Nat
  BY <1>2, FS_CardinalityType DEF Operands
<1>4. CASE f.fn = "binary"
  <2>1. BinaryFrames(gs) = BinaryFrames(fs) \cup {Len(fs) + 1}
    BY <1>1, <1>4 DEF BinaryFrames
  <2>2. Len(fs) + 1 \notin BinaryFrames(fs)
    BY <1>1 DEF BinaryFrames
  <2>3. Cardinality(BinaryFrames(gs)) = Cardinality(BinaryFrames(fs)) + 1
    BY <1>2, <2>1, <2>2, FS_AddElement
  <2> QED  BY <1>3, <1>4, <2>3 DEF Operands, gs
<1>5. CASE f.fn # "binary"
  <2>1. BinaryFrames(gs) = BinaryFrames(fs)
    BY <1>1, <1>5 DEF BinaryFrames
  <2> QED  BY <1>3, <1>5, <2>1 DEF Operands, gs
<1> QED  BY <1>4, <1>5

(* ... and when the function on top returns. *)
LEMMA OperandsReturn ==
  ASSUME NEW fs \in Seq(Frame), fs # << >>
  PROVE  LET cs == SubSeq(fs, 1, Len(fs) - 1)
             f  == fs[Len(fs)]
         IN  /\ cs \in Seq(Frame)
             /\ f \in Frame
             /\ Len(cs) = Len(fs) - 1
             /\ Len(fs) \in Nat \ {0}
             /\ \A i \in 1 .. Len(fs) - 1 : cs[i] = fs[i]
             /\ Operands(cs) \in Nat
             /\ Operands(fs) = Operands(cs) + IF f.fn = "binary" THEN 1 ELSE 0
<1> DEFINE cs == SubSeq(fs, 1, Len(fs) - 1)
           f  == fs[Len(fs)]
<1>1. Len(fs) \in Nat \ {0}
  BY EmptySeq, LenProperties
<1>2. f \in Frame
  BY <1>1, ElementOfSeq
<1>3. /\ cs \in Seq(Frame)
      /\ Len(cs) = Len(fs) - 1
      /\ \A i \in 1 .. Len(fs) - 1 : cs[i] = fs[i]
  <2> DEFINE n == Len(fs) - 1
  <2>1. n \in Nat /\ \A i \in 1 .. n : fs[i] \in Frame
    BY <1>1, ElementOfSeq
  <2> HIDE DEF n
  <2>2. /\ SubSeq(fs, 1, n) \in Seq(Frame)
        /\ Len(SubSeq(fs, 1, n)) = n
        /\ \A i \in 1 .. n : SubSeq(fs, 1, n)[i] = fs[i]
    BY <2>1, PrefixProperties
  <2> QED  BY <2>2, Zenon DEF n
<1>4. fs = Append(cs, f)
  BY <1>1, <1>2, <1>3, AppendProperties, SeqEqual
<1> HIDE DEF cs, f
<1>5. /\ Operands(cs) \in Nat
      /\ Operands(fs) = Operands(cs) + IF f.fn = "binary" THEN 1 ELSE 0
  BY <1>2, <1>3, <1>4, OperandsAppend
<1> QED  BY <1>1, <1>2, <1>3, <1>5 DEF cs, f

-----------------------------------------------------------------------------
(* A call pushes a frame on a caller that waits. *)
LEMMA CallStackCall ==
  ASSUME NEW fs \in Seq(Frame), fs # << >>, CallStackOK(fs),
         fs[Len(fs)].fn # "get_precedence",
         NEW f \in Frame, f.fn \notin {"compile", "compile_end"}
  PROVE  /\ Append(fs, f) \in Seq(Frame)
         /\ Append(fs, f) # << >>
         /\ CallStackOK(Append(fs, f))
         /\ Append(fs, f)[Len(Append(fs, f))] = f
         /\ Operands(fs) \in Nat
         /\ Operands(Append(fs, f)) =
              Operands(fs) + IF f.fn = "binary" THEN 1 ELSE 0
<1> DEFINE gs == Append(fs, f)
<1>1. /\ gs \in Seq(Frame)
      /\ gs # << >>
      /\ Len(gs) = Len(fs) + 1
      /\ gs[Len(fs) + 1] = f
      /\ \A i \in 1 .. Len(fs) : gs[i] = fs[i]
      /\ Len(fs) \in Nat \ {0}
  BY AppendProperties, EmptySeq
<1> HIDE DEF gs
<1>2. CallStackOK(gs)
  <2>1. ASSUME NEW i \in 1 .. Len(gs)
        PROVE  gs[i].fn \in {"compile", "compile_end"} <=> i = 1
    BY <1>1 DEF CallStackOK
  <2>2. ASSUME NEW i \in 1 .. Len(gs), gs[i].fn = "get_precedence"
        PROVE  i = Len(gs)
    BY <1>1, <2>2 DEF CallStackOK
  <2> QED  BY <2>1, <2>2 DEF CallStackOK
<1> QED  BY <1>1, <1>2, OperandsAppend DEF gs

(* A return uncovers a caller that waits. *)
LEMMA CallStackReturn ==
  ASSUME NEW fs \in Seq(Frame), fs # << >>, CallStackOK(fs),
         fs[Len(fs)].fn \notin {"compile", "compile_end"}
  PROVE  LET cs == SubSeq(fs, 1, Len(fs) - 1)
         IN  /\ cs \in Seq(Frame)
             /\ cs # << >>
             /\ CallStackOK(cs)
             /\ cs[Len(cs)].fn # "get_precedence"
             /\ Operands(cs) \in Nat
             /\ Operands(fs) = Operands(cs)
                  + IF fs[Len(fs)].fn = "binary" THEN 1 ELSE 0
<1> DEFINE cs == SubSeq(fs, 1, Len(fs) - 1)
<1>1. /\ cs \in Seq(Frame)
      /\ Len(cs) = Len(fs) - 1
      /\ Len(fs) \in Nat \ {0}
      /\ \A i \in 1 .. Len(fs) - 1 : cs[i] = fs[i]
      /\ Operands(cs) \in Nat
      /\ Operands(fs) = Operands(cs)
           + IF fs[Len(fs)].fn = "binary" THEN 1 ELSE 0
  BY OperandsReturn
<1> HIDE DEF cs
<1>2. Len(fs) > 1
  BY <1>1 DEF CallStackOK
<1>3. cs # << >>
  BY <1>1, <1>2, EmptySeq
<1>4. CallStackOK(cs)
  <2>1. ASSUME NEW i \in 1 .. Len(cs)
        PROVE  cs[i].fn \in {"compile", "compile_end"} <=> i = 1
    BY <1>1 DEF CallStackOK
  <2>2. ASSUME NEW i \in 1 .. Len(cs), cs[i].fn = "get_precedence"
        PROVE  i = Len(cs)
    BY <1>1, <2>2 DEF CallStackOK
  <2> QED  BY <2>1, <2>2 DEF CallStackOK
<1>5. cs[Len(cs)].fn # "get_precedence"
  BY <1>1, <1>2 DEF CallStackOK
<1> QED  BY <1>1, <1>3, <1>4, <1>5 DEF cs

LEMMA PushTwo ==
  ASSUME NEW fs \in Seq(Frame), NEW f \in Frame, NEW g \in Frame
  PROVE  fs \o <<f, g>> = Append(Append(fs, f), g)
OBVIOUS

LEMMA PushThree ==
  ASSUME NEW fs \in Seq(Frame), NEW f \in Frame, NEW g \in Frame, NEW h \in Frame
  PROVE  fs \o <<f, g, h>> = Append(Append(Append(fs, f), g), h)
OBVIOUS

LEMMA FrameFacts ==
  /\ \A p \in Precedence : GetPrecedence(p) \in Frame /\ Loop(p) \in Frame
  /\ \A p : GetPrecedence(p).fn = "get_precedence"
  /\ \A p : Loop(p).fn = "get_precedence_loop"
  /\ Expression \in Frame
  /\ [fn |-> "compile"] \in Frame
  /\ [fn |-> "compile_end"] \in Frame
  /\ [fn |-> "grouping"] \in Frame
  /\ \A t \in UnaryToken : [fn |-> "unary", type |-> t] \in Frame
  /\ \A t \in BinaryToken : [fn |-> "binary", type |-> t] \in Frame
  /\ GetPrecedence(PREC_UNARY) \in Frame
  /\ \A f \in Frame :
       /\ f.fn \in {"get_precedence", "get_precedence_loop"} => f.prec \in Precedence
       /\ f.fn = "unary" => f.type \in UnaryToken
       /\ f.fn = "binary" => f.type \in BinaryToken
BY DEF GetPrecedence, Loop, Expression, Frame, Precedence, PREC_ASSIGNMENT,
       PREC_UNARY

-----------------------------------------------------------------------------
(* Whatever is read, the stack of streams stays one, and the parser gets a *)
(* token that is not an ERROR_TOKEN.                                       *)
LEMMA GetTokType ==
  ASSUME InputTypeOK, NEW tok, GetTok(tok)
  PROVE  tok \in Token /\ InputTypeOK'
<1>1. Readable \in Seq(Seq(TextToken))
  BY HeadTailProperties DEF InputTypeOK, Readable
<1>2. nest_depth' \in Nat
  BY DEF GetTok, InputTypeOK
<1>3. CASE Readable = << >> /\ tok = "END_OF_INPUT" /\ streams' = << >>
           /\ file_flag' = FALSE
  <2>1. << >> \in Seq(Seq(TextToken))
    BY EmptySeq
  <2>2. tok \in Token
    BY <1>3 DEF Token
  <2> QED  BY <1>2, <1>3, <2>1, <2>2 DEF InputTypeOK
<1>4. CASE Readable # << >> /\ tok = "END_OF_FILE"
           /\ streams' = <<(<< >>)>> \o Tail(Readable) /\ file_flag' = TRUE
  <2>1. Tail(Readable) \in Seq(Seq(TextToken)) /\ << >> \in Seq(TextToken)
    BY <1>1, <1>4, HeadTailProperties
  <2>2. streams' \in Seq(Seq(TextToken))
    BY <1>4, <2>1
  <2> QED  BY <1>2, <1>4, <2>2 DEF InputTypeOK, Token
<1>5. ASSUME Readable # << >>, NEW i \in DOMAIN Head(Readable),
             Head(Readable)[i] # "ERROR_TOKEN",
             tok = Head(Readable)[i],
             streams' = <<SubSeq(Head(Readable), i + 1, Len(Head(Readable)))>>
                          \o Tail(Readable),
             file_flag' = FALSE
      PROVE  tok \in Token /\ InputTypeOK'
  <2> DEFINE text == Head(Readable)
  <2>1. text \in Seq(TextToken) /\ Tail(Readable) \in Seq(Seq(TextToken))
    BY <1>1, <1>5, HeadTailProperties
  <2> HIDE DEF text
  <2>2. i \in 1 .. Len(text) /\ Len(text) \in Nat
    BY <1>5, <2>1, LenProperties DEF text
  <2>3. tok \in Token
    BY <1>5, <2>1, <2>2, ElementOfSeq, TokenFacts DEF text
  <2>4. \A j \in i + 1 .. Len(text) : text[j] \in TextToken
    BY <2>1, <2>2, ElementOfSeq
  <2>5. SubSeq(text, i + 1, Len(text)) \in Seq(TextToken)
    BY <2>2, <2>4, SubSeqProperties
  <2>6. streams' \in Seq(Seq(TextToken))
    BY <1>5, <2>1, <2>5 DEF text
  <2> QED  BY <1>2, <1>5, <2>3, <2>6 DEF InputTypeOK
<1> QED  BY <1>3, <1>4, <1>5 DEF GetTok

LEMMA AdvanceType ==
  ASSUME TypeOK, Advance
  PROVE  InputTypeOK' /\ prev' \in Token \cup {Null} /\ crnt' \in Token
BY GetTokType DEF TypeOK, Advance

LEMMA ConsumeType ==
  ASSUME TypeOK, crnt \in Token, NEW type, Consume(type)
  PROVE  /\ InputTypeOK'
         /\ prev' \in Token \cup {Null}
         /\ crnt' \in Token
         /\ hadError' \in BOOLEAN
         /\ panicMode' \in BOOLEAN
         /\ ~hadError' => ~hadError
<1>1. CASE crnt = type
  BY <1>1, AdvanceType DEF Consume, TypeOK
<1>2. CASE crnt # type
  BY <1>2 DEF Consume, TypeOK, InputTypeOK, inputVars
<1> QED  BY <1>1, <1>2

(* What is appended to the code fits in a word. *)
LEMMA EmitType ==
  ASSUME BlockTypeOK
  PROVE  /\ \A op \in 0 .. 17 : EmitOpcode(op) => BlockTypeOK'
         /\ \A type \in ValueType : EmitConstant(type) => BlockTypeOK'
<1>1. WordSize \in Nat /\ WordSize > 17
  BY WordSizeAssumption DEF OP_RETURN
<1>2. ASSUME NEW op \in 0 .. 17, EmitOpcode(op)
      PROVE  BlockTypeOK'
  BY <1>1, <1>2, AppendProperties DEF EmitOpcode, BlockTypeOK
<1>3. ASSUME NEW type \in ValueType, EmitConstant(type)
      PROVE  BlockTypeOK'
  <2>1. constants' \in Seq(ValueType)
    BY <1>3, AppendProperties DEF EmitConstant, BlockTypeOK
  <2>2. Len(constants) \in Nat
    BY LenProperties DEF BlockTypeOK
  <2>3. Len(constants) % WordSize \in 0 .. WordSize - 1
    BY <1>1, <2>2
  <2>4. <<OP_CONSTANT, Len(constants) % WordSize>> \in Seq(0 .. WordSize - 1)
    BY <1>1, <2>3 DEF OP_CONSTANT
  <2>5. code' \in Seq(0 .. WordSize - 1)
    BY <1>3, <2>4, ConcatProperties DEF EmitConstant, BlockTypeOK
  <2> QED  BY <2>1, <2>5 DEF BlockTypeOK
<1> QED  BY <1>2, <1>3

-----------------------------------------------------------------------------
(* The inductive invariant.  The value stack holds one value for each      *)
(* binary() that waits for its right operand, and one more when a function *)
(* has just returned; as long as no syntax error was met, since a missing  *)
(* operand breaks the count.                                               *)
StackInv ==
  /\ phase = "compiling" <=> frames # << >>
  /\ phase = "compiling" =>
       /\ crnt \in Token
       /\ CallStackOK(frames)
       /\ ~hadError => depth = Expected(frames)
  /\ phase = "compiled" /\ ~hadError => depth = 1

IndInv == TypeOK /\ StackInv

(* What is known of the top of the stack while a parse function runs. *)
LEMMA RunningFacts ==
  ASSUME IndInv, NEW fn, Running(fn)
  PROVE  /\ frames \in Seq(Frame)
         /\ frames # << >>
         /\ phase = "compiling"
         /\ crnt \in Token
         /\ CallStackOK(frames)
         /\ TopFrame \in Frame
         /\ TopFrame.fn = fn
         /\ frames[Len(frames)] = TopFrame
BY EmptySeq, ElementOfSeq DEF IndInv, TypeOK, StackInv, Running, TopFrame

(* Each way in which a parse function changes the call stack, and what it  *)
(* makes of the number of values that is expected.                         *)
LEMMA ReturnStep ==
  ASSUME IndInv, NEW fn, Running(fn), fn \notin {"compile", "compile_end"}, Return
  PROVE  /\ frames' \in Seq(Frame)
         /\ frames' # << >>
         /\ CallStackOK(frames')
         /\ Expected(frames') \in Nat
         /\ Expected(frames) = Expected(frames')
              + IF fn = "binary" THEN 1 ELSE IF fn = "get_precedence" THEN -1 ELSE 0
         /\ fn # "get_precedence" => Expected(frames') >= 1
<1>1. /\ frames' \in Seq(Frame)
      /\ frames' # << >>
      /\ CallStackOK(frames')
      /\ frames'[Len(frames')].fn # "get_precedence"
      /\ Operands(frames') \in Nat
      /\ Operands(frames) = Operands(frames') + IF fn = "binary" THEN 1 ELSE 0
  BY RunningFacts, CallStackReturn DEF Return, Callers
<1>2. frames[Len(frames)].fn = fn
  BY RunningFacts
<1> QED  BY <1>1, <1>2 DEF Expected

LEMMA OperandStep ==
  ASSUME IndInv, Running("get_precedence")
  PROVE  /\ Callers \in Seq(Frame)
         /\ Loop(TopFrame.prec) \in Frame
         /\ LET loop == Append(Callers, Loop(TopFrame.prec))
            IN  /\ loop \in Seq(Frame)
                /\ loop # << >>
                /\ CallStackOK(loop)
                /\ loop[Len(loop)].fn = "get_precedence_loop"
                /\ Operands(loop) \in Nat
                /\ Expected(frames) = Operands(loop)
                /\ Expected(loop) = Expected(frames) + 1
<1>1. /\ Callers \in Seq(Frame)
      /\ Callers # << >>
      /\ CallStackOK(Callers)
      /\ Callers[Len(Callers)].fn # "get_precedence"
      /\ Operands(Callers) \in Nat
      /\ Operands(frames) = Operands(Callers)
  BY RunningFacts, CallStackReturn DEF Callers
<1>2. frames[Len(frames)].fn = "get_precedence"
  BY RunningFacts
<1>3. /\ Loop(TopFrame.prec) \in Frame
      /\ Loop(TopFrame.prec).fn = "get_precedence_loop"
  BY RunningFacts, FrameFacts
<1> DEFINE loop == Append(Callers, Loop(TopFrame.prec))
<1>4. /\ loop \in Seq(Frame)
      /\ loop # << >>
      /\ CallStackOK(loop)
      /\ loop[Len(loop)] = Loop(TopFrame.prec)
      /\ Operands(loop) = Operands(Callers)
  BY <1>1, <1>3, CallStackCall
<1> HIDE DEF loop
<1>5. Expected(frames) = Operands(loop) /\ Expected(loop) = Operands(loop) + 1
  BY <1>1, <1>2, <1>3, <1>4 DEF Expected
<1> QED  BY <1>1, <1>3, <1>4, <1>5 DEF loop

(* A caller that waits calls get_precedence() through another function. *)
LEMMA CallStep ==
  ASSUME NEW fs \in Seq(Frame), fs # << >>, CallStackOK(fs),
         fs[Len(fs)].fn # "get_precedence",
         NEW f \in Frame, f.fn \in {"grouping", "unary", "binary"},
         NEW g \in Frame, g.fn = "get_precedence"
  PROVE  LET gs == Append(Append(fs, f), g)
         IN  /\ gs \in Seq(Frame)
             /\ gs # << >>
             /\ CallStackOK(gs)
             /\ Expected(gs) = Operands(fs) + IF f.fn = "binary" THEN 1 ELSE 0
<1> DEFINE hs == Append(fs, f)
           gs == Append(hs, g)
<1>1. /\ hs \in Seq(Frame)
      /\ hs # << >>
      /\ CallStackOK(hs)
      /\ hs[Len(hs)] = f
      /\ Operands(fs) \in Nat
      /\ Operands(hs) = Operands(fs) + IF f.fn = "binary" THEN 1 ELSE 0
  BY CallStackCall
<1> HIDE DEF hs
<1>2. /\ gs \in Seq(Frame)
      /\ gs # << >>
      /\ CallStackOK(gs)
      /\ gs[Len(gs)] = g
      /\ Operands(gs) = Operands(hs)
  BY <1>1, CallStackCall
<1> HIDE DEF gs
<1>3. Expected(gs) = Operands(hs)
  BY <1>1, <1>2 DEF Expected
<1> QED  BY <1>1, <1>2, <1>3 DEF gs, hs

-----------------------------------------------------------------------------
LEMMA InitIndInv == Init => IndInv
<1> SUFFICES ASSUME Init PROVE IndInv
  OBVIOUS
<1>1. TypeOK
  <2>1. BlockTypeOK
    BY EmptySeq DEF Init, BlockInit, BlockTypeOK
  <2>2. InputTypeOK
    <3>1. << >> \in Seq(Seq(TextToken))
      BY EmptySeq
    <3> QED  BY <3>1 DEF Init, InputInit, InputTypeOK
  <2>3. frames \in Seq(Frame) /\ source \in Seq(Seq(TextToken))
    BY EmptySeq DEF Init
  <2>4. mode \in {"repl", "files"} /\ inputs \in 0 .. MaxInputs
    BY ModesAssumption, InputsAssumption DEF Init
  <2>5. /\ prev \in Token \cup {Null} /\ crnt \in Token \cup {Null}
        /\ hadError \in BOOLEAN /\ panicMode \in BOOLEAN
        /\ phase \in {"ready", "opened", "compiling", "compiled", "exited"}
    BY DEF Init
  <2>6. start \in Nat /\ depth \in Int
    BY SMT DEF Init
  <2> QED  BY <2>1, <2>2, <2>3, <2>4, <2>5, <2>6 DEF TypeOK
<1>2. StackInv
  BY DEF Init, StackInv
<1> QED  BY <1>1, <1>2 DEF IndInv

(* The actions that end a parse function without reading or emitting, or   *)
(* with the emission of one opcode, are proved one by one.                 *)
LEMMA NextIndInv == IndInv /\ [Next]_compilerVars => IndInv'
<1> SUFFICES ASSUME IndInv, [Next]_compilerVars PROVE IndInv'
  OBVIOUS
<1> USE DEF IndInv
<1>1. CASE Open
  <2>1. InputTypeOK' /\ phase' # "compiling" /\ phase' # "compiled"
        /\ phase' \in {"opened", "exited"} /\ inputs' \in 0 .. MaxInputs
    <3>1. inputs' \in 0 .. MaxInputs
      BY <1>1, InputsAssumption DEF Open, TypeOK
    <3>2. ASSUME NEW text \in Lines PROVE <<text>> \o streams \in Seq(Seq(TextToken))
      BY LinesAssumption, ConcatProperties DEF TypeOK, InputTypeOK
    <3>3. nest_depth' \in Nat
      <4>1. nest_depth' = nest_depth \/ nest_depth' = nest_depth + 1
        BY <1>1 DEF Open, OpenScannerString, OpenScannerFile,
             FileMissing, NestingExceeded
      <4> QED  BY <4>1 DEF TypeOK, InputTypeOK
    <3>4. streams' \in Seq(Seq(TextToken)) /\ file_flag' \in BOOLEAN
      BY <1>1, <3>2 DEF Open, OpenScannerString, OpenScannerFile,
           FileMissing, NestingExceeded, TypeOK, InputTypeOK
    <3> QED  BY <1>1, <3>1, <3>3, <3>4 DEF Open, InputTypeOK
  <2>2. TypeOK'
    BY <1>1, <2>1 DEF Open, TypeOK, BlockTypeOK, blockVars, parserVars, history
  <2>3. StackInv'
    BY <1>1, <2>1 DEF Open, StackInv, parserVars
  <2> QED  BY <2>2, <2>3
<1>2. CASE Compile
  <2>1. InputTypeOK' /\ prev' \in Token \cup {Null} /\ crnt' \in Token
    BY <1>2, AdvanceType DEF Compile
  <2>2. /\ frames' \in Seq(Frame)
        /\ frames' # << >>
        /\ Len(frames') = 2
        /\ frames'[1].fn = "compile"
        /\ frames'[2].fn = "get_precedence"
    BY <1>2, FrameFacts DEF Compile, Expression
  <2>3. CallStackOK(frames')
    BY <2>2 DEF CallStackOK
  <2>4. Expected(frames') = 0
    <3>1. BinaryFrames(frames') = {}
      BY <2>2 DEF BinaryFrames
    <3> QED  BY <2>2, <3>1, FS_EmptySet DEF Expected, Operands
  <2>5. source' \in Seq(Seq(TextToken)) /\ start' \in Nat
    BY <1>2, HeadTailProperties, LenProperties
       DEF Compile, Readable, TypeOK, BlockTypeOK, InputTypeOK
  <2>6. TypeOK'
    <3>1. BlockTypeOK' /\ mode' \in {"repl", "files"} /\ inputs' \in 0 .. MaxInputs
      BY <1>2 DEF Compile, TypeOK, BlockTypeOK, blockVars
    <3>2. /\ hadError' \in BOOLEAN /\ panicMode' \in BOOLEAN
          /\ phase' = "compiling"
      BY <1>2 DEF Compile
    <3>3. depth' \in Int
      <4>1. depth' = 0
        BY <1>2 DEF Compile
      <4> QED  BY <4>1
    <3> QED  BY <2>1, <2>2, <2>5, <3>1, <3>2, <3>3 DEF TypeOK
  <2>7. StackInv'
    BY <1>2, <2>1, <2>2, <2>3, <2>4 DEF Compile, StackInv
  <2> QED  BY <2>6, <2>7
<1>3. CASE PrefixMissing
  <2>1. /\ frames' \in Seq(Frame)
        /\ frames' # << >>
        /\ CallStackOK(frames')
        /\ phase = "compiling"
    BY <1>3, ReturnStep, RunningFacts DEF PrefixMissing
  <2>2. InputTypeOK' /\ prev' \in Token \cup {Null} /\ crnt' \in Token
    BY <1>3, AdvanceType DEF PrefixMissing
  <2>3. TypeOK'
    BY <1>3, <2>1, <2>2 DEF PrefixMissing, SameInput, EmitNothing, blockVars,
         TypeOK, BlockTypeOK
  <2>4. StackInv'
    BY <1>3, <2>1, <2>2 DEF PrefixMissing, SameInput, StackInv
  <2> QED  BY <2>3, <2>4
<1>4. CASE PrefixConstant \/ PrefixLiteral
  <2>1. Running("get_precedence") /\ Advance
        /\ UNCHANGED <<hadError, panicMode>> /\ SameInput
    BY <1>4 DEF PrefixConstant, PrefixLiteral
  <2>2. depth' = depth + 1 /\ frames' = Append(Callers, Loop(TopFrame.prec))
    BY <1>4 DEF PrefixConstant, PrefixLiteral, Emit
  <2>3. BlockTypeOK'
    <3>1. \/ \E type \in ValueType : EmitConstant(type)
          \/ \E op \in 0 .. 17 : EmitOpcode(op)
      BY <1>4, OpcodeFacts DEF PrefixConstant, PrefixLiteral, Emit
    <3> QED  BY <3>1, EmitType DEF TypeOK
  <2>4. /\ frames' \in Seq(Frame)
        /\ frames' # << >>
        /\ CallStackOK(frames')
        /\ Expected(frames') = Expected(frames) + 1
        /\ phase = "compiling"
    BY <2>1, <2>2, OperandStep, RunningFacts
  <2>5. InputTypeOK' /\ prev' \in Token \cup {Null} /\ crnt' \in Token
    BY <2>1, AdvanceType
  <2>6. TypeOK'
    BY <2>1, <2>2, <2>3, <2>4, <2>5 DEF SameInput, TypeOK
  <2>7. StackInv'
    BY <2>1, <2>2, <2>4, <2>5 DEF SameInput, StackInv
  <2> QED  BY <2>6, <2>7
<1>5. CASE PrefixGrouping \/ PrefixUnary
  <2>1. Running("get_precedence") /\ Advance /\ EmitNothing
        /\ UNCHANGED <<hadError, panicMode>> /\ SameInput
    BY <1>5 DEF PrefixGrouping, PrefixUnary
  <2>2. PICK f \in Frame, g \in Frame :
          /\ f.fn \in {"grouping", "unary"}
          /\ g.fn = "get_precedence"
          /\ frames' = Callers \o <<Loop(TopFrame.prec), f, g>>
    <3>1. CASE PrefixGrouping
      <4> DEFINE f == [fn |-> "grouping"]
      <4>1. f \in Frame /\ f.fn = "grouping"
        BY FrameFacts
      <4>2. Expression \in Frame /\ Expression.fn = "get_precedence"
        BY FrameFacts DEF Expression
      <4> QED  BY <3>1, <4>1, <4>2 DEF PrefixGrouping
    <3>2. CASE PrefixUnary
      <4> DEFINE f == [fn |-> "unary", type |-> crnt]
                 g == GetPrecedence(PREC_UNARY)
      <4>1. crnt \in UnaryToken
        BY <2>1, <3>2, RunningFacts, RuleFacts DEF PrefixUnary
      <4>2. f \in Frame /\ f.fn = "unary"
        BY <4>1, FrameFacts
      <4>3. g \in Frame /\ g.fn = "get_precedence"
        BY FrameFacts
      <4> QED  BY <3>2, <4>2, <4>3 DEF PrefixUnary
    <3> QED  BY <1>5, <3>1, <3>2
  <2> DEFINE loop == Append(Callers, Loop(TopFrame.prec))
  <2>3. /\ loop \in Seq(Frame)
        /\ loop # << >>
        /\ CallStackOK(loop)
        /\ loop[Len(loop)].fn = "get_precedence_loop"
        /\ Expected(frames) = Operands(loop)
        /\ Operands(loop) \in Nat
    BY <2>1, OperandStep
  <2>4. frames' = Append(Append(loop, f), g)
    BY <2>1, <2>2, OperandStep, PushThree
  <2> HIDE DEF loop
  <2>5. /\ frames' \in Seq(Frame)
        /\ frames' # << >>
        /\ CallStackOK(frames')
        /\ Expected(frames') = Expected(frames)
    <3>1. /\ Append(Append(loop, f), g) \in Seq(Frame)
          /\ Append(Append(loop, f), g) # << >>
          /\ CallStackOK(Append(Append(loop, f), g))
          /\ Expected(Append(Append(loop, f), g)) = Operands(loop) + 0
      <4>1. f.fn \in {"grouping", "unary", "binary"} /\ f.fn # "binary"
        BY <2>2
      <4>2. loop[Len(loop)].fn # "get_precedence"
        BY <2>3
      <4> QED  BY <2>2, <2>3, <4>1, <4>2, CallStep
    <3> QED  BY <2>3, <2>4, <3>1
  <2>6. InputTypeOK' /\ prev' \in Token \cup {Null} /\ crnt' \in Token
    BY <2>1, AdvanceType
  <2>7. phase = "compiling"
    BY <2>1, RunningFacts
  <2>8. TypeOK'
    BY <2>1, <2>5, <2>6 DEF SameInput, EmitNothing, blockVars, TypeOK, BlockTypeOK
  <2>9. StackInv'
    BY <2>1, <2>5, <2>6, <2>7 DEF SameInput, EmitNothing, StackInv
  <2> QED  BY <2>8, <2>9
<1>6. CASE Infix
  <2>1. /\ frames \in Seq(Frame)
        /\ frames # << >>
        /\ phase = "compiling"
        /\ crnt \in Token
        /\ CallStackOK(frames)
        /\ frames[Len(frames)].fn = "get_precedence_loop"
    BY <1>6, RunningFacts DEF Infix
  <2> DEFINE f == [fn |-> "binary", type |-> crnt]
             g == GetPrecedence(RulePrec(crnt) + 1)
  <2>2. f \in Frame /\ f.fn = "binary"
    BY <1>6, <2>1, RuleFacts, FrameFacts DEF Infix
  <2>3. g \in Frame /\ g.fn = "get_precedence"
    <3>1. RulePrec(crnt) + 1 \in Precedence
      BY <2>1, RuleFacts DEF Precedence
    <3> QED  BY <3>1, FrameFacts
  <2>4. frames' = Append(Append(frames, f), g)
    BY <1>6, <2>1, <2>2, <2>3, PushTwo DEF Infix
  <2> HIDE DEF f, g
  <2>5. Expected(frames) = Operands(frames) + 1
    BY <2>1 DEF Expected
  <2>6. /\ frames' \in Seq(Frame)
        /\ frames' # << >>
        /\ CallStackOK(frames')
        /\ Expected(frames') = Expected(frames)
    BY <2>1, <2>2, <2>3, <2>4, <2>5, CallStep
  <2>7. InputTypeOK' /\ prev' \in Token \cup {Null} /\ crnt' \in Token
    BY <1>6, AdvanceType DEF Infix
  <2>8. TypeOK'
    BY <1>6, <2>6, <2>7 DEF Infix, SameInput, EmitNothing, blockVars, TypeOK, BlockTypeOK
  <2>9. StackInv'
    BY <1>6, <2>1, <2>6, <2>7 DEF Infix, SameInput, EmitNothing, StackInv
  <2> QED  BY <2>8, <2>9
<1>7. CASE LoopEnd
  <2>1. /\ frames' \in Seq(Frame)
        /\ frames' # << >>
        /\ CallStackOK(frames')
        /\ Expected(frames') = Expected(frames)
        /\ phase = "compiling"
    BY <1>7, ReturnStep, RunningFacts DEF LoopEnd
  <2>2. TypeOK'
    BY <1>7, <2>1 DEF LoopEnd, SameInput, EmitNothing, blockVars, inputVars,
         TypeOK, BlockTypeOK, InputTypeOK
  <2>3. StackInv'
    BY <1>7, <2>1 DEF LoopEnd, SameInput, EmitNothing, StackInv
  <2> QED  BY <2>2, <2>3
<1>8. CASE GroupingEnd
  <2>1. /\ frames' \in Seq(Frame)
        /\ frames' # << >>
        /\ CallStackOK(frames')
        /\ Expected(frames') = Expected(frames)
        /\ phase = "compiling"
        /\ crnt \in Token
    BY <1>8, ReturnStep, RunningFacts DEF GroupingEnd
  <2>2. /\ InputTypeOK' /\ prev' \in Token \cup {Null} /\ crnt' \in Token
        /\ hadError' \in BOOLEAN /\ panicMode' \in BOOLEAN
        /\ ~hadError' => ~hadError
    BY <1>8, <2>1, ConsumeType DEF GroupingEnd
  <2>3. TypeOK'
    BY <1>8, <2>1, <2>2 DEF GroupingEnd, SameInput, EmitNothing, blockVars,
         TypeOK, BlockTypeOK
  <2>4. StackInv'
    BY <1>8, <2>1, <2>2 DEF GroupingEnd, SameInput, EmitNothing, StackInv
  <2> QED  BY <2>3, <2>4
<1>9. CASE UnaryEnd
  <2>1. /\ frames' \in Seq(Frame)
        /\ frames' # << >>
        /\ CallStackOK(frames')
        /\ Expected(frames') = Expected(frames)
        /\ phase = "compiling"
    BY <1>9, ReturnStep, RunningFacts DEF UnaryEnd
  <2>2. depth' = depth + 0 /\ BlockTypeOK'
    BY <1>9, OpcodeFacts, EmitType DEF UnaryEnd, Emit, TypeOK
  <2>3. TypeOK'
    BY <1>9, <2>1, <2>2 DEF UnaryEnd, SameInput, inputVars, TypeOK, InputTypeOK
  <2>4. StackInv'
    BY <1>9, <2>1, <2>2 DEF UnaryEnd, SameInput, StackInv, TypeOK
  <2> QED  BY <2>3, <2>4
<1>10. CASE BinaryEnd
  <2>1. /\ frames' \in Seq(Frame)
        /\ frames' # << >>
        /\ CallStackOK(frames')
        /\ Expected(frames') = Expected(frames) - 1
        /\ phase = "compiling"
    BY <1>10, ReturnStep, RunningFacts DEF BinaryEnd
  <2>2. depth' = depth - 1 /\ BlockTypeOK'
    BY <1>10, OpcodeFacts, EmitType DEF BinaryEnd, Emit, TypeOK
  <2>3. TypeOK'
    BY <1>10, <2>1, <2>2 DEF BinaryEnd, SameInput, inputVars, TypeOK, InputTypeOK
  <2>4. StackInv'
    BY <1>10, <2>1, <2>2 DEF BinaryEnd, SameInput, StackInv
  <2> QED  BY <2>3, <2>4
<1>11. CASE ConsumeEndOfFile
  <2>1. /\ frames \in Seq(Frame)
        /\ frames # << >>
        /\ phase = "compiling"
        /\ crnt \in Token
        /\ CallStackOK(frames)
        /\ frames[Len(frames)].fn = "compile"
    BY <1>11, RunningFacts DEF ConsumeEndOfFile
  <2>2. Len(frames) = 1
    <3>1. Len(frames) \in 1 .. Len(frames)
      BY <2>1, EmptySeq
    <3> QED  BY <2>1, <3>1 DEF CallStackOK
  <2>3. Expected(frames) = 1
    <3>1. BinaryFrames(frames) = {}
      BY <2>1, <2>2 DEF BinaryFrames
    <3> QED  BY <2>1, <3>1, FS_EmptySet DEF Expected, Operands
  <2>4. /\ frames' \in Seq(Frame)
        /\ frames' # << >>
        /\ Len(frames') = 1
        /\ frames'[1].fn = "compile_end"
    BY <1>11, FrameFacts DEF ConsumeEndOfFile
  <2>5. CallStackOK(frames')
    BY <2>4 DEF CallStackOK
  <2>6. Expected(frames') = 1
    <3>1. BinaryFrames(frames') = {}
      BY <2>4 DEF BinaryFrames
    <3> QED  BY <2>4, <3>1, FS_EmptySet DEF Expected, Operands
  <2>7. /\ InputTypeOK' /\ prev' \in Token \cup {Null} /\ crnt' \in Token
        /\ hadError' \in BOOLEAN /\ panicMode' \in BOOLEAN
        /\ ~hadError' => ~hadError
    BY <1>11, <2>1, ConsumeType DEF ConsumeEndOfFile
  <2>8. TypeOK'
    BY <1>11, <2>4, <2>7 DEF ConsumeEndOfFile, SameInput, EmitNothing, blockVars,
         TypeOK, BlockTypeOK
  <2>9. StackInv'
    BY <1>11, <2>1, <2>3, <2>4, <2>5, <2>6, <2>7
       DEF ConsumeEndOfFile, SameInput, EmitNothing, StackInv
  <2> QED  BY <2>8, <2>9
<1>12. CASE CompileEnd
  <2>1. /\ frames \in Seq(Frame)
        /\ frames # << >>
        /\ phase = "compiling"
        /\ crnt \in Token
        /\ CallStackOK(frames)
        /\ frames[Len(frames)].fn = "compile_end"
    BY <1>12, RunningFacts DEF CompileEnd
  <2>2. Len(frames) = 1
    <3>1. Len(frames) \in 1 .. Len(frames)
      BY <2>1, EmptySeq
    <3> QED  BY <2>1, <3>1 DEF CallStackOK
  <2>3. Expected(frames) = 1
    <3>1. BinaryFrames(frames) = {}
      BY <2>1, <2>2 DEF BinaryFrames
    <3> QED  BY <2>1, <3>1, FS_EmptySet DEF Expected, Operands
  <2>4. frames' = << >>
    BY <1>12, <2>2, SubSeqEmpty DEF CompileEnd, Return, Callers
  <2>5. /\ InputTypeOK' /\ prev' \in Token \cup {Null} /\ crnt' \in Token
        /\ hadError' \in BOOLEAN /\ panicMode' \in BOOLEAN
        /\ ~hadError' => ~hadError
    BY <1>12, <2>1, ConsumeType DEF CompileEnd
  <2>6. depth' = depth + 0 /\ BlockTypeOK'
    BY <1>12, OpcodeFacts, EmitType DEF CompileEnd, Emit, TypeOK
  <2>7. TypeOK'
    BY <1>12, <2>4, <2>5, <2>6, EmptySeq DEF CompileEnd, TypeOK
  <2>8. StackInv'
    BY <1>12, <2>1, <2>3, <2>4, <2>5, <2>6 DEF CompileEnd, StackInv, TypeOK
  <2> QED  BY <2>7, <2>8
<1>13. CASE Interpreted
  <2>1. TypeOK'
    BY <1>13 DEF Interpreted, TypeOK, BlockTypeOK, InputTypeOK, blockVars,
         inputVars, parserVars, history
  <2>2. StackInv'
    BY <1>13 DEF Interpreted, StackInv, parserVars, history
  <2> QED  BY <2>1, <2>2
<1>14. CASE UNCHANGED compilerVars
  <2>1. TypeOK'
    BY <1>14 DEF TypeOK, BlockTypeOK, InputTypeOK, compilerVars, blockVars,
         inputVars, parserVars, history
  <2>2. StackInv'
    BY <1>14 DEF StackInv, compilerVars, parserVars, history
  <2> QED  BY <2>1, <2>2
<1> QED
  BY <1>1, <1>2, <1>3, <1>4, <1>5, <1>6, <1>7, <1>8, <1>9, <1>10, <1>11,
     <1>12, <1>13, <1>14 DEF Next, ParseStep

LEMMA Invariance == Spec => []IndInv
<1>1. Init => IndInv
  BY InitIndInv
<1>2. IndInv /\ [Next]_compilerVars => IndInv'
  BY NextIndInv
<1> QED  BY <1>1, <1>2, PTL DEF Spec

-----------------------------------------------------------------------------
(* Every action of the compiler keeps its state well-typed: in particular  *)
(* every word it appends to the code fits in 16 bits, and every frame that *)
(* a parse function returns to is one that a parse function left behind.   *)
THEOREM TypeCorrect == Spec => []TypeOK
<1>1. IndInv => TypeOK
  BY DEF IndInv
<1> QED  BY <1>1, Invariance, PTL

(* The recursion of expression.c emits operands and operators in balance:  *)
(* the code of an accepted line leaves exactly one value, the one that     *)
(* interpret() takes off the value stack and prints.                       *)
THEOREM StackDiscipline == Spec => []AcceptedCodeYieldsOneValue
<1>1. IndInv => AcceptedCodeYieldsOneValue
  BY DEF IndInv, StackInv, AcceptedCodeYieldsOneValue
<1> QED  BY <1>1, Invariance, PTL

(* What the last word of the code is after each way of emitting. *)
LEMMA LastWord ==
  ASSUME BlockTypeOK, NEW op, code' = Append(code, op)
  PROVE  /\ code' # code
         /\ \A other : EmitOpcode(other) => other = op
         /\ \A type : ~EmitConstant(type)
<1>1. Len(code) \in Nat /\ Len(code') = Len(code) + 1 /\ code'[Len(code) + 1] = op
  BY AppendProperties, LenProperties DEF BlockTypeOK
<1>2. ASSUME NEW other, EmitOpcode(other) PROVE other = op
  <2>1. code'[Len(code) + 1] = other
    BY <1>2, AppendProperties DEF EmitOpcode, BlockTypeOK
  <2> QED  BY <1>1, <2>1
<1>3. ASSUME NEW type, EmitConstant(type) PROVE FALSE
  <2>1. Len(code') = Len(code) + 2
    BY <1>3 DEF EmitConstant, BlockTypeOK
  <2> QED  BY <1>1, <2>1
<1> QED  BY <1>1, <1>2, <1>3

LEMMA OperandsStep ==
  ASSUME IndInv, [Next]_compilerVars, ~hadError, NEW op \in UnaryOp \cup BinaryOp,
         code' = Append(code, op)
  PROVE  depth >= (IF op \in BinaryOp THEN 2 ELSE 1)
<1>1. BlockTypeOK /\ StackInv
  BY DEF IndInv, TypeOK
<1>2. /\ code' # code
      /\ \A other : EmitOpcode(other) => other = op
      /\ \A type : ~EmitConstant(type)
  BY <1>1, LastWord
<1>3. CASE UnaryEnd
  <2>1. op \in UnaryOp
    BY <1>2, <1>3, OpcodeFacts DEF UnaryEnd, Emit
  <2>2. Expected(frames') \in Nat /\ Expected(frames) = Expected(frames')
        /\ Expected(frames') >= 1
    BY <1>3, ReturnStep DEF UnaryEnd
  <2>3. depth = Expected(frames)
    BY <1>1, <1>3, RunningFacts DEF StackInv, UnaryEnd
  <2>4. op \notin BinaryOp
    BY <2>1, OpcodeFacts
  <2> QED  BY <2>2, <2>3, <2>4
<1>4. CASE BinaryEnd
  <2>1. Expected(frames') \in Nat /\ Expected(frames) = Expected(frames') + 1
        /\ Expected(frames') >= 1
    BY <1>4, ReturnStep DEF BinaryEnd
  <2>2. depth = Expected(frames)
    BY <1>1, <1>4, RunningFacts DEF StackInv, BinaryEnd
  <2> QED  BY <2>1, <2>2
<1>5. CASE PrefixLiteral \/ CompileEnd
  <2>1. op \in LiteralOp \cup {OP_RETURN}
    BY <1>2, <1>5, OpcodeFacts DEF PrefixLiteral, CompileEnd, Emit
  <2> QED  BY <2>1, OpcodeFacts
<1>6. CASE PrefixConstant
  BY <1>2, <1>6 DEF PrefixConstant
<1>7. CASE \/ Open \/ Compile \/ Interpreted \/ UNCHANGED compilerVars
           \/ PrefixMissing \/ PrefixGrouping \/ PrefixUnary \/ Infix
           \/ LoopEnd \/ GroupingEnd \/ ConsumeEndOfFile
  <2>1. UNCHANGED code
    BY <1>7 DEF Open, Compile, Interpreted, compilerVars, PrefixMissing,
         PrefixGrouping, PrefixUnary, Infix, LoopEnd, GroupingEnd,
         ConsumeEndOfFile, EmitNothing, blockVars
  <2> QED  BY <1>2, <2>1
<1> QED
  BY <1>3, <1>4, <1>5, <1>6, <1>7 DEF Next, ParseStep

(* No unary operator is emitted before one value, and no binary operator   *)
(* before two: the virtual machine pops them without looking.              *)
THEOREM OperandsThere == Spec => OperatorsFindOperands
<1> DEFINE Found ==
      \A op \in UnaryOp \cup BinaryOp :
        ~hadError /\ code' = Append(code, op)
          => depth >= (IF op \in BinaryOp THEN 2 ELSE 1)
<1>1. IndInv /\ [Next]_compilerVars => [Found]_compilerVars
  BY OperandsStep
<1>2. Spec => [][Found]_compilerVars
  <2> HIDE DEF Found
  <2> QED  BY <1>1, Invariance, PTL DEF Spec
<1> QED  BY <1>2 DEF OperatorsFindOperands

-----------------------------------------------------------------------------
(* An accepted line leaves no text unread and no stream open, whatever an  *)
(* earlier line left behind.                                               *)
(*                                                                         *)
(* As long as no error was met, only tokens with a parse rule were passed, *)
(* so the parser is still in the stream it started in, and file_flag says  *)
(* whether it is at its end.  Passing END_OF_FILE then closes that stream, *)
(* and END_OF_INPUT follows only when there was no other.                  *)
EndToken == {"END_OF_FILE", "END_OF_INPUT"}

(* The parser is in the topmost of the streams that it could read from. *)
InFirstStream ==
  IF crnt = "END_OF_INPUT"
    THEN source = << >>
    ELSE /\ streams # << >>
         /\ Len(streams) = Len(source)
         /\ file_flag <=> crnt = "END_OF_FILE"

AllRead == streams = << >> /\ ~file_flag /\ Len(source) = 1

(* The call stack before compile() is past its expression. *)
NoEnd(fs) == \A i \in 1 .. Len(fs) : fs[i].fn # "compile_end"

DrainInv ==
  /\ phase = "compiling" => NoEnd(frames) \/ frames = <<[fn |-> "compile_end"]>>
  /\ phase \in {"compiling", "compiled"} /\ panicMode => hadError
  /\ phase = "compiling" /\ ~hadError /\ NoEnd(frames) => InFirstStream
  /\ phase = "compiling" /\ ~hadError /\ ~NoEnd(frames)
       => (crnt = "END_OF_INPUT" => AllRead)
  /\ phase = "compiled" /\ ~hadError => AllRead

-----------------------------------------------------------------------------
(* What a call of get_tok() tells about the streams. *)
LEMMA GetTokEffect ==
  ASSUME InputTypeOK, NEW tok, GetTok(tok)
  PROVE  /\ Readable = << >>
              => tok = "END_OF_INPUT" /\ streams' = << >> /\ ~file_flag'
         /\ Readable # << >>
              => /\ tok # "END_OF_INPUT"
                 /\ streams' # << >>
                 /\ Len(streams') = Len(Readable)
                 /\ file_flag' <=> tok = "END_OF_FILE"
<1>1. Readable \in Seq(Seq(TextToken))
  BY HeadTailProperties DEF InputTypeOK, Readable
<1>2. CASE Readable = << >>
  BY <1>2 DEF GetTok
<1>3. CASE Readable # << >>
  <2>1. /\ Len(Readable) \in Nat \ {0}
        /\ Tail(Readable) \in Seq(Seq(TextToken))
        /\ Len(Tail(Readable)) = Len(Readable) - 1
        /\ Head(Readable) \in Seq(TextToken)
    BY <1>1, <1>3, HeadTailProperties, EmptySeq
  <2>2. ASSUME NEW text PROVE /\ <<text>> \o Tail(Readable) # << >>
                              /\ Len(<<text>> \o Tail(Readable)) = Len(Readable)
    BY <2>1
  <2>3. CASE tok = "END_OF_FILE" /\ streams' = <<(<< >>)>> \o Tail(Readable)
             /\ file_flag' = TRUE
    BY <1>3, <2>2, <2>3
  <2>4. ASSUME NEW i \in DOMAIN Head(Readable), tok = Head(Readable)[i],
               streams' = <<SubSeq(Head(Readable), i + 1, Len(Head(Readable)))>>
                            \o Tail(Readable),
               file_flag' = FALSE
        PROVE  /\ tok # "END_OF_INPUT"
               /\ streams' # << >>
               /\ Len(streams') = Len(Readable)
               /\ file_flag' <=> tok = "END_OF_FILE"
    <3>1. tok \in TextToken
      BY <2>1, <2>4, ElementOfSeq
    <3>2. tok \notin EndToken
      BY <3>1 DEF EndToken, TextToken, ConstantToken, LiteralToken, UnaryToken,
           BinaryToken, ArithmeticToken, ComparisonToken
    <3> DEFINE rest == SubSeq(Head(Readable), i + 1, Len(Head(Readable)))
    <3>3. streams' = <<rest>> \o Tail(Readable)
      BY <2>4
    <3> HIDE DEF rest
    <3>4. streams' # << >> /\ Len(streams') = Len(Readable)
      BY <2>2, <3>3
    <3> QED  BY <2>4, <3>2, <3>4 DEF EndToken
  <2> QED  BY <1>3, <2>3, <2>4 DEF GetTok
<1> QED  BY <1>2, <1>3

(* Passing a token of the text keeps the parser in its stream. *)
LEMMA StayInStream ==
  ASSUME IndInv, crnt \in Token, crnt \notin EndToken, InFirstStream,
         Advance, UNCHANGED source
  PROVE  InFirstStream'
<1>1. InputTypeOK /\ GetTok(crnt')
  BY DEF IndInv, TypeOK, Advance
<1>2. ~file_flag /\ streams # << >> /\ Len(streams) = Len(source)
  BY DEF InFirstStream, EndToken
<1>3. Readable = streams
  BY <1>2 DEF Readable
<1>4. /\ crnt' # "END_OF_INPUT"
      /\ streams' # << >>
      /\ Len(streams') = Len(streams)
      /\ file_flag' <=> crnt' = "END_OF_FILE"
  BY <1>1, <1>2, <1>3, GetTokEffect
<1> QED  BY <1>2, <1>4 DEF InFirstStream

(* consume() lets no mismatch pass without an error. *)
LEMMA ConsumeEffect ==
  ASSUME NEW type, Consume(type), hadError \in BOOLEAN, panicMode \in BOOLEAN,
         panicMode => hadError
  PROVE  /\ panicMode' => hadError'
         /\ ~hadError' => ~hadError /\ crnt = type /\ Advance
BY DEF Consume
-----------------------------------------------------------------------------
LEMMA NoEndReturn ==
  ASSUME NEW fs \in Seq(Frame), fs # << >>, NoEnd(fs)
  PROVE  NoEnd(SubSeq(fs, 1, Len(fs) - 1))
<1> DEFINE cs == SubSeq(fs, 1, Len(fs) - 1)
<1>1. Len(cs) = Len(fs) - 1 /\ \A i \in 1 .. Len(fs) - 1 : cs[i] = fs[i]
  BY OperandsReturn
<1> HIDE DEF cs
<1>2. NoEnd(cs)
  BY <1>1 DEF NoEnd
<1> QED  BY <1>2 DEF cs

LEMMA NoEndAppend ==
  ASSUME NEW fs \in Seq(Frame), NoEnd(fs), NEW f \in Frame, f.fn # "compile_end"
  PROVE  NoEnd(Append(fs, f)) /\ Append(fs, f) \in Seq(Frame)
<1> DEFINE gs == Append(fs, f)
<1>1. /\ gs \in Seq(Frame)
      /\ Len(gs) = Len(fs) + 1
      /\ gs[Len(fs) + 1] = f
      /\ \A i \in 1 .. Len(fs) : gs[i] = fs[i]
      /\ Len(fs) \in Nat
  BY AppendProperties, LenProperties
<1> HIDE DEF gs
<1>2. NoEnd(gs)
  BY <1>1 DEF NoEnd
<1> QED  BY <1>1, <1>2 DEF gs

(* Reading and calling on the way down: the part that the actions between  *)
(* compile() and consume(END_OF_FILE) have in common.                      *)
BeforeEnd ==
  /\ phase = "compiling"
  /\ frames # << >>
  /\ NoEnd(frames)
  /\ hadError \in BOOLEAN
  /\ panicMode => hadError
  /\ ~hadError => InFirstStream

LEMMA BeforeEndRunning ==
  ASSUME IndInv, DrainInv, NEW fn, Running(fn), fn # "compile_end"
  PROVE  /\ BeforeEnd
         /\ panicMode \in BOOLEAN
         /\ crnt \in Token
         /\ frames \in Seq(Frame)
         /\ Callers \in Seq(Frame) /\ NoEnd(Callers)
<1>1. /\ frames \in Seq(Frame) /\ frames # << >> /\ phase = "compiling"
      /\ crnt \in Token /\ frames[Len(frames)].fn = fn
      /\ hadError \in BOOLEAN /\ panicMode \in BOOLEAN
  BY RunningFacts DEF IndInv, TypeOK
<1>2. frames # <<[fn |-> "compile_end"]>>
  BY <1>1
<1>3. NoEnd(frames)
  BY <1>1, <1>2 DEF DrainInv
<1>4. Callers \in Seq(Frame) /\ NoEnd(Callers)
  BY <1>1, <1>3, NoEndReturn, OperandsReturn DEF Callers
<1> QED  BY <1>1, <1>3, <1>4 DEF BeforeEnd, DrainInv

(* What suffices after such an action. *)
LEMMA BeforeEndSuffices ==
  ASSUME BeforeEnd'
  PROVE  DrainInv'
BY DEF BeforeEnd, DrainInv

(* The prefix and infix rules pass a token of the text and call on. *)
LEMMA OperandDrain ==
  ASSUME IndInv, BeforeEnd, crnt \in Token \ EndToken, Advance,
         UNCHANGED <<hadError, panicMode>>, SameInput,
         NoEnd(frames'), frames' # << >>
  PROVE  DrainInv'
<1>1. ~hadError => InFirstStream'
  BY StayInStream DEF BeforeEnd, SameInput
<1>2. BeforeEnd'
  BY <1>1 DEF BeforeEnd, SameInput
<1> QED  BY <1>2, BeforeEndSuffices

LEMMA InitDrainInv == Init => DrainInv
BY DEF Init, DrainInv

LEMMA NextDrainInv ==
  ASSUME IndInv, IndInv', DrainInv, [Next]_compilerVars
  PROVE  DrainInv'
<1>1. CASE Open \/ Interpreted
  <2>1. phase' \in {"opened", "exited", "ready"}
    BY <1>1 DEF Open, Interpreted
  <2> QED  BY <2>1 DEF DrainInv
<1>2. CASE Compile
  <2>1. InputTypeOK /\ GetTok(crnt') /\ source' = Readable
    BY <1>2 DEF IndInv, TypeOK, Compile, Advance
  <2>2. InFirstStream'
    BY <2>1, GetTokEffect DEF InFirstStream
  <2>3. /\ frames' = <<[fn |-> "compile"], Expression>>
        /\ phase' = "compiling" /\ ~hadError' /\ ~panicMode'
    BY <1>2 DEF Compile
  <2>4. NoEnd(frames') /\ frames' # << >>
    BY <2>3, FrameFacts DEF NoEnd, Expression
  <2> QED  BY <2>2, <2>3, <2>4 DEF DrainInv
<1>3. CASE PrefixMissing
  <2>1. NoEnd(frames') /\ frames' # << >> /\ phase' = "compiling"
    BY <1>3, BeforeEndRunning, ReturnStep DEF PrefixMissing, Return, SameInput, BeforeEnd
  <2>2. hadError' = TRUE
    BY <1>3 DEF PrefixMissing
  <2> QED  BY <2>1, <2>2 DEF DrainInv
<1>4. CASE PrefixConstant \/ PrefixLiteral \/ PrefixGrouping \/ PrefixUnary
  <2>1. Running("get_precedence") /\ Advance /\ SameInput
        /\ UNCHANGED <<hadError, panicMode>> /\ PrefixRule(crnt) # "NULL"
    BY <1>4 DEF PrefixConstant, PrefixLiteral, PrefixGrouping, PrefixUnary
  <2>2. BeforeEnd /\ crnt \in Token /\ Callers \in Seq(Frame) /\ NoEnd(Callers)
    BY <2>1, BeforeEndRunning
  <2>3. crnt \notin EndToken
    BY <2>1, <2>2, RuleFacts DEF EndToken
  <2> DEFINE loop == Append(Callers, Loop(TopFrame.prec))
  <2>4. loop \in Seq(Frame) /\ NoEnd(loop)
    BY <2>1, <2>2, OperandStep, NoEndAppend, FrameFacts
  <2>5. frames' # << >>
    BY <2>1, <2>2 DEF IndInv, StackInv, SameInput, BeforeEnd
  <2>6. NoEnd(frames')
    <3>1. CASE PrefixConstant \/ PrefixLiteral
      <4>1. frames' = loop
        BY <3>1 DEF PrefixConstant, PrefixLiteral
      <4> QED  BY <2>4, <4>1
    <3>2. ASSUME NEW f \in Frame, NEW g \in Frame,
                 f.fn # "compile_end", g.fn # "compile_end",
                 frames' = Callers \o <<Loop(TopFrame.prec), f, g>>
          PROVE  NoEnd(frames')
      <4>1. frames' = Append(Append(loop, f), g)
        BY <2>1, <2>2, <3>2, OperandStep, PushThree
      <4> HIDE DEF loop
      <4> QED  BY <2>4, <3>2, <4>1, NoEndAppend
    <3>3. CASE PrefixGrouping
      <4>1. frames' = Callers \o <<Loop(TopFrame.prec), [fn |-> "grouping"], Expression>>
        BY <3>3 DEF PrefixGrouping
      <4>2. [fn |-> "grouping"].fn # "compile_end" /\ Expression.fn # "compile_end"
        BY FrameFacts DEF Expression
      <4> QED  BY <3>2, <4>1, <4>2, FrameFacts
    <3>4. CASE PrefixUnary
      <4> DEFINE f == [fn |-> "unary", type |-> crnt]
      <4>1. frames' = Callers \o <<Loop(TopFrame.prec), f, GetPrecedence(PREC_UNARY)>>
        BY <3>4 DEF PrefixUnary
      <4>2. crnt \in UnaryToken
        BY <2>2, <3>4, RuleFacts DEF PrefixUnary
      <4>3. f \in Frame /\ f.fn # "compile_end"
        BY <4>2, FrameFacts
      <4>4. GetPrecedence(PREC_UNARY).fn # "compile_end"
        BY FrameFacts
      <4> QED  BY <3>2, <4>1, <4>3, <4>4, FrameFacts
    <3> QED  BY <1>4, <3>1, <3>3, <3>4
  <2> QED  BY <2>1, <2>2, <2>3, <2>5, <2>6, OperandDrain
<1>5. CASE Infix
  <2>1. Running("get_precedence_loop") /\ Advance /\ SameInput
        /\ UNCHANGED <<hadError, panicMode>> /\ InfixRule(crnt) = "binary"
    BY <1>5 DEF Infix
  <2>2. BeforeEnd /\ crnt \in Token /\ frames \in Seq(Frame)
    BY <2>1, BeforeEndRunning
  <2>3. crnt \notin EndToken
    BY <2>1, <2>2, RuleFacts DEF EndToken
  <2> DEFINE f == [fn |-> "binary", type |-> crnt]
             g == GetPrecedence(RulePrec(crnt) + 1)
  <2>4. f \in Frame /\ f.fn # "compile_end"
    BY <2>1, <2>2, RuleFacts, FrameFacts
  <2>5. g \in Frame /\ g.fn # "compile_end"
    <3>1. RulePrec(crnt) + 1 \in Precedence
      BY <2>2, RuleFacts DEF Precedence
    <3> QED  BY <3>1, FrameFacts
  <2>6. frames' = Append(Append(frames, f), g)
    BY <1>5, <2>2, <2>4, <2>5, PushTwo DEF Infix
  <2> HIDE DEF f, g
  <2>7. NoEnd(frames')
    BY <2>2, <2>4, <2>5, <2>6, NoEndAppend DEF BeforeEnd
  <2>8. frames' # << >>
    BY <2>1, <2>2 DEF IndInv, StackInv, SameInput, BeforeEnd
  <2> QED  BY <2>1, <2>2, <2>3, <2>7, <2>8, OperandDrain
<1>6. CASE LoopEnd \/ UnaryEnd \/ BinaryEnd
  <2>1. PICK fn \in {"get_precedence_loop", "unary", "binary"} :
          Running(fn) /\ Return
    BY <1>6 DEF LoopEnd, UnaryEnd, BinaryEnd
  <2>2. UNCHANGED <<crnt, hadError, panicMode, streams, file_flag, source, phase>>
    BY <1>6 DEF LoopEnd, UnaryEnd, BinaryEnd, inputVars, SameInput
  <2>3. BeforeEnd /\ NoEnd(frames')
    BY <2>1, BeforeEndRunning DEF Return
  <2>4. frames' # << >>
    BY <2>2, <2>3 DEF IndInv, StackInv, BeforeEnd
  <2>5. BeforeEnd'
    BY <2>2, <2>3, <2>4 DEF BeforeEnd, InFirstStream
  <2> QED  BY <2>5, BeforeEndSuffices
<1>7. CASE GroupingEnd
  <2>1. /\ BeforeEnd /\ crnt \in Token /\ NoEnd(frames')
        /\ hadError \in BOOLEAN /\ panicMode \in BOOLEAN
    BY <1>7, BeforeEndRunning DEF GroupingEnd, Return, BeforeEnd
  <2>2. /\ panicMode' => hadError'
        /\ ~hadError' => ~hadError /\ crnt = "CPAR_TOKEN" /\ Advance
    BY <1>7, <2>1, ConsumeEffect DEF GroupingEnd, BeforeEnd
  <2>3. ~hadError' => InFirstStream'
    BY <1>7, <2>1, <2>2, StayInStream DEF GroupingEnd, SameInput, BeforeEnd, EndToken
  <2>4. frames' # << >> /\ phase' = "compiling" /\ hadError' \in BOOLEAN
    BY <1>7, <2>1 DEF IndInv, TypeOK, StackInv, GroupingEnd, SameInput, BeforeEnd
  <2>5. BeforeEnd'
    BY <2>1, <2>2, <2>3, <2>4 DEF BeforeEnd
  <2> QED  BY <2>5, BeforeEndSuffices
<1>8. CASE ConsumeEndOfFile
  <2>1. /\ BeforeEnd /\ crnt \in Token
        /\ hadError \in BOOLEAN /\ panicMode \in BOOLEAN
    BY <1>8, BeforeEndRunning DEF ConsumeEndOfFile, BeforeEnd
  <2>2. /\ panicMode' => hadError'
        /\ ~hadError' => ~hadError /\ crnt = "END_OF_FILE" /\ Advance
    BY <1>8, <2>1, ConsumeEffect DEF ConsumeEndOfFile, BeforeEnd
  <2>3. frames' = <<[fn |-> "compile_end"]>> /\ phase' = "compiling"
        /\ source' = source
    BY <1>8, <2>1 DEF ConsumeEndOfFile, SameInput, BeforeEnd
  <2>4. ~NoEnd(frames')
    BY <2>3 DEF NoEnd
  <2>5. ASSUME ~hadError', crnt' = "END_OF_INPUT"
        PROVE  AllRead'
    <3>1. /\ streams # << >> /\ file_flag
          /\ Len(streams) = Len(source)
          /\ streams \in Seq(Seq(TextToken))
      BY <2>1, <2>2, <2>5 DEF BeforeEnd, InFirstStream, IndInv, TypeOK, InputTypeOK
    <3>2. Readable = Tail(streams)
      BY <3>1 DEF Readable
    <3>3. Readable = << >> /\ streams' = << >> /\ ~file_flag'
      BY <2>2, <2>5, GetTokEffect DEF Advance, IndInv, TypeOK
    <3>4. Len(streams) = 1
      <4>1. Len(Tail(streams)) = Len(streams) - 1 /\ Len(streams) \in Nat
        BY <3>1, HeadTailProperties, LenProperties
      <4>2. Len(Tail(streams)) = 0
        <5>1. Tail(streams) = << >>
          BY <3>2, <3>3
        <5>2. Tail(streams) \in Seq(Seq(TextToken))
          BY <3>1, HeadTailProperties
        <5> QED  BY <5>1, <5>2, EmptySeq
      <4> QED  BY <4>1, <4>2
    <3> QED  BY <2>3, <3>1, <3>3, <3>4 DEF AllRead
  <2> QED  BY <2>2, <2>3, <2>4, <2>5 DEF DrainInv
<1>9. CASE CompileEnd
  <2>1. /\ phase = "compiling" /\ ~NoEnd(frames)
        /\ hadError \in BOOLEAN /\ panicMode \in BOOLEAN
    <3>1. frames \in Seq(Frame) /\ frames # << >> /\ phase = "compiling"
          /\ frames[Len(frames)].fn = "compile_end"
      BY <1>9, RunningFacts DEF CompileEnd
    <3>2. Len(frames) \in 1 .. Len(frames)
      BY <3>1, EmptySeq
    <3> QED  BY <3>1, <3>2 DEF NoEnd, IndInv, TypeOK
  <2>2. /\ panicMode' => hadError'
        /\ ~hadError' => ~hadError /\ crnt = "END_OF_INPUT" /\ Advance
    BY <1>9, <2>1, ConsumeEffect DEF CompileEnd, DrainInv
  <2>3. phase' = "compiled" /\ source' = source
    BY <1>9 DEF CompileEnd
  <2>4. ASSUME ~hadError' PROVE AllRead'
    <3>1. streams = << >> /\ ~file_flag /\ Len(source) = 1
      BY <2>1, <2>2, <2>4 DEF DrainInv, AllRead
    <3>2. Readable = << >>
      BY <3>1 DEF Readable
    <3>3. streams' = << >> /\ ~file_flag'
      BY <2>2, <2>4, <3>2, GetTokEffect DEF Advance, IndInv, TypeOK
    <3> QED  BY <2>3, <3>1, <3>3 DEF AllRead
  <2> QED  BY <2>2, <2>3, <2>4 DEF DrainInv
<1>10. CASE UNCHANGED compilerVars
  <2>1. UNCHANGED <<phase, frames, panicMode, hadError, crnt, source, streams, file_flag>>
    BY <1>10 DEF compilerVars, parserVars, inputVars, history
  <2> QED  BY <2>1 DEF DrainInv, InFirstStream, AllRead
<1> QED
  BY <1>1, <1>2, <1>3, <1>4, <1>5, <1>6, <1>7, <1>8, <1>9, <1>10
     DEF Next, ParseStep

(* A line is accepted only when the whole of its text, and nothing else,   *)
(* was compiled, and its stream is closed: consume(END_OF_FILE) and        *)
(* consume(END_OF_INPUT) see to it in spite of the close that get_char()   *)
(* defers.                                                                 *)
THEOREM InputDrained == Spec => []AcceptedDrainsInput
<1>1. Init => DrainInv
  BY InitDrainInv
<1>2. IndInv /\ IndInv' /\ DrainInv /\ [Next]_compilerVars => DrainInv'
  BY NextDrainInv
<1>3. DrainInv => AcceptedDrainsInput
  BY DEF DrainInv, AllRead, AcceptedDrainsInput
<1> QED  BY <1>1, <1>2, <1>3, Invariance, PTL DEF Spec

-----------------------------------------------------------------------------
(* compile() always returns: what it has still to do is a number that each *)
(* of its steps makes smaller.                                             *)
(*                                                                         *)
(* The unread tokens are told apart by the number of streams below theirs  *)
(* and the number of tokens behind them, which no step changes.            *)
Unread(strs) ==
  UNION {{Len(strs) - i} \X (0 .. Len(strs[i]) - 1) : i \in 1 .. Len(strs)}

(* The tokens that the parser has not passed. *)
TokensLeft(tok, strs) ==
  Cardinality(Unread(strs)) + IF tok \in TextToken THEN 1 ELSE 0

(* A token passed pushes two frames at most, and it is worth more than     *)
(* them; every other step ends a function.                                 *)
StepsLeft ==
  6 * TokensLeft(crnt, streams) + 2 * Len(frames)
    + IF Running("compile") THEN 1 ELSE 0

(* Every step of the parser brings compile() closer to its return.         *)
ParseAdvances ==
  [][ParseStep => StepsLeft \in Nat /\ StepsLeft' \in Nat /\ StepsLeft' < StepsLeft]_compilerVars

-----------------------------------------------------------------------------
LEMMA UnreadElement ==
  ASSUME NEW strs, NEW d, NEW b
  PROVE  <<d, b>> \in Unread(strs)
           <=> \E i \in 1 .. Len(strs) : d = Len(strs) - i /\ b \in 0 .. Len(strs[i]) - 1
BY DEF Unread

LEMMA UnreadPairs ==
  ASSUME NEW strs, NEW x \in Unread(strs)
  PROVE  x = <<x[1], x[2]>>
BY DEF Unread

LEMMA UnreadFinite ==
  ASSUME NEW strs \in Seq(Seq(TextToken))
  PROVE  IsFiniteSet(Unread(strs)) /\ Cardinality(Unread(strs)) \in Nat
<1> DEFINE n == Len(strs)
           part == [i \in 1 .. n |-> {n - i} \X (0 .. Len(strs[i]) - 1)]
           S == {part[i] : i \in 1 .. n}
<1>1. n \in Nat /\ \A i \in 1 .. n : Len(strs[i]) \in Nat
  BY LenProperties, ElementOfSeq
<1>2. \A i \in 1 .. n : IsFiniteSet(part[i])
  <2> SUFFICES ASSUME NEW i \in 1 .. n
               PROVE  IsFiniteSet({n - i} \X (0 .. Len(strs[i]) - 1))
    OBVIOUS
  <2>1. IsFiniteSet({n - i})
    BY FS_Singleton
  <2>2. IsFiniteSet(0 .. Len(strs[i]) - 1)
    <3>1. 0 \in Int /\ Len(strs[i]) - 1 \in Int
      BY <1>1
    <3> QED  BY <3>1, FS_Interval
  <2> QED  BY <2>1, <2>2, FS_Product
<1>3. IsFiniteSet(S)
  <2>1. part \in [1 .. n -> S] /\ \A t \in S : \E i \in 1 .. n : part[i] = t
    OBVIOUS
  <2> HIDE DEF part, S
  <2>2. ExistsSurjection(1 .. n, S)
    BY <2>1 DEF ExistsSurjection, Surjection
  <2> QED  BY <1>1, <2>2, FS_NatSurjection
<1>4. \A T \in S : IsFiniteSet(T)
  BY <1>2
<1>5. Unread(strs) = UNION S
  BY DEF Unread
<1> HIDE DEF S, part
<1>6. IsFiniteSet(Unread(strs))
  BY <1>3, <1>4, <1>5, FS_UNION
<1> QED  BY <1>6, FS_CardinalityType

LEMMA FewerUnread ==
  ASSUME NEW strs \in Seq(Seq(TextToken)), NEW rest \in Seq(Seq(TextToken)),
         Unread(rest) \subseteq Unread(strs)
  PROVE  /\ Cardinality(Unread(rest)) <= Cardinality(Unread(strs))
         /\ Unread(rest) # Unread(strs)
              => Cardinality(Unread(rest)) + 1 <= Cardinality(Unread(strs))
<1> DEFINE A == Unread(strs)
           B == Unread(rest)
<1>1. IsFiniteSet(A) /\ Cardinality(A) \in Nat /\ Cardinality(B) \in Nat
  BY UnreadFinite
<1> HIDE DEF A, B
<1>2. B \in SUBSET A
  BY DEF A, B
<1>3. Cardinality(B) <= Cardinality(A) /\ (Cardinality(A) = Cardinality(B) => A = B)
  BY <1>1, <1>2, FS_Subset
<1>4. A # B => Cardinality(B) + 1 <= Cardinality(A)
  BY <1>1, <1>3
<1> QED  BY <1>3, <1>4 DEF A, B

(* The stream on top is closed. *)
LEMMA UnreadTail ==
  ASSUME NEW strs \in Seq(Seq(TextToken)), strs # << >>
  PROVE  /\ Tail(strs) \in Seq(Seq(TextToken))
         /\ Unread(Tail(strs)) \subseteq Unread(strs)
<1> DEFINE ts == Tail(strs)
<1>1. /\ ts \in Seq(Seq(TextToken)) /\ Len(ts) = Len(strs) - 1 /\ Len(strs) \in Nat
      /\ \A i \in 1 .. Len(ts) : ts[i] = strs[i + 1]
  BY HeadTailProperties, LenProperties
<1> HIDE DEF ts
<1>2. ASSUME NEW x \in Unread(ts)
      PROVE  x \in Unread(strs)
  <2>1. x = <<x[1], x[2]>>
    BY UnreadPairs
  <2>2. PICK i \in 1 .. Len(ts) : x[1] = Len(ts) - i /\ x[2] \in 0 .. Len(ts[i]) - 1
    BY <2>1, UnreadElement
  <2>3. i + 1 \in 1 .. Len(strs) /\ x[1] = Len(strs) - (i + 1) /\ ts[i] = strs[i + 1]
    BY <1>1, <2>2
  <2>4. <<x[1], x[2]>> \in Unread(strs)
    BY <2>2, <2>3, UnreadElement
  <2> QED  BY <2>1, <2>4
<1> QED  BY <1>1, <1>2 DEF ts

(* Of the stream on top only u is left. *)
LEMMA UnreadTop ==
  ASSUME NEW strs \in Seq(Seq(TextToken)), strs # << >>, NEW u \in Seq(TextToken),
         Len(u) <= Len(Head(strs))
  PROVE  LET rest == <<u>> \o Tail(strs)
         IN  /\ rest \in Seq(Seq(TextToken))
             /\ Unread(rest) \subseteq Unread(strs)
             /\ Len(u) < Len(Head(strs)) => Unread(rest) # Unread(strs)
<1> DEFINE ts == Tail(strs)
           rest == <<u>> \o ts
<1>1. /\ ts \in Seq(Seq(TextToken)) /\ Len(ts) = Len(strs) - 1 /\ Len(strs) \in Nat
      /\ \A i \in 1 .. Len(ts) : ts[i] = strs[i + 1]
      /\ Head(strs) = strs[1] /\ 1 <= Len(strs)
      /\ strs[1] \in Seq(TextToken)
  <2>1. Len(strs) \in Nat /\ Len(strs) # 0
    BY LenProperties, EmptySeq
  <2>2. 1 \in 1 .. Len(strs)
    BY <2>1
  <2> QED  BY <2>1, <2>2, HeadTailProperties, ElementOfSeq
<1> HIDE DEF ts
<1>2. /\ rest \in Seq(Seq(TextToken)) /\ Len(rest) = Len(strs)
      /\ rest[1] = u
      /\ \A i \in 2 .. Len(strs) : rest[i] = strs[i]
  <2> DEFINE one == <<u>>
  <2>1. one \in Seq(Seq(TextToken)) /\ Len(one) = 1 /\ one[1] = u
    OBVIOUS
  <2> HIDE DEF one
  <2>2. /\ one \o ts \in Seq(Seq(TextToken)) /\ Len(one \o ts) = 1 + Len(ts)
        /\ \A i \in 1 .. 1 + Len(ts) : (one \o ts)[i] = IF i <= 1 THEN one[i] ELSE ts[i - 1]
    <3>1. /\ one \o ts \in Seq(Seq(TextToken)) /\ Len(one \o ts) = Len(one) + Len(ts)
          /\ \A i \in 1 .. Len(one) + Len(ts) :
               (one \o ts)[i] = IF i <= Len(one) THEN one[i] ELSE ts[i - Len(one)]
      <4>1. one \in Seq(Seq(TextToken)) /\ ts \in Seq(Seq(TextToken))
        BY <1>1, <2>1
      <4> QED  BY ONLY <4>1, ConcatProperties
    <3> QED  BY <2>1, <3>1, Zenon
  <2>3. (one \o ts)[1] = u
    BY <1>1, <2>1, <2>2
  <2>4. ASSUME NEW i \in 2 .. Len(strs) PROVE (one \o ts)[i] = strs[i]
    <3>1. i \in 1 .. 1 + Len(ts) /\ ~(i <= 1) /\ i - 1 \in 1 .. Len(ts) /\ (i - 1) + 1 = i
      BY <1>1
    <3> QED  BY <1>1, <2>2, <3>1
  <2>5. Len(one \o ts) = Len(strs)
    BY <1>1, <2>2
  <2> QED  BY <2>2, <2>3, <2>4, <2>5 DEF one
<1> HIDE DEF rest
<1>3. Len(u) \in Nat /\ Len(strs[1]) \in Nat /\ Len(u) <= Len(strs[1])
  BY <1>1, LenProperties
<1>4. ASSUME NEW x \in Unread(rest)
      PROVE  x \in Unread(strs)
  <2>1. x = <<x[1], x[2]>>
    BY UnreadPairs
  <2>2. PICK i \in 1 .. Len(rest) : x[1] = Len(rest) - i /\ x[2] \in 0 .. Len(rest[i]) - 1
    BY <2>1, UnreadElement
  <2>3. i \in 1 .. Len(strs) /\ x[1] = Len(strs) - i
    BY <1>2, <2>2
  <2>4. x[2] \in 0 .. Len(strs[i]) - 1
    <3>1. CASE i = 1
      BY <1>2, <1>3, <2>2, <3>1
    <3>2. CASE i \in 2 .. Len(strs)
      BY <1>2, <2>2, <3>2
    <3> QED  BY <1>1, <2>3, <3>1, <3>2
  <2>5. <<x[1], x[2]>> \in Unread(strs)
    BY <2>3, <2>4, UnreadElement
  <2> QED  BY <2>1, <2>5
<1>5. ASSUME Len(u) < Len(strs[1])
      PROVE  Unread(rest) # Unread(strs)
  <2> DEFINE d == Len(strs) - 1
             b == Len(strs[1]) - 1
  <2>1. <<d, b>> \in Unread(strs)
    <3>1. 1 \in 1 .. Len(strs) /\ b \in 0 .. Len(strs[1]) - 1
      BY <1>1, <1>3, <1>5
    <3> QED  BY <3>1, UnreadElement
  <2>2. <<d, b>> \notin Unread(rest)
    <3> SUFFICES ASSUME NEW i \in 1 .. Len(rest), d = Len(rest) - i, b \in 0 .. Len(rest[i]) - 1
                 PROVE  FALSE
      BY UnreadElement
    <3>1. i = 1
      BY <1>1, <1>2
    <3>2. b \in 0 .. Len(u) - 1
      BY <1>2, <3>1
    <3> QED  BY <1>3, <1>5, <3>2
  <2> QED  BY <2>1, <2>2
<1> QED  BY <1>1, <1>2, <1>4, <1>5 DEF rest, ts

(* advance() never makes the tokens more that are left, the one it gets    *)
(* included.                                                               *)
LEMMA GetTokLeft ==
  ASSUME InputTypeOK, NEW tok, GetTok(tok)
  PROVE  /\ TokensLeft(tok, streams') \in Nat
         /\ Cardinality(Unread(streams)) \in Nat
         /\ TokensLeft(tok, streams') <= Cardinality(Unread(streams))
<1>1. /\ streams \in Seq(Seq(TextToken))
      /\ Readable \in Seq(Seq(TextToken)) /\ Unread(Readable) \subseteq Unread(streams)
  BY UnreadTail DEF InputTypeOK, Readable
<1>2. /\ Cardinality(Unread(streams)) \in Nat /\ Cardinality(Unread(Readable)) \in Nat
      /\ Cardinality(Unread(Readable)) <= Cardinality(Unread(streams))
  BY <1>1, FewerUnread, UnreadFinite
<1>3. streams' \in Seq(Seq(TextToken))
  BY GetTokType DEF InputTypeOK
<1>4. Cardinality(Unread(streams')) \in Nat
  BY <1>3, UnreadFinite
<1>5. CASE Readable = << >> /\ tok = "END_OF_INPUT" /\ streams' = << >>
  <2>1. streams' = Readable
    BY <1>5
  <2>2. tok \notin TextToken
    BY <1>5 DEF TextToken, ConstantToken, LiteralToken, UnaryToken, BinaryToken,
                ArithmeticToken, ComparisonToken
  <2> QED  BY <1>2, <2>1, <2>2 DEF TokensLeft
<1>6. ASSUME Readable # << >>, tok = "END_OF_FILE",
             streams' = <<(<< >>)>> \o Tail(Readable)
      PROVE  TokensLeft(tok, streams') \in Nat
             /\ TokensLeft(tok, streams') <= Cardinality(Unread(streams))
  <2>1. tok \notin TextToken
    BY <1>6 DEF TextToken, ConstantToken, LiteralToken, UnaryToken, BinaryToken,
                ArithmeticToken, ComparisonToken
  <2> DEFINE u == << >>
  <2>2. u \in Seq(TextToken) /\ Len(u) = 0 /\ Head(Readable) \in Seq(TextToken)
    BY <1>1, <1>6, HeadTailProperties
  <2> HIDE DEF u
  <2>3. Len(u) <= Len(Head(Readable))
    BY <2>2, LenProperties
  <2>4. Unread(<<u>> \o Tail(Readable)) \subseteq Unread(Readable)
    BY <1>1, <1>6, <2>2, <2>3, UnreadTop
  <2>5. Unread(streams') \subseteq Unread(Readable)
    BY <1>6, <2>4 DEF u
  <2>6. Cardinality(Unread(streams')) <= Cardinality(Unread(Readable))
    BY <1>1, <1>3, <2>5, FewerUnread
  <2> QED  BY <1>2, <1>4, <2>1, <2>6 DEF TokensLeft
<1>7. ASSUME Readable # << >>, NEW i \in DOMAIN Head(Readable),
             streams' = <<SubSeq(Head(Readable), i + 1, Len(Head(Readable)))>>
                          \o Tail(Readable)
      PROVE  TokensLeft(tok, streams') \in Nat
             /\ TokensLeft(tok, streams') <= Cardinality(Unread(streams))
  <2> DEFINE s == Head(Readable)
             u == SubSeq(s, i + 1, Len(s))
  <2>1. s \in Seq(TextToken)
    BY <1>1, <1>7, HeadTailProperties
  <2> HIDE DEF s
  <2>2. i \in 1 .. Len(s) /\ Len(s) \in Nat /\ \A j \in i + 1 .. Len(s) : s[j] \in TextToken
    BY <1>7, <2>1, LenProperties, ElementOfSeq DEF s
  <2>3. u \in Seq(TextToken) /\ Len(u) = IF i + 1 <= Len(s) THEN Len(s) - (i + 1) + 1 ELSE 0
    BY <2>1, <2>2, SubSeqProperties
  <2>4. Len(u) < Len(s) /\ Len(u) <= Len(s)
    BY <2>2, <2>3
  <2>5. streams' = <<u>> \o Tail(Readable)
    BY <1>7 DEF s
  <2> HIDE DEF u
  <2>6. /\ Unread(<<u>> \o Tail(Readable)) \subseteq Unread(Readable)
        /\ Unread(<<u>> \o Tail(Readable)) # Unread(Readable)
    BY <1>1, <1>7, <2>3, <2>4, UnreadTop DEF s
  <2>7. Unread(streams') \subseteq Unread(Readable) /\ Unread(streams') # Unread(Readable)
    BY <2>5, <2>6
  <2>8. Cardinality(Unread(streams')) + 1 <= Cardinality(Unread(Readable))
    BY <1>1, <1>3, <2>7, FewerUnread
  <2> QED  BY <1>2, <1>4, <2>8 DEF TokensLeft
<1> QED  BY <1>2, <1>4, <1>5, <1>6, <1>7 DEF GetTok, TokensLeft

LEMMA AdvanceLeft ==
  ASSUME TypeOK, crnt \in Token, Advance
  PROVE  /\ TokensLeft(crnt, streams) \in Nat
         /\ TokensLeft(crnt, streams)' \in Nat
         /\ TokensLeft(crnt, streams)' <= TokensLeft(crnt, streams)
         /\ crnt \in TextToken
              => TokensLeft(crnt, streams)' + 1 <= TokensLeft(crnt, streams)
<1>1. /\ TokensLeft(crnt', streams') \in Nat
      /\ Cardinality(Unread(streams)) \in Nat
      /\ TokensLeft(crnt', streams') <= Cardinality(Unread(streams))
  BY GetTokLeft DEF TypeOK, Advance
<1>2. TokensLeft(crnt, streams)' = TokensLeft(crnt', streams')
  BY DEF TokensLeft, Unread
<1>3. TokensLeft(crnt, streams)
        = Cardinality(Unread(streams)) + IF crnt \in TextToken THEN 1 ELSE 0
  BY DEF TokensLeft
<1> QED  BY <1>1, <1>2, <1>3

LEMMA NotRead ==
  ASSUME TypeOK, UNCHANGED <<crnt, streams>>
  PROVE  /\ TokensLeft(crnt, streams) \in Nat
         /\ TokensLeft(crnt, streams)' = TokensLeft(crnt, streams)
<1>1. Cardinality(Unread(streams)) \in Nat
  BY UnreadFinite DEF TypeOK, InputTypeOK
<1> QED  BY <1>1 DEF TokensLeft, Unread

LEMMA ConsumeLeft ==
  ASSUME TypeOK, crnt \in Token, NEW type, Consume(type)
  PROVE  /\ TokensLeft(crnt, streams) \in Nat
         /\ TokensLeft(crnt, streams)' \in Nat
         /\ TokensLeft(crnt, streams)' <= TokensLeft(crnt, streams)
<1>1. CASE Advance
  BY <1>1, AdvanceLeft
<1>2. CASE UNCHANGED <<crnt, streams>>
  BY <1>2, NotRead
<1> QED  BY <1>1, <1>2 DEF Consume, inputVars

(* Each way in which a step brings the return closer. *)
Closer == StepsLeft \in Nat /\ StepsLeft' \in Nat /\ StepsLeft' < StepsLeft

LEMMA FewerSteps ==
  ASSUME NEW n \in Nat, NEW m \in Nat, n = TokensLeft(crnt, streams),
         m = TokensLeft(crnt, streams)',
         frames \in Seq(Frame), frames' \in Seq(Frame),
         \/ m + 1 <= n /\ Len(frames') <= Len(frames) + 2
         \/ m <= n /\ Len(frames') + 1 <= Len(frames)
         \/ m <= n /\ Len(frames') <= Len(frames) /\ Running("compile") /\ ~Running("compile")'
  PROVE  Closer
<1> DEFINE l == Len(frames)
           r == IF Running("compile") THEN 1 ELSE 0
           k == Len(frames')
           q == IF Running("compile")' THEN 1 ELSE 0
<1>1. l \in Nat /\ k \in Nat /\ r \in {0, 1} /\ q \in {0, 1}
  BY LenProperties
<1>2. \/ m + 1 <= n /\ k <= l + 2
      \/ m <= n /\ k + 1 <= l
      \/ m <= n /\ k <= l /\ r = 1 /\ q = 0
  BY Zenon
<1>3. StepsLeft = 6 * n + 2 * l + r
  BY DEF StepsLeft
<1>4. StepsLeft' = 6 * m + 2 * k + q
  BY DEF StepsLeft
<1> HIDE DEF l, r, k, q
<1>5. 6 * m + 2 * k + q < 6 * n + 2 * l + r
  <2>1. CASE m + 1 <= n /\ k <= l + 2
    BY ONLY <1>1, <2>1, m \in Nat, n \in Nat
  <2>2. CASE m <= n /\ k + 1 <= l
    BY ONLY <1>1, <2>2, m \in Nat, n \in Nat
  <2>3. CASE m <= n /\ k <= l /\ r = 1 /\ q = 0
    BY ONLY <1>1, <2>3, m \in Nat, n \in Nat
  <2> QED  BY ONLY <1>2, <2>1, <2>2, <2>3
<1>6. 6 * m + 2 * k + q \in Nat /\ 6 * n + 2 * l + r \in Nat
  BY ONLY <1>1, m \in Nat, n \in Nat
<1> QED  BY <1>3, <1>4, <1>5, <1>6 DEF Closer

LEMMA ParseCloser ==
  ASSUME IndInv, IndInv', ParseStep
  PROVE  Closer
<1>1. /\ TypeOK /\ frames \in Seq(Frame) /\ frames' \in Seq(Frame)
  BY DEF IndInv, TypeOK
<1>2. ASSUME Return, frames # << >>
      PROVE  Len(frames') + 1 <= Len(frames)
  <2>1. Len(frames') = Len(frames) - 1 /\ Len(frames) \in Nat \ {0}
    BY <1>1, <1>2, OperandsReturn DEF Return, Callers
  <2> QED  BY <2>1
<1>3. CASE PrefixMissing
  <2>1. crnt \in Token /\ frames # << >> /\ Advance /\ Return
    BY <1>3, RunningFacts DEF PrefixMissing
  <2> QED  BY <1>1, <1>2, <2>1, AdvanceLeft, FewerSteps
<1>4. CASE PrefixConstant \/ PrefixLiteral \/ PrefixGrouping \/ PrefixUnary
  <2>1. /\ crnt \in Token /\ frames # << >> /\ TopFrame \in Frame /\ Advance
        /\ PrefixRule(crnt) # "NULL" /\ TopFrame.fn = "get_precedence"
    BY <1>4, RunningFacts DEF PrefixConstant, PrefixLiteral, PrefixGrouping, PrefixUnary
  <2>2. crnt \in TextToken
    BY <2>1, RuleFacts, TokenFacts
  <2>3. Callers \in Seq(Frame) /\ Len(Callers) + 1 = Len(frames) /\ Len(frames) \in Nat
    BY <1>1, <2>1, OperandsReturn DEF Callers
  <2>4. Loop(TopFrame.prec) \in Frame
    BY <2>1, FrameFacts
  <2>5. Len(frames') <= Len(frames) + 2
    <3>1. CASE frames' = Append(Callers, Loop(TopFrame.prec))
      BY <2>3, <2>4, <3>1, AppendProperties
    <3>2. ASSUME NEW f, NEW g, NEW h, frames' = Callers \o <<f, g, h>>
          PROVE  Len(frames') = Len(Callers) + 3
      BY <2>3, <3>2
    <3>3. CASE PrefixGrouping
      <4>1. Len(frames') = Len(Callers) + 3
        BY <3>2, <3>3 DEF PrefixGrouping
      <4> QED  BY <2>3, <4>1
    <3>4. CASE PrefixUnary
      <4>1. Len(frames') = Len(Callers) + 3
        BY <3>2, <3>4 DEF PrefixUnary
      <4> QED  BY <2>3, <4>1
    <3> QED  BY <1>4, <3>1, <3>3, <3>4 DEF PrefixConstant, PrefixLiteral
  <2> QED  BY <1>1, <2>1, <2>2, <2>5, AdvanceLeft, FewerSteps
<1>5. CASE Infix
  <2>1. /\ crnt \in Token /\ frames # << >> /\ Advance /\ InfixRule(crnt) = "binary"
    BY <1>5, RunningFacts DEF Infix
  <2>2. crnt \in TextToken
    BY <2>1, RuleFacts, TokenFacts
  <2>3. ASSUME NEW f, NEW g, frames' = frames \o <<f, g>>
        PROVE  Len(frames') = Len(frames) + 2
    BY <1>1, <2>3
  <2>4. Len(frames') = Len(frames) + 2 /\ Len(frames) \in Nat
    BY <1>1, <1>5, <2>3, LenProperties DEF Infix
  <2>5. Len(frames') <= Len(frames) + 2
    BY <2>4
  <2> QED  BY <1>1, <2>1, <2>2, <2>5, AdvanceLeft, FewerSteps
<1>6. CASE LoopEnd \/ UnaryEnd \/ BinaryEnd
  <2>1. frames # << >> /\ Return /\ UNCHANGED <<crnt, streams>>
    BY <1>6, RunningFacts DEF LoopEnd, UnaryEnd, BinaryEnd, inputVars
  <2>2. /\ TokensLeft(crnt, streams) \in Nat
        /\ TokensLeft(crnt, streams)' = TokensLeft(crnt, streams)
    BY <1>1, <2>1, NotRead
  <2>3. TokensLeft(crnt, streams)' <= TokensLeft(crnt, streams)
    BY <2>2
  <2> QED  BY <1>1, <1>2, <2>1, <2>2, <2>3, FewerSteps
<1>7. CASE GroupingEnd \/ CompileEnd
  <2>1. crnt \in Token /\ frames # << >> /\ Return
    BY <1>7, RunningFacts DEF GroupingEnd, CompileEnd
  <2>2. PICK type : Consume(type)
    BY <1>7 DEF GroupingEnd, CompileEnd
  <2> QED  BY <1>1, <1>2, <2>1, <2>2, ConsumeLeft, FewerSteps
<1>8. CASE ConsumeEndOfFile
  <2>1. crnt \in Token /\ frames # << >> /\ Running("compile")
    BY <1>8, RunningFacts DEF ConsumeEndOfFile
  <2>2. Len(frames) \in Nat \ {0}
    BY <1>1, <2>1, EmptySeq, LenProperties
  <2>3. Len(frames') = 1 /\ ~Running("compile")'
    BY <1>8 DEF ConsumeEndOfFile, Running, TopFrame
  <2>4. Len(frames') <= Len(frames)
    BY <2>2, <2>3
  <2> QED
    BY <1>1, <1>8, <2>1, <2>3, <2>4, ConsumeLeft, FewerSteps DEF ConsumeEndOfFile
<1> QED
  BY <1>3, <1>4, <1>5, <1>6, <1>7, <1>8 DEF ParseStep

(* compile() comes back whatever the text: no sequence of its steps is     *)
(* longer than the number StepsLeft has when it starts.  No step of the    *)
(* recursion of expression.c, and no mismatch in consume(), leaves it as   *)
(* far from its return as it was.                                          *)
THEOREM ParsingTerminates == Spec => ParseAdvances
<1> DEFINE Advances ==
      ParseStep => StepsLeft \in Nat /\ StepsLeft' \in Nat /\ StepsLeft' < StepsLeft
<1>1. IndInv /\ IndInv' /\ [Next]_compilerVars => [Advances]_compilerVars
  BY ParseCloser DEF Closer
<1>2. Spec => [][Advances]_compilerVars
  <2> HIDE DEF Advances
  <2> QED  BY <1>1, Invariance, PTL DEF Spec
<1> QED  BY <1>2 DEF ParseAdvances

-----------------------------------------------------------------------------
(* A call in the loop of get_precedence() never goes through an empty      *)
(* entry of rules[]: its precedence is then at least 1, which no token     *)
(* without an infix rule has.                                              *)
InfixIsThere ==
  Running("get_precedence_loop") /\ TopFrame.prec <= RulePrec(crnt)
    => InfixRule(crnt) = "binary"

PrecFrame == {"get_precedence", "get_precedence_loop"}

Preceded(fs) ==
  \A i \in 1 .. Len(fs) : fs[i].fn \in PrecFrame => fs[i].prec >= PREC_ASSIGNMENT

LEMMA PrecededAppend ==
  ASSUME NEW fs \in Seq(Frame), Preceded(fs), NEW f \in Frame,
         f.fn \in PrecFrame => f.prec >= PREC_ASSIGNMENT
  PROVE  Preceded(Append(fs, f)) /\ Append(fs, f) \in Seq(Frame)
<1> DEFINE gs == Append(fs, f)
<1>1. /\ gs \in Seq(Frame)
      /\ Len(gs) = Len(fs) + 1
      /\ gs[Len(fs) + 1] = f
      /\ \A i \in 1 .. Len(fs) : gs[i] = fs[i]
      /\ Len(fs) \in Nat
  BY AppendProperties, LenProperties
<1> HIDE DEF gs
<1>2. Preceded(gs)
  BY <1>1 DEF Preceded
<1> QED  BY <1>1, <1>2 DEF gs

LEMMA PrecededTop ==
  ASSUME NEW fs \in Seq(Frame), Preceded(fs), fs # << >>
  PROVE  LET cs == SubSeq(fs, 1, Len(fs) - 1)
             f  == fs[Len(fs)]
         IN  /\ cs \in Seq(Frame) /\ Preceded(cs)
             /\ f \in Frame /\ (f.fn \in PrecFrame => f.prec >= PREC_ASSIGNMENT)
<1> DEFINE cs == SubSeq(fs, 1, Len(fs) - 1)
<1>1. /\ cs \in Seq(Frame) /\ fs[Len(fs)] \in Frame
      /\ Len(cs) = Len(fs) - 1 /\ Len(fs) \in Nat \ {0}
      /\ \A i \in 1 .. Len(fs) - 1 : cs[i] = fs[i]
  BY OperandsReturn
<1> HIDE DEF cs
<1>2. Preceded(cs) /\ (fs[Len(fs)].fn \in PrecFrame => fs[Len(fs)].prec >= PREC_ASSIGNMENT)
  BY <1>1 DEF Preceded
<1> QED  BY <1>1, <1>2 DEF cs

LEMMA PrecedenceFacts ==
  /\ \A p : Loop(p).prec = p /\ GetPrecedence(p).prec = p
  /\ Expression.fn = "get_precedence" /\ Expression.prec = 1
  /\ \A tok \in Token : InfixRule(tok) # "binary" => RulePrec(tok) = 0
  /\ PREC_ASSIGNMENT = 1 /\ PREC_UNARY = 8
BY DEF Loop, GetPrecedence, Expression, InfixRule, RulePrec, PREC_NONE,
       BinaryToken, ArithmeticToken, ComparisonToken, PREC_ASSIGNMENT, PREC_UNARY

LEMMA NextPreceded ==
  ASSUME IndInv, Preceded(frames), [Next]_compilerVars
  PROVE  Preceded(frames')
<1>1. frames \in Seq(Frame)
  BY DEF IndInv, TypeOK
<1>2. frames # << >>
        => /\ Callers \in Seq(Frame) /\ Preceded(Callers)
           /\ TopFrame \in Frame
           /\ TopFrame.fn \in PrecFrame => TopFrame.prec >= PREC_ASSIGNMENT
  BY <1>1, PrecededTop DEF Callers, TopFrame
<1>3. CASE Compile
  <2> DEFINE c == [fn |-> "compile"]
             e == Expression
  <2>1. c \in Frame /\ e \in Frame /\ c.fn = "compile" /\ e.prec = 1
    BY FrameFacts, PrecedenceFacts
  <2>2. frames' = <<c, e>>
    BY <1>3 DEF Compile
  <2> HIDE DEF c, e
  <2>3. Len(frames') = 2 /\ frames'[1] = c /\ frames'[2] = e
    BY <2>2
  <2> QED  BY <2>1, <2>3, PrecedenceFacts DEF Preceded, PrecFrame
<1>4. CASE PrefixMissing \/ LoopEnd \/ GroupingEnd \/ UnaryEnd \/ BinaryEnd \/ CompileEnd
  <2>1. frames # << >> /\ frames' = Callers
    BY <1>4 DEF PrefixMissing, LoopEnd, GroupingEnd, UnaryEnd, BinaryEnd, CompileEnd,
         Running, Return
  <2> QED  BY <1>2, <2>1
<1>5. ASSUME Running("get_precedence")
      PROVE  /\ TopFrame.prec \in Precedence /\ Loop(TopFrame.prec) \in Frame
             /\ Append(Callers, Loop(TopFrame.prec)) \in Seq(Frame)
             /\ Preceded(Append(Callers, Loop(TopFrame.prec)))
             /\ Callers \in Seq(Frame)
  <2>1. /\ frames # << >> /\ TopFrame \in Frame /\ TopFrame.fn = "get_precedence"
        /\ TopFrame.prec >= PREC_ASSIGNMENT
    BY <1>2, <1>5 DEF Running, PrecFrame
  <2>2. TopFrame.prec \in Precedence /\ Loop(TopFrame.prec) \in Frame
        /\ Loop(TopFrame.prec).prec >= PREC_ASSIGNMENT
    BY <2>1, FrameFacts, PrecedenceFacts
  <2> QED  BY <1>2, <2>1, <2>2, PrecededAppend
<1>6. CASE PrefixConstant \/ PrefixLiteral
  <2>1. Running("get_precedence") /\ frames' = Append(Callers, Loop(TopFrame.prec))
    BY <1>6 DEF PrefixConstant, PrefixLiteral
  <2> QED  BY <1>5, <2>1
<1>7. ASSUME NEW fs \in Seq(Frame), Preceded(fs), NEW f \in Frame, f.fn \notin PrecFrame,
             NEW g \in Frame, g.prec >= PREC_ASSIGNMENT
      PROVE  Preceded(Append(Append(fs, f), g))
  BY <1>7, PrecededAppend
<1>8. CASE PrefixGrouping
  <2>1. /\ Running("get_precedence")
        /\ frames' = Callers \o <<Loop(TopFrame.prec), [fn |-> "grouping"], Expression>>
    BY <1>8 DEF PrefixGrouping
  <2>2. frames' = Append(Append(Append(Callers, Loop(TopFrame.prec)),
                                [fn |-> "grouping"]), Expression)
    BY <1>5, <2>1, FrameFacts, PushThree
  <2>3. [fn |-> "grouping"] \in Frame /\ [fn |-> "grouping"].fn \notin PrecFrame
        /\ Expression \in Frame /\ Expression.prec >= PREC_ASSIGNMENT
    BY FrameFacts, PrecedenceFacts DEF PrecFrame
  <2> QED  BY <1>5, <1>7, <2>1, <2>2, <2>3
<1>9. CASE PrefixUnary
  <2> DEFINE f == [fn |-> "unary", type |-> crnt]
             g == GetPrecedence(PREC_UNARY)
  <2>1. /\ Running("get_precedence") /\ PrefixRule(crnt) = "unary"
        /\ frames' = Callers \o <<Loop(TopFrame.prec), f, g>>
    BY <1>9 DEF PrefixUnary
  <2>2. crnt \in UnaryToken
    BY <2>1, RunningFacts, RuleFacts
  <2>3. f \in Frame /\ f.fn \notin PrecFrame /\ g \in Frame /\ g.prec >= PREC_ASSIGNMENT
    BY <2>2, FrameFacts, PrecedenceFacts DEF PrecFrame
  <2> HIDE DEF f, g
  <2>4. frames' = Append(Append(Append(Callers, Loop(TopFrame.prec)), f), g)
    BY <1>5, <2>1, <2>3, PushThree
  <2> QED  BY <1>5, <1>7, <2>1, <2>3, <2>4
<1>10. CASE Infix
  <2> DEFINE f == [fn |-> "binary", type |-> crnt]
             g == GetPrecedence(RulePrec(crnt) + 1)
  <2>1. /\ Running("get_precedence_loop") /\ InfixRule(crnt) = "binary"
        /\ frames' = frames \o <<f, g>>
    BY <1>10 DEF Infix
  <2>2. crnt \in BinaryToken /\ RulePrec(crnt) \in 0 .. 7
    BY <2>1, RunningFacts, RuleFacts
  <2>3. RulePrec(crnt) + 1 \in Precedence /\ RulePrec(crnt) + 1 >= 1
    BY <2>2 DEF Precedence
  <2>4. f \in Frame /\ f.fn \notin PrecFrame /\ g \in Frame /\ g.prec >= PREC_ASSIGNMENT
    BY <2>2, <2>3, FrameFacts, PrecedenceFacts DEF PrecFrame
  <2> HIDE DEF f, g
  <2>5. frames' = Append(Append(frames, f), g)
    BY <1>1, <2>1, <2>4, PushTwo
  <2> QED  BY <1>1, <1>7, <2>4, <2>5
<1>11. CASE ConsumeEndOfFile
  BY <1>11 DEF ConsumeEndOfFile, Preceded, PrecFrame
<1>12. CASE Open \/ Interpreted \/ UNCHANGED compilerVars
  <2>1. frames' = frames
    BY <1>12 DEF Open, Interpreted, compilerVars, parserVars
  <2> QED  BY <2>1
<1> QED
  BY <1>3, <1>4, <1>6, <1>8, <1>9, <1>10, <1>11, <1>12 DEF Next, ParseStep

(* get_precedence() does not test what it finds in the infix column before *)
(* it calls it; it need not, whatever the tokens.                          *)
THEOREM InfixAlwaysThere == Spec => []InfixIsThere
<1> DEFINE P == Preceded(frames)
<1>1. Init => P
  BY DEF Init, Preceded
<1>2. IndInv /\ P /\ [Next]_compilerVars => P'
  BY NextPreceded DEF Preceded
<1>3. IndInv /\ P => InfixIsThere
  <2> SUFFICES ASSUME IndInv, P, Running("get_precedence_loop"),
                      TopFrame.prec <= RulePrec(crnt)
               PROVE  InfixRule(crnt) = "binary"
    BY DEF InfixIsThere
  <2>1. /\ frames \in Seq(Frame) /\ frames # << >> /\ crnt \in Token
        /\ TopFrame.fn = "get_precedence_loop"
    BY RunningFacts
  <2>2. TopFrame \in Frame /\ TopFrame.prec >= PREC_ASSIGNMENT
    BY <2>1, PrecededTop DEF TopFrame, PrecFrame
  <2>3. TopFrame.prec \in Nat
    <3>1. TopFrame.fn \in {"get_precedence", "get_precedence_loop"}
      BY <2>1
    <3>2. TopFrame.prec \in Precedence
      BY <2>2, <3>1, FrameFacts
    <3> QED  BY <3>2 DEF Precedence
  <2>4. RulePrec(crnt) # 0
    BY <2>1, <2>2, <2>3, RuleFacts, PrecedenceFacts
  <2> QED  BY <2>1, <2>4, PrecedenceFacts
<1> HIDE DEF P
<1> QED  BY <1>1, <1>2, <1>3, Invariance, PTL DEF Spec
=============================================================================
