---------------------------- MODULE SessionProofs ----------------------------
(***************************************************************************)
(* Proofs about Session, for every set of lines and any number of inputs.  *)
(*                                                                         *)
(* The machine executes what the compiler emitted, so the invariant reads  *)
(* the code of the current line back: B are the offsets at which an        *)
(* instruction begins, and the end; D is how many values are on the value  *)
(* stack before each.  The compiler counted them in `depth' as it emitted, *)
(* the machine counts them again as it executes.                           *)
(*                                                                         *)
(* The last part is about progress: what compile() and run_vmachine() have *)
(* still to do with a line becomes less with every step.                   *)
(***************************************************************************)
EXTENDS Session, CompilerProofs

Width(op)  == IF op = OP_CONSTANT THEN 2 ELSE 1
Effect(op) == IF op \in BinaryOp THEN -1 ELSE IF op \in LiteralOp \cup {OP_CONSTANT} THEN 1 ELSE 0
Needs(op)  == IF op \in BinaryOp THEN 2 ELSE IF op \in UnaryOp THEN 1 ELSE 0

InstructionAt(b, B, D) ==
  LET op == code[b + 1] IN
  /\ op \in 0 .. OP_RETURN
  /\ b + Width(op) \in B
  /\ D[b + Width(op)] = D[b] + Effect(op)
  /\ ~hadError => D[b] >= Needs(op)
  /\ op = OP_CONSTANT =>
       /\ b + 1 \notin B
       /\ code[b + 2] < Len(constants)
       /\ phase # "compiling" => b + 2 < Len(code)
  /\ op = OP_RETURN <=> phase # "compiling" /\ b = Len(code) - 1

Decoded(B, D) ==
  /\ B \subseteq start .. Len(code)
  /\ D \in [B -> Int]
  /\ start \in B /\ D[start] = 0
  /\ Len(code) \in B /\ D[Len(code)] = depth
  /\ \A b \in B : b < Len(code) => InstructionAt(b, B, D)
  /\ ~hadError => \A b \in B : b > start => D[b] >= 1

-----------------------------------------------------------------------------
LEMMA OpNumbers == OP_CONSTANT = 0 /\ OP_RETURN = 17
BY DEF OP_CONSTANT, OP_RETURN

LEMMA OpClasses ==
  /\ BinaryOp = (1 .. 5) \cup (11 .. 16) /\ UnaryOp = {6, 10} /\ LiteralOp = {7, 8, 9}
  /\ OP_NEG = 6 /\ OP_NOT = 10
BY DEF LiteralOp, UnaryOp, BinaryOp, ArithmeticOp, ComparisonOp, OP_ADD, OP_MOD, OP_NEG,
       OP_NOTHING, OP_TRUE, OP_FALSE, OP_NOT, OP_EQUALITY, OP_GTE

LEMMA OpFacts ==
  ASSUME NEW op \in 0 .. 17
  PROVE  /\ Width(op) = IF op = 0 THEN 2 ELSE 1
         /\ Effect(op) \in -1 .. 1 /\ Needs(op) \in 0 .. 2
         /\ op # 17 => Needs(op) + Effect(op) = 1
         /\ op = 17 => Needs(op) = 0 /\ Effect(op) = 0
         /\ op = 0 => Needs(op) = 0
         /\ op \in BinaryOp => op \in 1 .. 16 /\ Needs(op) = 2
         /\ op \in UnaryOp => op \in 1 .. 16 /\ Needs(op) = 1
         /\ op \in LiteralOp => op \in 1 .. 16 /\ Needs(op) = 0
         /\ op \in 1 .. 16 => op \in BinaryOp \cup UnaryOp \cup LiteralOp
BY OpNumbers, OpClasses DEF Width, Effect, Needs

(* What a step of a parse function does to the code.                       *)
Parsed     == UNCHANGED <<blockVars, depth, phase>>
Appended(op) ==
  /\ code' = Append(code, op)
  /\ constants' = constants
  /\ depth' = depth + Effect(op)
  /\ ~hadError => depth >= Needs(op)
  /\ phase' = phase
AppendedConstant ==
  /\ \E type \in ValueType : EmitConstant(type)
  /\ depth' = depth + 1
  /\ phase' = phase
AppendedReturn ==
  /\ code' = Append(code, OP_RETURN)
  /\ constants' = constants
  /\ depth' = depth
  /\ ~hadError' => depth = 1
  /\ phase' = "compiled"

LEMMA ParseStepEffect ==
  ASSUME IndInv, ParseStep
  PROVE  /\ phase = "compiling" /\ start' = start /\ (hadError => hadError')
         /\ \/ Parsed
            \/ \E op \in 1 .. 16 : Appended(op)
            \/ AppendedConstant
            \/ AppendedReturn
<1>1. IndInv' /\ BlockTypeOK /\ depth \in Int /\ hadError \in BOOLEAN
  BY NextIndInv DEF Next, IndInv, TypeOK
<1>2. phase = "compiling"
  BY RunningFacts DEF ParseStep, PrefixMissing, PrefixConstant, PrefixLiteral, PrefixGrouping,
     PrefixUnary, Infix, LoopEnd, GroupingEnd, UnaryEnd, BinaryEnd, ConsumeEndOfFile, CompileEnd
<1>3. start' = start
  BY DEF ParseStep, PrefixMissing, PrefixConstant, PrefixLiteral, PrefixGrouping, SameInput,
     PrefixUnary, Infix, LoopEnd, GroupingEnd, UnaryEnd, BinaryEnd, ConsumeEndOfFile, CompileEnd
<1>4. hadError => hadError'
  BY <1>1 DEF Consume,
     ParseStep, PrefixMissing, PrefixConstant, PrefixLiteral, PrefixGrouping,
     PrefixUnary, Infix, LoopEnd, GroupingEnd, UnaryEnd, BinaryEnd, ConsumeEndOfFile, CompileEnd
<1>5. ASSUME NEW op \in UnaryOp \cup BinaryOp, code' = Append(code, op), ~hadError
      PROVE  depth >= Needs(op)
  <2>1. depth >= (IF op \in BinaryOp THEN 2 ELSE 1)
    BY <1>5, OperandsStep DEF Next
  <2> QED  BY <2>1, OpClasses DEF Needs
<1>6. CASE PrefixMissing \/ PrefixGrouping \/ PrefixUnary \/ Infix \/ LoopEnd \/ GroupingEnd
           \/ ConsumeEndOfFile
  <2>1. Parsed
    BY <1>6 DEF PrefixMissing, PrefixGrouping, PrefixUnary, Infix, LoopEnd, GroupingEnd,
       ConsumeEndOfFile, EmitNothing, SameInput, Parsed
  <2> QED  BY <1>2, <1>3, <1>4, <2>1
<1>7. CASE PrefixConstant
  <2>1. AppendedConstant
    BY <1>7, OpcodeFacts DEF PrefixConstant, SameInput, AppendedConstant
  <2> QED  BY <1>2, <1>3, <1>4, <2>1
<1>8. CASE PrefixLiteral
  <2>1. PICK op \in LiteralOp : EmitOpcode(op) /\ depth' = depth + 1 /\ phase' = phase
    BY <1>8, OpcodeFacts DEF PrefixLiteral, SameInput, Emit
  <2>2. ~hadError => depth >= 0
    <3>1. depth = Expected(frames) \/ hadError
      BY <1>8, RunningFacts DEF IndInv, StackInv, PrefixLiteral
    <3>2. Expected(frames) \in Nat
      BY <1>8, OperandStep DEF PrefixLiteral
    <3> QED  BY <3>1, <3>2
  <2>3. Appended(op) /\ op \in 1 .. 16
    BY <2>1, <2>2, OpFacts, OpClasses DEF Appended, EmitOpcode
  <2> QED  BY <1>2, <1>3, <1>4, <2>3
<1>9. CASE UnaryEnd
  <2>1. PICK op \in UnaryOp : EmitOpcode(op) /\ depth' = depth + 0 /\ phase' = phase
    BY <1>9, OpcodeFacts DEF UnaryEnd, SameInput, Emit
  <2>2. op \in 1 .. 16 /\ depth' = depth + Effect(op)
    <3>1. op \in 1 .. 16 /\ op \in 0 .. 17
      BY <2>1, OpClasses
    <3>2. Needs(op) = 1 /\ Needs(op) + Effect(op) = 1 /\ Effect(op) \in Int
      BY <2>1, <3>1, OpFacts
    <3> QED  BY <1>1, <2>1, <3>1, <3>2
  <2>3. ~hadError => depth >= Needs(op)
    BY <1>5, <2>1 DEF EmitOpcode
  <2>4. code' = Append(code, op) /\ constants' = constants
    BY <2>1 DEF EmitOpcode
  <2>5. Appended(op)
    BY <2>1, <2>2, <2>3, <2>4 DEF Appended
  <2> QED  BY <1>2, <1>3, <1>4, <2>2, <2>5
<1>10. CASE BinaryEnd
  <2>1. PICK op \in BinaryOp : EmitOpcode(op) /\ depth' = depth - 1 /\ phase' = phase
    BY <1>10, OpcodeFacts DEF BinaryEnd, SameInput, Emit
  <2>2. depth' = depth + Effect(op) /\ op \in 1 .. 16
    BY <1>1, <2>1, OpClasses DEF Effect
  <2>3. Appended(op)
    BY <1>5, <2>1, <2>2 DEF Appended, EmitOpcode
  <2> QED  BY <1>2, <1>3, <1>4, <2>2, <2>3
<1>11. CASE CompileEnd
  <2>1. EmitOpcode(OP_RETURN) /\ depth' = depth /\ phase' = "compiled"
    BY <1>1, <1>11 DEF CompileEnd, Emit
  <2>2. ~hadError' => depth' = 1
    BY <1>1, <2>1 DEF IndInv, StackInv
  <2>3. AppendedReturn
    BY <2>1, <2>2 DEF AppendedReturn, EmitOpcode
  <2> QED  BY <1>2, <1>3, <1>4, <2>3
<1> QED  BY <1>2, <1>3, <1>4, <1>6, <1>7, <1>8, <1>9, <1>10, <1>11 DEF ParseStep

-----------------------------------------------------------------------------
(* The code that was read back can be read back later. *)
LEMMA DecodedStays ==
  ASSUME NEW B, NEW D, Decoded(B, D), UNCHANGED <<code, constants, depth, start>>,
         hadError => hadError', (phase = "compiling") <=> (phase' = "compiling")
  PROVE  Decoded(B, D)'
<1>1. \A b : InstructionAt(b, B, D) => InstructionAt(b, B, D)'
  BY DEF InstructionAt
<1> QED  BY <1>1 DEF Decoded

(* ... and when one more instruction is emitted. *)
Extended ==
  LET op == code'[Len(code) + 1] IN
  /\ \A i \in 1 .. Len(code) : code'[i] = code[i]
  /\ op \in 0 .. OP_RETURN
  /\ Len(code') = Len(code) + Width(op)
  /\ Len(constants) <= Len(constants')
  /\ depth' = depth + Effect(op)
  /\ ~hadError' => depth >= Needs(op) /\ depth' >= 1
  /\ op = OP_CONSTANT => code'[Len(code) + 2] < Len(constants') /\ phase' = "compiling"
  /\ op = OP_RETURN <=> phase' # "compiling"
  /\ phase = "compiling" /\ start' = start /\ (hadError => hadError')

LEMMA DecodedExtends ==
  ASSUME BlockTypeOK, BlockTypeOK', depth \in Int, depth' \in Int, start \in Nat,
         NEW B, NEW D, Decoded(B, D), Extended
  PROVE  \E B2, D2 : B2 = B \cup {Len(code')} /\ Decoded(B2, D2)'
<1>1. /\ Len(code) \in Nat /\ Len(code') \in Nat /\ Len(constants) \in Nat /\ Len(constants') \in Nat
      /\ \A i \in 1 .. Len(code) : code[i] \in Int
      /\ \A i \in 1 .. Len(code') : code'[i] \in Int
  BY WordSizeAssumption, ElementOfSeq, LenProperties DEF BlockTypeOK
<1>2. /\ B \subseteq start .. Len(code) /\ D \in [B -> Int]
      /\ start \in B /\ D[start] = 0 /\ Len(code) \in B /\ D[Len(code)] = depth
      /\ \A b \in B : b < Len(code) => InstructionAt(b, B, D)
      /\ ~hadError => \A b \in B : b > start => D[b] >= 1
  BY DEF Decoded
<1>3. PICK L, e, op : L = Len(code') /\ e = depth' /\ op = code'[Len(code) + 1]
  OBVIOUS
<1> DEFINE B2 == B \cup {L}
           D2 == [b \in B2 |-> IF b = L THEN e ELSE D[b]]
<1>4. /\ op \in 0 .. 17 /\ L = Len(code) + Width(op) /\ Width(op) = IF op = 0 THEN 2 ELSE 1
      /\ e = depth + Effect(op) /\ Effect(op) \in Int /\ Needs(op) \in Nat
      /\ L \in Nat /\ L > Len(code)
  <2>1. op \in 0 .. 17
    BY <1>3, OpNumbers DEF Extended
  <2>2. /\ Width(op) = IF op = 0 THEN 2 ELSE 1
        /\ Effect(op) \in Int /\ Needs(op) \in Nat
    BY <2>1, OpFacts
  <2>3. L = Len(code) + Width(op) /\ e = depth + Effect(op)
    BY <1>3 DEF Extended
  <2> QED  BY <1>1, <1>3, <2>1, <2>2, <2>3
<1>5. \A b \in B : b < L /\ b \in Nat /\ b <= Len(code)
  <2>1. \A b \in B : b \in start .. Len(code)
    BY <1>2
  <2> QED  BY <1>1, <1>4, <2>1
<1>6. D2 \in [B2 -> Int] /\ D2[L] = e /\ \A b \in B : D2[b] = D[b]
  <2>1. e \in Int
    BY <1>3
  <2>2. \A b \in B : D[b] \in Int /\ b # L
    BY <1>2, <1>4, <1>5
  <2>3. \A b \in B2 : (IF b = L THEN e ELSE D[b]) \in Int
    BY <2>1, <2>2
  <2> QED  BY <2>2, <2>3
<1>7. B2 \subseteq start .. L
  <2>1. L \in start .. L
    BY <1>1, <1>2, <1>4
  <2>2. \A b \in B : b \in start .. L
    BY <1>1, <1>2, <1>4
  <2> QED  BY <2>1, <2>2
<1> HIDE DEF B2, D2
<1>8. B \subseteq B2 /\ L \in B2 /\ \A b \in B2 : b \in B \/ b = L
  BY DEF B2
<1>9. ASSUME NEW b \in B2, b < L
      PROVE  InstructionAt(b, B2, D2)'
  <2>1. b \in B /\ b \in Nat /\ b <= Len(code)
    BY <1>4, <1>5, <1>8, <1>9
  <2>2. CASE b < Len(code)
    <3>1. InstructionAt(b, B, D) /\ code'[b + 1] = code[b + 1] /\ code[b + 1] \in 0 .. 17
      BY <1>1, <1>2, <2>1, <2>2, OpNumbers DEF Extended, InstructionAt
    <3>2. PICK w : w = Width(code[b + 1]) /\ w = IF code[b + 1] = 0 THEN 2 ELSE 1
      BY <3>1, OpFacts
    <3>3. b + w \in B /\ b + w \in B2 /\ D2[b + w] = D2[b] + Effect(code[b + 1])
          /\ b + w <= Len(code)
      BY <1>5, <1>6, <1>8, <2>1, <3>1, <3>2 DEF InstructionAt
    <3>4. ~hadError' => D2[b] >= Needs(code[b + 1])
      BY <1>6, <2>1, <3>1 DEF InstructionAt, Extended
    <3>5. ASSUME code[b + 1] = OP_CONSTANT
          PROVE  /\ b + 1 \notin B2 /\ code'[b + 2] < Len(constants') /\ b + 2 < Len(code')
      <4>1. b + 2 <= Len(code) /\ b + 1 # L
        <5>1. b + 2 <= Len(code)
          BY <3>2, <3>3, <3>5, OpNumbers
        <5> QED  BY <1>1, <1>4, <2>1, <5>1
      <4>2. b + 1 \notin B2
        BY <1>8, <3>1, <3>5, <4>1 DEF InstructionAt
      <4>3. code'[b + 2] = code[b + 2] /\ code[b + 2] \in Int /\ code[b + 2] < Len(constants)
        BY <1>1, <2>1, <3>1, <3>5, <4>1 DEF InstructionAt, Extended
      <4>4. Len(constants) <= Len(constants')
        BY DEF Extended
      <4>5. code'[b + 2] < Len(constants')
        BY <1>1, <4>3, <4>4
      <4>6. b + 2 < Len(code')
        BY <1>1, <1>3, <1>4, <2>1, <4>1
      <4> QED  BY <4>2, <4>5, <4>6
    <3>6. code[b + 1] # OP_RETURN /\ b # Len(code') - 1
      BY <1>1, <1>3, <1>4, <2>1, <2>2, <3>1 DEF InstructionAt, Extended
    <3> QED  BY <3>1, <3>2, <3>3, <3>4, <3>5, <3>6, OpNumbers DEF InstructionAt
  <2>3. CASE b = Len(code)
    <3>1. D2[b] = depth
      BY <1>2, <1>6, <2>3
    <3>2. op = 0 => b + 1 \notin B2 /\ L = b + 2
      <4>1. op = 0 => L = b + 2
        BY <1>1, <1>4, <2>3
      <4>2. \A x \in B2 : x <= b \/ x = L
        BY <1>5, <1>8, <2>3
      <4> QED  BY <1>1, <2>3, <4>1, <4>2
    <3>3. op = 17 => b = L - 1
      BY <1>1, <1>4, <2>3
    <3>4. b + Width(op) = L
      BY <1>4, <2>3
    <3> QED  BY <1>3, <1>4, <1>6, <1>8, <2>3, <3>1, <3>2, <3>3, <3>4, OpNumbers
             DEF InstructionAt, Extended
  <2> QED  BY <1>1, <2>1, <2>2, <2>3
<1>10. ~hadError' => \A b \in B2 : b > start => D2[b] >= 1
  BY <1>2, <1>3, <1>6, <1>8 DEF Extended
<1>11. Decoded(B2, D2)'
  <2>1. start' = start /\ D2[start] = 0 /\ start \in B2
    BY <1>2, <1>6, <1>8 DEF Extended
  <2> QED  BY <1>3, <1>6, <1>7, <1>8, <1>9, <1>10, <2>1 DEF Decoded
<1> QED  BY <1>3, <1>11 DEF B2

(* Every step of a parse function but those that emit nothing extends the  *)
(* code by an instruction.                                                 *)
LEMMA ParseStepExtends ==
  ASSUME IndInv, ParseStep, NEW B, NEW D, Decoded(B, D), ~Parsed
  PROVE  Extended
<1>1. IndInv' /\ BlockTypeOK /\ BlockTypeOK' /\ depth \in Int /\ hadError \in BOOLEAN
      /\ depth' \in Int
  BY NextIndInv DEF Next, IndInv, TypeOK
<1>2. /\ Len(code) \in Nat /\ Len(constants) \in Nat
      /\ WordSize \in Nat /\ WordSize > 17
  BY <1>1, WordSizeAssumption, OpNumbers DEF BlockTypeOK
<1>3. /\ phase = "compiling" /\ start' = start /\ (hadError => hadError')
      /\ (\E op \in 1 .. 16 : Appended(op)) \/ AppendedConstant \/ AppendedReturn
  BY ParseStepEffect
<1>4. ~hadError => depth >= 0
  <2>1. start \in Int /\ Len(code) >= start
        /\ (Len(code) = start => depth = 0) /\ (~hadError /\ Len(code) > start => depth >= 1)
    BY <1>2 DEF Decoded, IndInv, TypeOK
  <2> QED  BY <1>1, <1>2, <2>1
<1>5. ASSUME NEW op \in 1 .. 16, Appended(op) PROVE Extended
  <2>1. /\ Len(code') = Len(code) + 1 /\ code'[Len(code) + 1] = op
        /\ \A i \in 1 .. Len(code) : code'[i] = code[i]
    BY <1>1, <1>5, AppendProperties DEF Appended, BlockTypeOK
  <2>2. ~hadError => depth + Effect(op) >= 1 /\ depth >= Needs(op)
    <3>1. Effect(op) \in Int /\ Needs(op) \in Int /\ Needs(op) + Effect(op) = 1
      BY OpFacts
    <3>2. ~hadError => depth >= Needs(op)
      BY <1>5 DEF Appended
    <3> QED  BY <1>1, <3>1, <3>2
  <2>3. depth' = depth + Effect(op) /\ constants' = constants /\ phase' = phase
        /\ Width(op) = 1 /\ op # OP_CONSTANT /\ op # OP_RETURN
    <3>1. depth' = depth + Effect(op) /\ constants' = constants /\ phase' = phase
      BY <1>5 DEF Appended
    <3>2. op # OP_CONSTANT /\ op # OP_RETURN
      BY OpNumbers
    <3> QED  BY <3>1, <3>2 DEF Width
  <2> QED  BY <1>1, <1>2, <1>3, <2>1, <2>2, <2>3, OpNumbers DEF Extended
<1>6. CASE AppendedConstant
  <2>1. PICK type \in ValueType : EmitConstant(type)
    BY <1>6 DEF AppendedConstant
  <2>2. PICK i : i = Len(constants) % WordSize
    OBVIOUS
  <2>3. i \in 0 .. Len(constants)
    BY <1>2, <2>2
  <2>4. code' = code \o <<OP_CONSTANT, i>> /\ constants' = Append(constants, type)
    BY <2>1, <2>2 DEF EmitConstant
  <2>5. /\ Len(code') = Len(code) + 2 /\ code'[Len(code) + 1] = OP_CONSTANT
        /\ code'[Len(code) + 2] = i
        /\ \A j \in 1 .. Len(code) : code'[j] = code[j]
        /\ Len(constants') = Len(constants) + 1
    BY <1>1, <2>4 DEF BlockTypeOK
  <2>6. Width(OP_CONSTANT) = 2 /\ Effect(OP_CONSTANT) = 1 /\ Needs(OP_CONSTANT) = 0
        /\ OP_CONSTANT # OP_RETURN /\ OP_CONSTANT \in 0 .. OP_RETURN
    BY OpFacts, OpNumbers
  <2> QED  BY <1>1, <1>2, <1>3, <1>4, <1>6, <2>3, <2>5, <2>6 DEF Extended, AppendedConstant
<1>7. CASE AppendedReturn
  <2>1. /\ Len(code') = Len(code) + 1 /\ code'[Len(code) + 1] = OP_RETURN
        /\ \A i \in 1 .. Len(code) : code'[i] = code[i]
    BY <1>1, <1>7, AppendProperties DEF AppendedReturn, BlockTypeOK
  <2>2. Width(OP_RETURN) = 1 /\ Effect(OP_RETURN) = 0 /\ Needs(OP_RETURN) = 0
        /\ OP_CONSTANT # OP_RETURN /\ OP_RETURN \in 0 .. OP_RETURN
    BY OpFacts, OpNumbers
  <2> QED  BY <1>1, <1>2, <1>3, <1>7, <2>1, <2>2 DEF Extended, AppendedReturn
<1> QED  BY <1>3, <1>5, <1>6, <1>7

-----------------------------------------------------------------------------
(* What the conversions make of two operands that are values, and of two   *)
(* that are stored in the member of the union that their tag names.        *)
Tagged(val) == SameRep(val.rep, RepOf(val.type))

LEMMA RepFacts ==
  ASSUME NEW type \in ValueType
  PROVE  /\ RepOf(type) \in Rep /\ RepOf(type) # "null_obj"
         /\ NewValue(type) \in Value /\ NewValue(type).type = type
         /\ NewValue(type).rep = RepOf(type) /\ Tagged(NewValue(type))
         /\ RepOf(type) = "obj" => type = "VAL_OBJ"
BY DEF RepOf, Rep, ValueType, NewValue, Value, Tagged, SameRep

LEMMA ConversionFacts ==
  ASSUME NEW val \in Value, NEW to \in ValueType \ {"VAL_NOTHING"}, NEW new \in ConvValue(val, to)
  PROVE  /\ new \in Value
         /\ Tagged(val) /\ to = val.type => new = val
         /\ to \in {"VAL_BOOL", "VAL_FNUM"} /\ val.type = "VAL_INUM" => new.rep = RepOf(to)
         /\ to = "VAL_OBJ" /\ val.type # "VAL_OBJ" => new.rep = "obj"
<1>1. /\ val.type \in ValueType /\ val.rep \in Rep /\ NewValue(to) \in Value
      /\ [val EXCEPT !.type = to] \in Value
      /\ [val EXCEPT !.rep = "fnum"] \in Value /\ [val EXCEPT !.rep = "bval"] \in Value
      /\ val.type = to => [val EXCEPT !.type = to] = val
  BY RepFacts DEF Value, Rep
<1>2. NewValue(to).rep = RepOf(to)
  BY DEF NewValue
<1>3. CASE to \in {"VAL_INUM", "VAL_UNUM"}
  BY <1>1, <1>2, <1>3 DEF ConvValue, ConvObjToVal, Number, ValueType
<1>4. CASE to = "VAL_FNUM"
  BY <1>1, <1>2, <1>4 DEF ConvValue, ConvObjToVal, RepOf, ValueType, Value
<1>5. CASE to = "VAL_BOOL"
  BY <1>1, <1>2, <1>5 DEF ConvValue, ConvObjToVal, RepOf, Number, ValueType, Value
<1>6. CASE to = "VAL_OBJ"
  BY <1>1, <1>2, <1>6 DEF ConvValue, ConvValToObj, NewValue, RepOf
<1> QED  BY <1>3, <1>4, <1>5, <1>6 DEF ValueType

LEMMA NormalizationFacts ==
  ASSUME NEW val1 \in Value, NEW val2 \in Value, ~NormalizationDenied(val1, val2),
         NEW n \in NormalizeOperands(val1, val2)
  PROVE  /\ n \in Value \X Value \X ValueType /\ n[3] # "VAL_NOTHING"
         /\ Tagged(val1) => SameRep(n[1].rep, RepOf(n[3]))
         /\ Tagged(val1) /\ Tagged(val2) /\ n[3] = "VAL_OBJ"
              => n[1].rep = "obj" /\ n[2].rep = "obj"
<1> DEFINE t1 == val1.type
           t2 == val2.type
<1>1. PICK which, to : which = Normalization(t1, t2)[1] /\ to = Normalization(t1, t2)[2]
  OBVIOUS
<1>2. /\ t1 \in ValueType \ {"VAL_NOTHING"} /\ t2 \in ValueType
      /\ val1.rep \in Rep /\ val2.rep \in Rep
  BY DEF NormalizationDenied, Value
<1>3. /\ which \in {0, 1, 2} /\ to \in ValueType \ {"VAL_NOTHING"}
      /\ which \in {0, 2} => to = t1
      /\ which = 1 => to = t1 \/ (t1 = "VAL_INUM" /\ to \in {"VAL_BOOL", "VAL_FNUM"})
      /\ to = "VAL_OBJ" => t1 = "VAL_OBJ" /\ which \in {0, 2}
      /\ to = "VAL_OBJ" /\ which = 0 => t2 = "VAL_OBJ"
      /\ to = "VAL_OBJ" /\ which = 2 => t2 # "VAL_OBJ"
  BY <1>1, <1>2 DEF Normalization, ObjectOnLeft, BoolOnLeft, SignedOnLeft,
     UnsignedOrFloatOnLeft, ValueType
<1>4. /\ which = 0 => n = <<val1, val2, to>>
      /\ which = 1 => \E val \in ConvValue(val1, to) : n = <<val, val2, to>>
      /\ which = 2 => \E val \in ConvValue(val2, to) : n = <<val1, val, to>>
  BY <1>1, <1>3 DEF NormalizeOperands
<1>5. \A val \in Value : Tagged(val) /\ val.type = "VAL_OBJ" => val.rep = "obj"
  BY DEF Tagged, SameRep, RepOf
<1>6. CASE which = 0
  BY <1>2, <1>3, <1>4, <1>5, <1>6 DEF Tagged
<1>7. CASE which = 1
  <2>1. PICK val \in ConvValue(val1, to) : n = <<val, val2, to>>
    BY <1>4, <1>7
  <2>2. val \in Value /\ (Tagged(val1) => SameRep(val.rep, RepOf(to)))
    BY <1>2, <1>3, <1>7, <2>1, ConversionFacts DEF Tagged, SameRep
  <2> QED  BY <1>3, <1>7, <2>1, <2>2
<1>8. CASE which = 2
  <2>1. PICK val \in ConvValue(val2, to) : n = <<val1, val, to>>
    BY <1>4, <1>8
  <2>2. val \in Value /\ (to = "VAL_OBJ" => val.rep = "obj")
    BY <1>2, <1>3, <1>8, <2>1, ConversionFacts
  <2> QED  BY <1>2, <1>3, <1>5, <1>8, <2>1, <2>2 DEF Tagged
<1> QED  BY <1>3, <1>6, <1>7, <1>8

LEMMA ResultFacts ==
  ASSUME NEW op \in BinaryOp, NEW type \in ValueType
  PROVE  BinaryResult(op, type) \in Value
           /\ (Tagged(BinaryResult(op, type)) \/ BinaryResult(op, type).rep = "null_obj")
<1>1. NewValue(type) \in Value /\ Tagged(NewValue(type))
      /\ NewValue("VAL_BOOL") \in Value /\ Tagged(NewValue("VAL_BOOL"))
  BY RepFacts DEF ValueType
<1>2. [type |-> type, rep |-> "null_obj"] \in Value
  BY DEF Value, Rep
<1>3. op \in ComparisonOp \/ op = OP_ADD \/ op \in ArithmeticOp \ {OP_ADD}
  BY DEF BinaryOp
<1> QED  BY <1>1, <1>2, <1>3 DEF BinaryResult

-----------------------------------------------------------------------------
(* Where the machine is, at each place of interpret() and its callers. *)
Control ==
  /\ Len(pool) = Len(constants)
  /\ vmstate \in {"running", "returned"} => phase = "compiled"
  /\ phase \in {"ready", "opened", "exited"} => lastIp = Len(code)
  /\ phase = "compiling" => lastIp = start /\ vstack = << >>
  /\ phase = "compiled" /\ vmstate = "idle" => vstack = << >>
  /\ phase = "compiled" /\ vmstate \in {"idle", "running"} => lastIp = start /\ start < Len(code)
  /\ phase = "compiled" /\ vmstate = "returned" => lastIp = Len(code)
  /\ fault = "null_value" => hadError
  /\ fault # "none" => vmstate = "crashed"

(* The stack holds what the compiler counted, as long as it could count. *)
RunPart(B, D) ==
  /\ vmstate = "running" =>
       ip \in B /\ ip < Len(code) /\ (~hadError => Len(vstack) = D[ip])
  /\ vmstate = "returned" /\ ~hadError => Len(vstack) = 1

Known(B, D) == IndInv /\ VMTypeOK /\ Control /\ Decoded(B, D) /\ RunPart(B, D)

LEMMA TypeFacts ==
  ASSUME IndInv, VMTypeOK
  PROVE  /\ BlockTypeOK /\ start \in Nat /\ depth \in Int /\ hadError \in BOOLEAN
         /\ Len(code) \in Nat /\ Len(constants) \in Nat /\ Len(heap) \in Nat
         /\ Len(pool) \in Nat /\ Len(vstack) \in Nat /\ ip \in Nat
         /\ Cell = 1 .. Len(heap)
         /\ \A i \in 1 .. Len(code) : code[i] \in Nat
         /\ \A c \in Cell : heap[c] \in Value
         /\ \A i \in 1 .. Len(pool) : pool[i] \in Cell
         /\ \A i \in 1 .. Len(vstack) : vstack[i] \in Cell
         /\ phase = "compiled" /\ ~hadError => depth = 1
<1>1. /\ BlockTypeOK /\ start \in Nat /\ depth \in Int /\ hadError \in BOOLEAN
      /\ phase = "compiled" /\ ~hadError => depth = 1
  BY DEF IndInv, TypeOK, StackInv
<1>2. WordSize \in Nat
  BY WordSizeAssumption
<1> QED  BY <1>1, <1>2, LenProperties, ElementOfSeq DEF BlockTypeOK, VMTypeOK, Cell

LEMMA ReadInputKnown ==
  ASSUME NEW B, NEW D, Known(B, D), ReadInput
  PROVE  Known(B, D)'
<1>1. /\ UNCHANGED vmVars /\ UNCHANGED <<code, constants, depth, start, hadError>>
      /\ vmstate = "idle" /\ phase = "ready" /\ phase' \in {"opened", "exited"}
  BY DEF ReadInput, Open, history, blockVars, parserVars
<1>2. IndInv'
  BY NextIndInv DEF Known, ReadInput, Next
<1>3. VMTypeOK'
  BY <1>1 DEF Known, VMTypeOK, vmVars, Cell
<1>4. Control' /\ RunPart(B, D)'
  BY <1>1 DEF Known, Control, RunPart, vmVars
<1>5. Decoded(B, D)'
  BY <1>1, DecodedStays DEF Known
<1> QED  BY <1>2, <1>3, <1>4, <1>5 DEF Known

LEMMA InterpretKnown ==
  ASSUME NEW B, NEW D, Known(B, D), Interpret
  PROVE  /\ vmstate = "idle" /\ vstack' = << >> /\ heap' = heap /\ pool' = pool
         /\ constants' = constants /\ operands' = operands
         /\ fault' \in {fault, "double_free"}
         /\ \/ vmstate' = "crashed" /\ UNCHANGED compilerVars /\ Known(B, D)'
            \/ \E B2, D2 : /\ B2 = {Len(code')} /\ vmstate' = "idle" /\ phase' = "compiling"
                           /\ Known(B2, D2)'
<1>1. /\ phase = "opened" /\ vmstate = "idle" /\ vstack' = << >>
      /\ UNCHANGED <<heap, pool, lastIp, ip, operands>>
      /\ freed' = freed \cup Elements(vstack)
      /\ fault' \in {fault, "double_free"}
      /\ fault' # fault => vmstate' = "crashed"
      /\ vmstate' \in {"idle", "crashed"}
  BY DEF Interpret, Reset, Alive, Known, Control, VMTypeOK, vmControl
<1>2. VMTypeOK' \/ code' # code
  <2>1. Elements(vstack) \subseteq Cell
    BY ElementOfSeq, LenProperties DEF Known, VMTypeOK, Elements
  <2> QED  BY <1>1, <2>1 DEF Known, VMTypeOK, Cell, Fault
<1>3. CASE vmstate' = "crashed"
  <2>1. UNCHANGED compilerVars /\ UNCHANGED <<code, constants, depth, start, hadError, phase>>
    BY <1>3 DEF Interpret, compilerVars, blockVars, history, parserVars
  <2>2. IndInv'
    BY <2>1, NextIndInv DEF Known
  <2>3. Control' /\ RunPart(B, D)'
    BY <1>1, <1>3, <2>1 DEF Known, Control, RunPart
  <2>4. Decoded(B, D)'
    BY <2>1, DecodedStays DEF Known
  <2> QED  BY <1>1, <1>2, <1>3, <2>1, <2>2, <2>3, <2>4 DEF Known
<1>4. CASE vmstate' # "crashed"
  <2>1. Compile /\ vmstate' = "idle"
    BY <1>1, <1>4 DEF Interpret
  <2>2. /\ phase' = "compiling" /\ hadError' = FALSE /\ depth' = 0 /\ start' = Len(code)
        /\ code' = code /\ constants' = constants
    BY <2>1 DEF Compile, blockVars
  <2>3. IndInv'
    BY <2>1, NextIndInv DEF Known, Next
  <2>4. PICK L : L = Len(code')
    OBVIOUS
  <2> DEFINE B2 == {L}
             D2 == [b \in {L} |-> 0]
  <2>5. Decoded(B2, D2)'
    BY <2>2, <2>4, TypeFacts DEF Known, Decoded
  <2>6. Control' /\ RunPart(B2, D2)'
    <3>1. fault' = fault /\ fault = "none"
      BY <1>1, <1>4 DEF Known, Control
    <3>2. lastIp' = start' /\ Len(pool') = Len(constants')
      BY <1>1, <2>2 DEF Known, Control
    <3> QED  BY <1>1, <2>1, <2>2, <3>1, <3>2 DEF Control, RunPart
  <2>7. Known(B2, D2)'
    BY <1>2, <2>2, <2>3, <2>5, <2>6 DEF Known
  <2>8. B2 = {Len(code')}
    BY <2>4
  <2> HIDE DEF B2, D2
  <2>9. \E X, Y : X = {Len(code')} /\ Known(X, Y)'
    BY <2>7, <2>8
  <2> QED  BY <1>1, <2>1, <2>2, <2>9
<1> QED  BY <1>3, <1>4

LEMMA CompileStepKnown ==
  ASSUME NEW B, NEW D, Known(B, D), CompileStep
  PROVE  \E B2, D2 : /\ Known(B2, D2)'
                     /\ (B2 = B /\ Parsed) \/ (B2 = B \cup {Len(code')} /\ Extended)
<1>1. ParseStep /\ IndInv /\ VMTypeOK /\ vmstate # "crashed" /\ phase = "compiling"
  BY ParseStepEffect DEF CompileStep, Known, Alive
<1>2. IndInv'
  BY <1>1, NextIndInv DEF Next
<1>3. /\ start' = start /\ (hadError => hadError') /\ phase' \in {"compiling", "compiled"}
      /\ \/ Parsed
         \/ \E op \in 1 .. 16 : Appended(op)
         \/ AppendedConstant
         \/ AppendedReturn
  BY <1>1, ParseStepEffect DEF Parsed, Appended, AppendedConstant, AppendedReturn
<1>4. UNCHANGED <<freed, vstack, ip, lastIp, vmstate, fault, operands>>
  BY DEF CompileStep, NewConstant, vmVars
<1>5. IndInv' /\ BlockTypeOK' /\ Len(code') >= Len(code)
  <2>1. Len(code') >= Len(code)
    BY <1>1, <1>3, TypeFacts DEF Parsed, Appended, AppendedConstant, AppendedReturn, EmitConstant,
       blockVars, BlockTypeOK
  <2> QED  BY <1>2, <2>1 DEF IndInv, TypeOK
<1>6. VMTypeOK' /\ Len(pool') = Len(constants')
  <2>1. ip \in 0 .. Len(code') /\ lastIp \in 0 .. Len(code')
    <3>1. ip \in 0 .. Len(code) /\ lastIp \in 0 .. Len(code)
      BY <1>1 DEF VMTypeOK
    <3>2. Len(code) \in Nat
      BY <1>1, TypeFacts
    <3>3. Len(code') \in Nat
      BY <1>5, LenProperties DEF BlockTypeOK
    <3> QED  BY <1>5, <3>1, <3>2, <3>3
  <2>2. CASE constants' = constants
    <3>1. UNCHANGED heap /\ UNCHANGED pool
      BY <2>2 DEF CompileStep, vmVars
    <3> QED  BY <1>1, <1>4, <2>1, <2>2, <3>1 DEF VMTypeOK, Cell, Known, Control
  <2>3. CASE constants' # constants
    <3>1. AppendedConstant
      BY <1>3, <2>3 DEF Parsed, Appended, AppendedReturn, blockVars
    <3>2. PICK type \in ValueType : constants' = Append(constants, type)
      BY <3>1 DEF AppendedConstant, EmitConstant
    <3>3. constants'[Len(constants')] = type /\ Len(constants') = Len(constants) + 1
      BY <1>1, <3>2, TypeFacts DEF BlockTypeOK
    <3>4. NewConstant(type)
      BY <2>3, <3>3 DEF CompileStep
    <3>5. heap' \in Seq(Value) /\ Len(heap') = Len(heap) + 1
      BY <1>1, <3>4, RepFacts DEF NewConstant, VMTypeOK
    <3>6. Cell' = Cell \cup {Len(heap) + 1} /\ Cell \subseteq Cell'
      BY <1>1, <3>5, TypeFacts DEF Cell, VMTypeOK
    <3>7. pool' \in Seq(Cell') /\ vstack' \in Seq(Cell') /\ Len(pool') = Len(pool) + 1
      <4>1. pool \in Seq(Cell') /\ vstack \in Seq(Cell') /\ Len(heap) + 1 \in Cell'
        BY <1>1, <3>6, SeqMonotonic DEF VMTypeOK
      <4> QED  BY <1>4, <3>4, <4>1, AppendProperties DEF NewConstant
    <3> QED  BY <1>1, <1>4, <2>1, <3>3, <3>5, <3>6, <3>7 DEF VMTypeOK, Cell, Known, Control
  <2> QED  BY <2>2, <2>3
<1>7. vmstate = "idle" /\ vmstate' = "idle" /\ fault = "none"
  BY <1>1, <1>4 DEF CompileStep, Alive, Known, Control, VMTypeOK
<1>8. CASE Parsed
  <2>1. UNCHANGED <<code, constants, depth, start>> /\ phase' = phase
    BY <1>3, <1>8 DEF Parsed, blockVars
  <2>2. Decoded(B, D)'
    BY <1>3, <2>1, DecodedStays DEF Known
  <2>3. Control' /\ RunPart(B, D)'
    BY <1>1, <1>4, <1>6, <1>7, <2>1 DEF Known, Control, RunPart
  <2> QED  BY <1>2, <1>6, <1>8, <2>2, <2>3 DEF Known
<1>9. CASE ~Parsed
  <2>1. Extended
    BY <1>1, <1>9, ParseStepExtends DEF Known
  <2>2. PICK B2, D2 : B2 = B \cup {Len(code')} /\ Decoded(B2, D2)'
    <3>1. depth \in Int /\ depth' \in Int /\ start \in Nat /\ BlockTypeOK
      BY <1>1, <1>2 DEF IndInv, TypeOK
    <3> QED  BY <1>5, <2>1, <3>1, DecodedExtends DEF Known
  <2>3. start \in Nat /\ Len(code) >= start /\ Len(code') > Len(code) /\ Len(code') \in Nat
    <3>1. Len(code) \in B /\ B \subseteq start .. Len(code) /\ start \in Nat /\ Len(code) \in Nat
      BY <1>1, TypeFacts DEF Known, Decoded
    <3>2. Width(code'[Len(code) + 1]) \in 1 .. 2
      BY DEF Width
    <3> QED  BY <2>1, <3>1, <3>2 DEF Extended
  <2>4. Control' /\ RunPart(B2, D2)'
    BY <1>1, <1>3, <1>4, <1>6, <1>7, <2>3 DEF Known, Control, RunPart
  <2> QED  BY <1>2, <1>6, <2>1, <2>2, <2>4 DEF Known
<1> QED  BY <1>8, <1>9

-----------------------------------------------------------------------------
(* While the machine runs: what is known of the instruction at ip. *)
LEMMA AtInstruction ==
  ASSUME NEW B, NEW D, Known(B, D), vmstate = "running"
  PROVE  /\ ip \in B /\ ip \in Nat /\ ip < Len(code) /\ phase = "compiled"
         /\ Instruction \in 0 .. 17
         /\ ~hadError => Len(vstack) = D[ip] /\ Len(vstack) >= Needs(Instruction)
         /\ D[ip + Width(Instruction)] = D[ip] + Effect(Instruction)
         /\ ip + Width(Instruction) \in B
         /\ Instruction # 17 => ip + Width(Instruction) < Len(code)
         /\ Instruction = 17 => ip = Len(code) - 1 /\ (~hadError => D[ip] = 1)
         /\ Instruction = 0 => /\ code[ip + 2] + 1 \in 1 .. Len(pool)
                               /\ Operand \in Cell /\ Operand = pool[code[ip + 2] + 1]
                               /\ ip + 1 \notin B
<1>1. /\ ip \in B /\ ip < Len(code) /\ phase = "compiled"
      /\ ~hadError => Len(vstack) = D[ip]
  BY DEF Known, RunPart, Control
<1>2. /\ InstructionAt(ip, B, D) /\ B \subseteq start .. Len(code) /\ D \in [B -> Int]
      /\ D[Len(code)] = depth
  BY <1>1 DEF Known, Decoded
<1>3. /\ Len(code) \in Nat /\ start \in Nat /\ ip \in Nat /\ Len(pool) \in Nat
      /\ Len(pool) = Len(constants) /\ Len(vstack) \in Nat
      /\ \A i \in 1 .. Len(code) : code[i] \in Nat
      /\ \A i \in 1 .. Len(pool) : pool[i] \in Cell
      /\ ~hadError => depth = 1
  BY <1>1, TypeFacts DEF Known, Control
<1>4. PICK op : op = Instruction
  OBVIOUS
<1>5. /\ op \in 0 .. 17 /\ ip + Width(op) \in B /\ D[ip + Width(op)] = D[ip] + Effect(op)
      /\ ~hadError => D[ip] >= Needs(op)
      /\ op = 0 => ip + 1 \notin B /\ code[ip + 2] < Len(pool) /\ ip + 2 < Len(code)
      /\ op = 17 <=> ip = Len(code) - 1
  BY <1>1, <1>2, <1>3, <1>4, OpNumbers DEF InstructionAt, Instruction
<1>6. Width(op) = IF op = 0 THEN 2 ELSE 1
  BY <1>5, OpFacts
<1>7. op # 17 => ip + Width(op) < Len(code)
  BY <1>1, <1>3, <1>5, <1>6
<1>8. op = 17 => ip = Len(code) - 1 /\ (~hadError => D[ip] = 1)
  <2>1. ASSUME op = 17, ~hadError PROVE D[ip] = 1
    <3>1. ip + Width(op) = Len(code) /\ Effect(op) = 0 /\ D[ip] \in Int
      BY <1>1, <1>2, <1>3, <1>5, <1>6, <2>1, OpFacts
    <3> QED  BY <1>2, <1>3, <1>5, <2>1, <3>1
  <2> QED  BY <1>5, <2>1
<1>9. op = 0 => /\ code[ip + 2] + 1 \in 1 .. Len(pool)
                /\ Operand \in Cell /\ Operand = pool[code[ip + 2] + 1]
  BY <1>3, <1>5 DEF Operand
<1>10. ~hadError => Len(vstack) >= Needs(op)
  BY <1>1, <1>5
<1> QED  BY <1>1, <1>3, <1>4, <1>5, <1>7, <1>8, <1>9, <1>10

(* The compiler rests while the machine runs, prints or ends. *)
LEMMA CompilerRests ==
  ASSUME NEW B, NEW D, Known(B, D), UNCHANGED compilerVars
  PROVE  /\ IndInv' /\ Decoded(B, D)'
         /\ UNCHANGED <<code, constants, depth, start, hadError, phase>>
<1>1. UNCHANGED <<code, constants, depth, start, hadError, phase>>
  BY DEF compilerVars, blockVars, history, parserVars
<1>2. IndInv'
  BY NextIndInv DEF Known
<1>3. Decoded(B, D)'
  BY <1>1, DecodedStays DEF Known
<1> QED  BY <1>1, <1>2, <1>3

LEMMA EndsKnown ==
  ASSUME NEW B, NEW D, Known(B, D), UNCHANGED compilerVars, vmstate # "crashed",
         vmstate' \in {"crashed", "exited"}, fault' \in Fault,
         UNCHANGED <<heap, freed, pool, lastIp, vstack, ip, operands>>,
         fault' # fault => vmstate' = "crashed",
         fault' = "null_value" => hadError
  PROVE  Known(B, D)'
<1>1. /\ IndInv' /\ Decoded(B, D)'
      /\ UNCHANGED <<code, constants, depth, start, hadError, phase>>
  BY CompilerRests
<1>2. VMTypeOK'
  BY <1>1 DEF Known, VMTypeOK, Cell
<1>3. Control' /\ RunPart(B, D)'
  BY <1>1 DEF Known, Control, RunPart
<1> QED  BY <1>1, <1>2, <1>3 DEF Known

(* Every instruction but OP_RETURN goes to the next one. *)
LEMMA GoesOnKnown ==
  ASSUME NEW B, NEW D, Known(B, D), UNCHANGED compilerVars, vmstate = "running",
         Instruction # 17,
         UNCHANGED <<freed, pool, lastIp, vmstate, fault>>,
         ip' = ip + Width(Instruction),
         Len(vstack') = Len(vstack) + Effect(Instruction) \/ hadError,
         heap' \in Seq(Value), Len(heap) <= Len(heap'),
         vstack' \in Seq(1 .. Len(heap')),
         operands' = operands \/ operands' \in Value \X Value \X ValueType
  PROVE  Known(B, D)'
<1>1. /\ IndInv' /\ Decoded(B, D)'
      /\ UNCHANGED <<code, constants, depth, start, hadError, phase>>
  BY CompilerRests
<1>2. ip' \in B /\ ip' \in Nat /\ ip' < Len(code) /\ Len(code) \in Nat
      /\ (~hadError => Len(vstack') = D[ip'])
  <2>1. B \subseteq start .. Len(code) /\ start \in Nat /\ Len(code) \in Nat
    BY TypeFacts DEF Known, Decoded
  <2>2. /\ ip + Width(Instruction) \in B /\ ip + Width(Instruction) < Len(code)
        /\ D[ip + Width(Instruction)] = D[ip] + Effect(Instruction)
        /\ ~hadError => Len(vstack) = D[ip]
    BY AtInstruction
  <2>3. ip' \in B /\ ip' < Len(code) /\ D[ip'] = D[ip] + Effect(Instruction)
    BY <2>2
  <2>4. ip' \in Nat
    BY <2>1, <2>3
  <2> QED  BY <2>1, <2>2, <2>3, <2>4
<1>3. VMTypeOK'
  <2>1. Cell = 1 .. Len(heap) /\ Cell' = 1 .. Len(heap') /\ Len(heap) \in Nat /\ Len(heap') \in Nat
    BY TypeFacts DEF Known, Cell
  <2>2. Cell \subseteq Cell'
    BY <2>1
  <2>3. pool' \in Seq(Cell') /\ vstack' \in Seq(Cell') /\ freed' \subseteq Cell'
    BY <2>1, <2>2, SeqMonotonic DEF Known, VMTypeOK
  <2> QED  BY <1>1, <1>2, <2>3 DEF Known, VMTypeOK
<1>4. Control' /\ RunPart(B, D)'
  BY <1>1, <1>2 DEF Known, Control, RunPart
<1> QED  BY <1>1, <1>3, <1>4 DEF Known

(* create_value() of a result in place of k operands. *)
LEMMA PushFacts ==
  ASSUME IndInv, VMTypeOK, NEW k \in 0 .. Len(vstack), NEW cells \in Seq(Value),
         Len(cells) = Len(heap), NEW val \in Value, PushResult(cells, val, k)
  PROVE  /\ heap' \in Seq(Value) /\ Len(heap') = Len(heap) + 1
         /\ vstack' \in Seq(1 .. Len(heap')) /\ Len(vstack') = Len(vstack) + 1 - k
         /\ vstack'[Len(vstack')] = Len(heap')
         /\ \A i \in 1 .. Len(vstack) - k : vstack'[i] = vstack[i]
         /\ heap'[Len(heap')] = val
         /\ \A c \in 1 .. Len(heap) : heap'[c] = cells[c]
         /\ ip' = ip + 1 /\ UNCHANGED <<freed, pool, lastIp, vmstate, fault>>
<1>1. /\ Len(vstack) \in Nat /\ Len(heap) \in Nat /\ Cell = 1 .. Len(heap)
      /\ \A i \in 1 .. Len(vstack) : vstack[i] \in Cell
  BY TypeFacts
<1>2. /\ heap' = Append(cells, val) /\ vstack' = Append(Without(k), Len(heap) + 1)
      /\ ip' = ip + 1 /\ UNCHANGED <<freed, pool, lastIp, vmstate, fault>>
  BY DEF PushResult, vmControl
<1>3. /\ heap' \in Seq(Value) /\ Len(heap') = Len(heap) + 1 /\ heap'[Len(heap')] = val
      /\ \A c \in 1 .. Len(heap) : heap'[c] = cells[c]
  BY <1>1, <1>2, AppendProperties
<1>4. PICK rest : rest = Without(k)
  OBVIOUS
<1>5. /\ rest \in Seq(1 .. Len(heap')) /\ Len(rest) = Len(vstack) - k
      /\ \A i \in 1 .. Len(vstack) - k : rest[i] = vstack[i]
  <2>1. \A i \in 1 .. Len(vstack) - k : vstack[i] \in 1 .. Len(heap')
    BY <1>1, <1>3
  <2> QED  BY <1>1, <1>4, <2>1, PrefixProperties DEF Without
<1>6. Len(heap) + 1 \in 1 .. Len(heap')
  BY <1>1, <1>3
<1>7. /\ vstack' \in Seq(1 .. Len(heap')) /\ Len(vstack') = Len(vstack) + 1 - k
      /\ vstack'[Len(vstack')] = Len(heap')
      /\ \A i \in 1 .. Len(vstack) - k : vstack'[i] = vstack[i]
  BY <1>1, <1>2, <1>3, <1>4, <1>5, <1>6, AppendProperties
<1> QED  BY <1>2, <1>3, <1>7

-----------------------------------------------------------------------------
LEMMA RunStartKnown ==
  ASSUME NEW B, NEW D, Known(B, D), phase = "compiled", RunStart, UNCHANGED compilerVars
  PROVE  Known(B, D)'
<1>1. /\ IndInv' /\ Decoded(B, D)'
      /\ UNCHANGED <<code, constants, depth, start, hadError, phase>>
  BY CompilerRests
<1>2. /\ vmstate = "idle" /\ vmstate' = "running" /\ ip' = lastIp /\ lastIp = start
      /\ start < Len(code) /\ vstack = << >>
      /\ UNCHANGED <<heap, freed, pool, lastIp, vstack, fault, operands>>
  BY DEF RunStart, vmControl, Known, Control
<1>3. VMTypeOK'
  BY <1>1, <1>2 DEF Known, VMTypeOK, Cell
<1>4. start \in B /\ D[start] = 0
  BY DEF Known, Decoded
<1>5. Control' /\ RunPart(B, D)'
  BY <1>1, <1>2, <1>4 DEF Known, Control, RunPart
<1> QED  BY <1>1, <1>3, <1>5 DEF Known

LEMMA FaultsKnown ==
  ASSUME NEW B, NEW D, Known(B, D), UNCHANGED compilerVars, Alive,
         TraceFaults \/ UnaryFaults \/ BinaryFaults
  PROVE  Known(B, D)' /\ vmstate = "running" /\ vmstate' = "crashed"
<1>1. vmstate = "running"
  BY DEF TraceFaults, UnaryFaults, BinaryFaults, Executes
<1>2. /\ Len(vstack) \in Nat
      /\ ~hadError => Len(vstack) >= Needs(Instruction) /\ Instruction \in 0 .. 17
  BY <1>1, AtInstruction, TypeFacts DEF Known
<1>3. UnaryFaults \/ BinaryFaults => hadError
  <2>1. ASSUME UnaryFaults, ~hadError PROVE FALSE
    <3>1. Needs(Instruction) = 1 /\ Len(vstack) = 0
      BY <1>2, <2>1, OpFacts DEF UnaryFaults, Executes
    <3> QED  BY <1>2, <2>1, <3>1
  <2>2. ASSUME BinaryFaults, ~hadError PROVE FALSE
    <3>1. Needs(Instruction) = 2 /\ Len(vstack) < 2
      BY <1>2, <2>2, OpFacts DEF BinaryFaults, Executes
    <3> QED  BY <1>2, <2>2, <3>1
  <2> QED  BY <2>1, <2>2
<1>4. \/ fault' \in {"use_after_free", "null_object"}
      \/ fault' = "null_value" /\ hadError
  BY <1>3 DEF TraceFaults, UnaryFaults, BinaryFaults, Crash
<1>5. vmstate' = "crashed" /\ UNCHANGED <<heap, freed, pool, lastIp, vstack, ip, operands>>
  BY DEF TraceFaults, UnaryFaults, BinaryFaults, Crash, vmControl
<1> QED  BY <1>1, <1>4, <1>5, EndsKnown DEF Fault

LEMMA PushConstantKnown ==
  ASSUME NEW B, NEW D, Known(B, D), UNCHANGED compilerVars, PushConstant
  PROVE  /\ Known(B, D)' /\ vmstate = "running" /\ Instruction = 0
         /\ vstack' = Append(vstack, Operand)
<1>1. /\ vmstate = "running" /\ Instruction = 0 /\ vstack' = Append(vstack, Operand)
      /\ ip' = ip + 2 /\ UNCHANGED <<heap, freed, pool, lastIp, vmstate, fault, operands>>
  BY OpNumbers DEF PushConstant, Executes, vmControl
<1>2. Operand \in Cell
  BY <1>1, AtInstruction
<1>3. vstack \in Seq(Cell) /\ heap \in Seq(Value) /\ Cell = 1 .. Len(heap)
  BY TypeFacts DEF Known, VMTypeOK
<1>4. vstack' \in Seq(1 .. Len(heap')) /\ Len(vstack') = Len(vstack) + 1
  BY <1>1, <1>2, <1>3, AppendProperties
<1>5. Width(Instruction) = 2 /\ Effect(Instruction) = 1
  BY <1>1, OpNumbers DEF Width, Effect, BinaryOp, ArithmeticOp, ComparisonOp,
     OP_ADD, OP_MOD, OP_EQUALITY, OP_GTE
<1>6. Known(B, D)'
  <2>1. Len(heap) <= Len(heap')
    BY <1>1, TypeFacts DEF Known
  <2> QED  BY <1>1, <1>3, <1>4, <1>5, <2>1, GoesOnKnown
<1> QED  BY <1>1, <1>6

(* An instruction that creates its result in place of k operands. *)
Creates(k, cells, val) ==
  /\ vmstate = "running" /\ Instruction \in 1 .. 16
  /\ k \in 0 .. Len(vstack) /\ cells \in Seq(Value) /\ Len(cells) = Len(heap)
  /\ val \in Value /\ (Tagged(val) \/ val.rep = "null_obj")
  /\ PushResult(cells, val, k)
  /\ Effect(Instruction) = 1 - k /\ k <= 2
  /\ operands' = operands \/ operands' \in Value \X Value \X ValueType

LEMMA CreatesKnown ==
  ASSUME NEW B, NEW D, Known(B, D), UNCHANGED compilerVars, NEW k, NEW cells, NEW val,
         Creates(k, cells, val)
  PROVE  Known(B, D)'
<1>1. /\ k \in 0 .. Len(vstack) /\ cells \in Seq(Value) /\ Len(cells) = Len(heap)
      /\ val \in Value /\ PushResult(cells, val, k)
  BY DEF Creates
<1>2. /\ heap' \in Seq(Value) /\ Len(heap') = Len(heap) + 1
      /\ vstack' \in Seq(1 .. Len(heap')) /\ Len(vstack') = Len(vstack) + 1 - k
      /\ ip' = ip + 1 /\ UNCHANGED <<freed, pool, lastIp, vmstate, fault>>
  BY <1>1, PushFacts DEF Known
<1>3. Instruction \in 0 .. 17 /\ Instruction # 17 /\ Width(Instruction) = 1
  <2>1. Instruction \in 1 .. 16
    BY DEF Creates
  <2>2. Instruction \in 0 .. 17 /\ Instruction # 17 /\ Instruction # 0
    BY <2>1
  <2> QED  BY <2>2, OpFacts
<1>4. Len(heap) \in Nat /\ Len(vstack) \in Nat
  BY TypeFacts DEF Known
<1>5. Len(vstack') = Len(vstack) + Effect(Instruction) /\ Len(heap) <= Len(heap')
  BY <1>1, <1>2, <1>4 DEF Creates
<1> QED  BY <1>2, <1>3, <1>5, GoesOnKnown DEF Creates

LEMMA CreatingInstructions ==
  ASSUME NEW B, NEW D, Known(B, D), Alive, PushLiteral \/ Negate \/ Not
  PROVE  \/ \E k, val : Creates(k, heap, val) /\ operands' = operands
         \/ vmstate = "running" /\ Exit
<1>1. /\ heap \in Seq(Value) /\ Len(vstack) \in Nat /\ Len(heap) \in Nat
      /\ \A i \in 1 .. Len(vstack) : heap[vstack[i]] \in Value
  BY TypeFacts DEF Known, VMTypeOK
<1>2. CASE PushLiteral
  <2>1. /\ vmstate = "running" /\ Instruction \in LiteralOp /\ operands' = operands
        /\ \E type \in {"VAL_NOTHING", "VAL_BOOL"} : PushResult(heap, NewValue(type), 0)
    BY <1>2 DEF PushLiteral, Executes
  <2>2. Instruction \in 1 .. 16 /\ Effect(Instruction) = 1 - 0
    BY <2>1, OpClasses DEF Effect
  <2>3. PICK type \in ValueType : PushResult(heap, NewValue(type), 0)
    BY <2>1 DEF ValueType
  <2>4. NewValue(type) \in Value /\ Tagged(NewValue(type))
    BY RepFacts
  <2>5. Creates(0, heap, NewValue(type))
    BY <1>1, <2>1, <2>2, <2>3, <2>4 DEF Creates
  <2> QED  BY <2>1, <2>5
<1>3. CASE (Negate \/ Not) /\ ~Exit
  <2>1. /\ vmstate = "running" /\ Instruction \in UnaryOp /\ operands' = operands
        /\ vstack # << >>
    BY <1>3 DEF Negate, Not, Executes, UnaryOp
  <2>2. Instruction \in 1 .. 16 /\ Effect(Instruction) = 1 - 1
    BY <2>1, OpNumbers, OpClasses DEF Effect
  <2>3. Len(vstack) >= 1 /\ heap[Pop(1)] \in Value
    <3>1. Len(vstack) # 0
      BY <2>1, EmptySeq DEF Known, VMTypeOK
    <3> QED  BY <1>1, <3>1 DEF Pop
  <2>4. PICK type \in ValueType : PushResult(heap, NewValue(type), 1)
    BY <1>3, <2>3 DEF Negate, Not, Value, ValueType
  <2>5. NewValue(type) \in Value /\ Tagged(NewValue(type))
    BY RepFacts
  <2>6. Creates(1, heap, NewValue(type))
    BY <1>1, <2>1, <2>2, <2>3, <2>4, <2>5 DEF Creates
  <2> QED  BY <2>1, <2>6
<1> QED  BY <1>2, <1>3 DEF Negate, Not, Executes

(* Where a binary operation goes: it ends the process, or converts its     *)
(* operands in their cells and creates its result.                         *)
Normalized(n) == [heap EXCEPT ![Pop(2)] = n[1], ![Pop(1)] = n[2]]

LEMMA BinaryCreates ==
  ASSUME NEW B, NEW D, Known(B, D), Binary
  PROVE  /\ vmstate = "running" /\ Instruction \in BinaryOp /\ Len(vstack) >= 2
         /\ Pop(1) \in Cell /\ Pop(2) \in Cell
         /\ \A c \in Traced : heap[c].rep # "null_obj"
         /\ \/ Exit
            \/ Crash("divide")
            \/ \E n : /\ ~NormalizationDenied(heap[Pop(2)], heap[Pop(1)])
                      /\ n \in NormalizeOperands(heap[Pop(2)], heap[Pop(1)])
                      /\ operands' = n
                      /\ Creates(2, Normalized(n), BinaryResult(Instruction, n[3]))
<1>1. /\ vmstate = "running" /\ Instruction \in BinaryOp /\ Len(vstack) >= 2
      /\ \A c \in Traced : heap[c].rep # "null_obj"
  BY DEF Binary, Executes
<1>2. /\ heap \in Seq(Value) /\ Len(vstack) \in Nat /\ Len(heap) \in Nat
      /\ \A i \in 1 .. Len(vstack) : vstack[i] \in Cell
      /\ \A c \in Cell : heap[c] \in Value
      /\ Cell = 1 .. Len(heap)
  BY TypeFacts DEF Known, VMTypeOK
<1>3. Pop(1) \in Cell /\ Pop(2) \in Cell
  BY <1>1, <1>2 DEF Pop
<1>4. Instruction \in 1 .. 16 /\ Effect(Instruction) = 1 - 2
  BY <1>1, OpClasses DEF Effect
<1>5. ASSUME ~Exit, ~Crash("divide")
      PROVE  \E n : /\ ~NormalizationDenied(heap[Pop(2)], heap[Pop(1)])
                    /\ n \in NormalizeOperands(heap[Pop(2)], heap[Pop(1)])
                    /\ operands' = n
                    /\ Creates(2, Normalized(n), BinaryResult(Instruction, n[3]))
  <2>1. ~NormalizationDenied(heap[Pop(2)], heap[Pop(1)])
    BY <1>5 DEF Binary
  <2>2. PICK n \in NormalizeOperands(heap[Pop(2)], heap[Pop(1)]) :
          /\ PushResult(Normalized(n), BinaryResult(Instruction, n[3]), 2)
          /\ operands' = n
    BY <1>5, <2>1 DEF Binary, Normalized
  <2>3. n \in Value \X Value \X ValueType
    BY <1>2, <1>3, <2>1, NormalizationFacts
  <2>4. Normalized(n) \in Seq(Value) /\ Len(Normalized(n)) = Len(heap)
    BY <1>2, <1>3, <2>3 DEF Normalized
  <2>5. /\ BinaryResult(Instruction, n[3]) \in Value
        /\ \/ Tagged(BinaryResult(Instruction, n[3]))
           \/ BinaryResult(Instruction, n[3]).rep = "null_obj"
    BY <1>1, <2>3, ResultFacts
  <2>6. Creates(2, Normalized(n), BinaryResult(Instruction, n[3]))
    BY <1>1, <1>2, <1>4, <2>2, <2>3, <2>4, <2>5 DEF Creates
  <2> QED  BY <2>1, <2>2, <2>6
<1> QED  BY <1>1, <1>3, <1>5

LEMMA ReturnOpKnown ==
  ASSUME NEW B, NEW D, Known(B, D), UNCHANGED compilerVars, ReturnOp
  PROVE  /\ Known(B, D)' /\ vmstate = "running" /\ vmstate' = "returned"
         /\ UNCHANGED <<heap, freed, pool, vstack, fault, operands>>
         /\ ip = Len(code) - 1
<1>1. /\ vmstate = "running" /\ Instruction = 17 /\ ip' = ip + 1 /\ lastIp' = ip + 1
      /\ vmstate' = "returned" /\ UNCHANGED <<heap, freed, pool, vstack, fault, operands>>
  BY OpNumbers DEF ReturnOp, Executes
<1>2. /\ IndInv' /\ Decoded(B, D)'
      /\ UNCHANGED <<code, constants, depth, start, hadError, phase>>
  BY CompilerRests
<1>3. /\ ip = Len(code) - 1 /\ phase = "compiled" /\ (~hadError => Len(vstack) = D[ip] /\ D[ip] = 1)
  BY <1>1, AtInstruction
<1>4. ip' = Len(code) /\ lastIp' = Len(code) /\ Len(code) \in Nat
  BY <1>1, <1>3, TypeFacts DEF Known
<1>5. VMTypeOK'
  BY <1>1, <1>2, <1>4 DEF Known, VMTypeOK, Cell
<1>6. Control' /\ RunPart(B, D)'
  BY <1>1, <1>2, <1>3, <1>4 DEF Known, Control, RunPart
<1> QED  BY <1>1, <1>2, <1>3, <1>5, <1>6 DEF Known

LEMMA PrintAnswerKnown ==
  ASSUME NEW B, NEW D, Known(B, D), PrintAnswer
  PROVE  /\ Known(B, D)' /\ vmstate = "returned" /\ vmstate' \in {"idle", "crashed"}
         /\ vmstate' = "idle" => phase' = "ready"
         /\ UNCHANGED <<code, start, hadError, heap, freed, pool, vstack, operands, constants>>
         /\ fault' # fault =>
              \/ fault' = "null_value"
              \/ fault' = "use_after_free" /\ Len(vstack) >= 1 /\ Pop(1) \in freed
<1>1. /\ vmstate = "returned" /\ phase = "compiled"
      /\ UNCHANGED <<heap, freed, pool, lastIp, vstack, ip, operands>>
      /\ \/ vmstate' = "idle" /\ fault' = fault
         \/ vmstate' = "crashed" /\ fault' = "null_value" /\ vstack = << >>
         \/ vmstate' = "crashed" /\ fault' = "use_after_free" /\ Pop(1) \in freed /\ vstack # << >>
  BY DEF PrintAnswer, PrintValue, Crash, vmControl
<1>2. Len(vstack) \in Nat /\ (vstack # << >> => Len(vstack) >= 1) /\ (vstack = << >> => Len(vstack) = 0)
  BY EmptySeq, TypeFacts DEF Known, VMTypeOK
<1>3. CASE vmstate' = "idle"
  <2>1. Interpreted
    BY <1>3 DEF PrintAnswer
  <2>2. phase' = "ready" /\ UNCHANGED <<code, constants, depth, start, hadError>>
    BY <2>1 DEF Interpreted, blockVars, history, parserVars
  <2>3. IndInv'
    BY <2>1, NextIndInv DEF Known, Next
  <2>4. Decoded(B, D)'
    BY <1>1, <2>2, DecodedStays DEF Known
  <2>5. VMTypeOK'
    BY <1>1, <1>3, <2>2 DEF Known, VMTypeOK, Cell
  <2>6. Control' /\ RunPart(B, D)'
    BY <1>1, <1>3, <2>2 DEF Known, Control, RunPart
  <2> QED  BY <1>1, <1>3, <2>2, <2>3, <2>4, <2>5, <2>6 DEF Known
<1>4. CASE vmstate' # "idle"
  <2>1. UNCHANGED compilerVars
    BY <1>4 DEF PrintAnswer
  <2>2. fault' = "null_value" => hadError
    BY <1>1, <1>2, <1>4 DEF Known, RunPart, Control
  <2>3. Known(B, D)'
    BY <1>1, <1>4, <2>1, <2>2, EndsKnown DEF Fault
  <2>4. UNCHANGED <<code, constants, start, hadError>>
    BY <2>1, CompilerRests
  <2> QED  BY <1>1, <1>2, <1>4, <2>3, <2>4
<1> QED  BY <1>3, <1>4

LEMMA ListingFaultsKnown ==
  ASSUME NEW B, NEW D, Known(B, D), ListingFaults
  PROVE  /\ Known(B, D)' /\ UNCHANGED compilerVars /\ vmstate' = "crashed"
         /\ fault' = "stale_listing" /\ operands' = operands /\ constants' = constants
         /\ pool' = pool
<1>1. /\ UNCHANGED compilerVars /\ vmstate # "crashed" /\ vmstate' = "crashed"
      /\ fault' = "stale_listing"
      /\ UNCHANGED <<heap, freed, pool, lastIp, vstack, ip, operands>>
  BY DEF ListingFaults, Alive, Crash, vmControl
<1> QED  BY <1>1, EndsKnown, CompilerRests DEF Fault

LEMMA QuitKnown ==
  ASSUME NEW B, NEW D, Known(B, D), Quit
  PROVE  /\ Known(B, D)' /\ vmstate' \in {"ended", "crashed"} /\ operands' = operands
         /\ fault' \in {fault, "double_free"} /\ constants' = constants /\ pool' = pool
<1>1. /\ phase = "ready" /\ phase' = "ready" /\ streams' = << >>
      /\ UNCHANGED <<blockVars, file_flag, nest_depth, parserVars, phase, mode, inputs, history>>
      /\ vmstate' \in {"ended", "crashed"} /\ fault' \in {fault, "double_free"}
      /\ fault' # fault => vmstate' = "crashed"
      /\ UNCHANGED <<heap, pool, lastIp, vstack, ip, operands>>
      /\ freed' = freed \cup Elements(pool) \cup Elements(vstack)
      /\ vmstate # "crashed"
  BY DEF Quit, Destroy, Alive, vmControl
<1>2. UNCHANGED <<code, constants, start, depth, hadError, prev, crnt, panicMode, frames, source>>
  BY <1>1 DEF blockVars, parserVars, history
<1>3. IndInv'
  <2>1. TypeOK'
    BY <1>1, <1>2, EmptySeq DEF Known, IndInv, TypeOK, InputTypeOK, BlockTypeOK
  <2>2. CallStackOK(frames)' <=> CallStackOK(frames')
    BY DEF CallStackOK
  <2>3. Expected(frames)' <=> Expected(frames')
    BY DEF Expected, Operands, BinaryFrames
  <2>4. StackInv'
    BY <1>1, <1>2, <2>2 DEF Known, IndInv, StackInv
  <2> QED  BY <2>1, <2>4 DEF IndInv
<1>4. Decoded(B, D)'
  BY <1>1, <1>2, DecodedStays DEF Known
<1>5. VMTypeOK'
  <2>1. Elements(vstack) \subseteq Cell /\ Elements(pool) \subseteq Cell
    BY ElementOfSeq, LenProperties DEF Known, VMTypeOK, Elements
  <2> QED  BY <1>1, <1>2, <2>1 DEF Known, VMTypeOK, Cell, Fault
<1>6. Control' /\ RunPart(B, D)'
  BY <1>1, <1>2 DEF Known, Control, RunPart
<1> QED  BY <1>1, <1>2, <1>3, <1>4, <1>5, <1>6 DEF Known

LEMMA StutterKnown ==
  ASSUME NEW B, NEW D, Known(B, D), UNCHANGED sessionVars
  PROVE  Known(B, D)' /\ UNCHANGED compilerVars /\ UNCHANGED vmVars
<1>1. UNCHANGED compilerVars /\ UNCHANGED vmVars
      /\ UNCHANGED <<heap, freed, pool, vstack, ip, lastIp, vmstate, fault, operands>>
  BY DEF sessionVars, vmVars
<1>2. /\ IndInv' /\ Decoded(B, D)'
      /\ UNCHANGED <<code, constants, depth, start, hadError, phase>>
  BY <1>1, CompilerRests
<1>3. VMTypeOK' /\ Control' /\ RunPart(B, D)'
  BY <1>1, <1>2 DEF Known, VMTypeOK, Cell, Control, RunPart
<1> QED  BY <1>1, <1>2, <1>3 DEF Known

LEMMA RunKnown ==
  ASSUME NEW B, NEW D, Known(B, D), Run
  PROVE  Known(B, D)'
<1>1. UNCHANGED compilerVars /\ phase = "compiled" /\ Alive /\ vmstate # "crashed"
      /\ (fault = "null_value" => hadError) /\ fault \in Fault
  BY DEF Run, Alive, Known, Control, VMTypeOK
<1>2. CASE RunStart
  BY <1>1, <1>2, RunStartKnown
<1>3. CASE TraceFaults \/ UnaryFaults \/ BinaryFaults
  BY <1>1, <1>3, FaultsKnown
<1>4. CASE PushConstant
  BY <1>1, <1>4, PushConstantKnown
<1>5. CASE Exit \/ Crash("divide")
  <2>1. /\ vmstate' \in {"exited", "crashed"} /\ fault' \in Fault /\ fault' \in {fault, "divide"}
        /\ UNCHANGED <<heap, freed, pool, lastIp, vstack, ip, operands>>
        /\ fault' # fault => vmstate' = "crashed"
    BY <1>1, <1>5 DEF Exit, Crash, vmControl, Fault
  <2> QED  BY <1>1, <2>1, EndsKnown
<1>6. CASE PushLiteral \/ Negate \/ Not
  BY <1>1, <1>5, <1>6, CreatingInstructions, CreatesKnown
<1>7. CASE Binary
  BY <1>1, <1>5, <1>7, BinaryCreates, CreatesKnown
<1>8. CASE ReturnOp
  BY <1>1, <1>8, ReturnOpKnown
<1> QED  BY <1>2, <1>3, <1>4, <1>6, <1>7, <1>8 DEF Run, RunStep

-----------------------------------------------------------------------------
(* The values.  As long as a constant's index fits in a word of the code,  *)
(* every constant that is still to be pushed is a cell of its own, that    *)
(* was not free()d, and so is every value on the stack.                    *)
Pending(b, B) ==
  /\ b \in B /\ b < Len(code) /\ code[b + 1] = OP_CONSTANT
  /\ vmstate = "running" => ip <= b

ConstantOf(b) == pool[code[b + 2] + 1]

ConstantsLive(B) ==
  \A b \in B : Pending(b, B) =>
    /\ ConstantOf(b) \notin freed /\ Tagged(heap[ConstantOf(b)])
    /\ \A i \in 1 .. Len(vstack) : vstack[i] # ConstantOf(b)
    /\ \A other \in B : Pending(other, B) /\ code[other + 2] = code[b + 2] => other = b

StackLive ==
  /\ \A i \in 1 .. Len(vstack) :
       /\ vstack[i] \notin freed
       /\ Tagged(heap[vstack[i]]) \/ heap[vstack[i]].rep = "null_obj"
  /\ \A i, j \in 1 .. Len(vstack) : vstack[i] = vstack[j] => i = j

LiveValues(B) ==
  /\ fault # "use_after_free"
  /\ phase \in {"compiling", "compiled"} /\ vmstate \in {"idle", "running"} => ConstantsLive(B)
  /\ vmstate \in {"running", "returned"} => StackLive
  /\ LeftOperandIsNormalized /\ ObjectOperationsGetObjects

IndicesFit == Len(constants) <= WordSize

LivePart(B) ==
  /\ \A i, j \in 1 .. Len(pool) : pool[i] = pool[j] => i = j
  /\ IndicesFit => LiveValues(B)

LEMMA PendingFacts ==
  ASSUME NEW B, NEW D, Known(B, D), NEW b \in B, Pending(b, B)
  PROVE  /\ b \in Nat /\ b + 1 \notin B /\ b + 2 \in B /\ b + 2 <= Len(code)
         /\ code[b + 2] \in Nat /\ code[b + 2] + 1 \in 1 .. Len(pool)
         /\ code[b + 2] < Len(constants)
         /\ ConstantOf(b) \in Cell
<1>1. /\ InstructionAt(b, B, D) /\ B \subseteq start .. Len(code) /\ b < Len(code)
      /\ code[b + 1] = OP_CONSTANT /\ Len(pool) = Len(constants)
  BY DEF Known, Decoded, Pending, Control
<1>2. /\ Len(code) \in Nat /\ start \in Nat /\ Len(pool) \in Nat
      /\ \A i \in 1 .. Len(code) : code[i] \in Nat
      /\ \A i \in 1 .. Len(pool) : pool[i] \in Cell
  BY TypeFacts DEF Known
<1>3. b + 1 \notin B /\ b + 2 \in B /\ code[b + 2] < Len(constants)
  BY <1>1 DEF InstructionAt, Width
<1>4. b \in Nat /\ b + 2 <= Len(code)
  BY <1>1, <1>2, <1>3
<1>5. code[b + 2] \in Nat
  BY <1>2, <1>4
<1> QED  BY <1>1, <1>2, <1>3, <1>4, <1>5 DEF ConstantOf

(* A step after which nothing runs leaves nothing to show. *)
LEMMA LiveRests ==
  ASSUME NEW B, NEW B2, LivePart(B), UNCHANGED <<pool, constants, operands>>,
         fault' = "use_after_free" => fault' = fault \/ ~IndicesFit,
         vmstate' \notin {"running", "returned"},
         phase' \notin {"compiling", "compiled"} \/ vmstate' # "idle"
  PROVE  LivePart(B2)'
BY DEF LivePart, LiveValues, IndicesFit, LeftOperandIsNormalized, ObjectOperationsGetObjects

LEMMA LiveStutters ==
  ASSUME NEW B, LivePart(B),
         UNCHANGED <<heap, freed, pool, vstack, operands, fault, vmstate, ip, code, constants, phase>>
  PROVE  LivePart(B)'
<1>1. \A b \in B : Pending(b, B)' <=> Pending(b, B)
  BY DEF Pending
<1>2. ConstantsLive(B) => ConstantsLive(B)'
  BY <1>1 DEF ConstantsLive, ConstantOf
<1>3. StackLive => StackLive'
  BY DEF StackLive
<1> QED  BY <1>2, <1>3
         DEF LivePart, LiveValues, IndicesFit, LeftOperandIsNormalized, ObjectOperationsGetObjects

LEMMA InterpretLive ==
  ASSUME NEW B, NEW D, Known(B, D), LivePart(B), Interpret
  PROVE  \E B2, D2 : Known(B2, D2)' /\ LivePart(B2)'
<1>1. /\ vstack' = << >> /\ UNCHANGED <<heap, pool, constants, operands>>
      /\ fault' \in {fault, "double_free"}
  BY InterpretKnown
<1>2. CASE vmstate' = "crashed" /\ Known(B, D)'
  BY <1>1, <1>2, LiveRests
<1>3. ASSUME NEW B2, NEW D2, B2 = {Len(code')}, vmstate' = "idle", Known(B2, D2)'
      PROVE  LivePart(B2)'
  <2>1. \A b \in B2 : ~Pending(b, B2)'
    BY <1>3, TypeFacts DEF Pending
  <2>2. ConstantsLive(B2)'
    BY <2>1 DEF ConstantsLive
  <2> QED  BY <1>1, <1>3, <2>2 DEF LivePart, LiveValues, IndicesFit, LeftOperandIsNormalized,
           ObjectOperationsGetObjects
<1> QED  BY <1>2, <1>3, InterpretKnown

LEMMA RunStartLive ==
  ASSUME NEW B, NEW D, Known(B, D), LivePart(B), phase = "compiled", RunStart,
         UNCHANGED compilerVars
  PROVE  LivePart(B)'
<1>1. /\ UNCHANGED <<code, constants, phase>>
      /\ vmstate = "idle" /\ vmstate' = "running" /\ ip' = start /\ vstack = << >>
      /\ UNCHANGED <<heap, freed, pool, vstack, fault, operands>>
  BY CompilerRests DEF RunStart, vmControl, Known, Control
<1>2. \A b \in B : Pending(b, B)' => Pending(b, B)
  BY <1>1 DEF Pending
<1>3. ConstantsLive(B) => ConstantsLive(B)'
  BY <1>1, <1>2 DEF ConstantsLive, ConstantOf
<1>4. StackLive'
  BY <1>1 DEF StackLive
<1> QED  BY <1>1, <1>3, <1>4
         DEF LivePart, LiveValues, IndicesFit, LeftOperandIsNormalized, ObjectOperationsGetObjects

(* A constant that the compiler emits gets an index and a cell of its own. *)
LEMMA CompileStepLive ==
  ASSUME NEW B, NEW D, NEW B2, NEW D2, Known(B, D), Known(B2, D2)', LivePart(B), CompileStep,
         (B2 = B /\ Parsed) \/ (B2 = B \cup {Len(code')} /\ Extended)
  PROVE  LivePart(B2)'
<1>1. /\ ParseStep /\ phase = "compiling" /\ vstack = << >>
      /\ UNCHANGED <<freed, vstack, ip, vmstate, fault, operands>>
      /\ vmstate = "idle"
  <2>1. ParseStep /\ phase = "compiling"
    BY ParseStepEffect DEF CompileStep, Known
  <2>2. UNCHANGED <<freed, vstack, ip, vmstate, fault, operands>>
    BY DEF CompileStep, NewConstant, vmVars
  <2> QED  BY <2>1, <2>2 DEF CompileStep, Alive, Known, Control, VMTypeOK
<1>2. /\ B \subseteq start .. Len(code) /\ start \in Nat /\ Len(code) \in Nat
      /\ Len(constants) \in Nat /\ Len(heap) \in Nat /\ Len(pool) = Len(constants)
      /\ Cell = 1 .. Len(heap) /\ freed \subseteq Cell /\ BlockTypeOK
      /\ heap \in Seq(Value) /\ pool \in Seq(Cell)
      /\ \A i \in 1 .. Len(pool) : pool[i] \in Cell
  BY TypeFacts DEF Known, Decoded, Control, VMTypeOK
<1>3. CASE Parsed
  <2>1. B2 = B
    <3>1. Len(code') = Len(code) /\ Len(code) \in B
      BY <1>3 DEF Parsed, blockVars, Known, Decoded
    <3> QED  BY <3>1
  <2>2. UNCHANGED <<code, constants, phase, heap, pool>>
    BY <1>3 DEF Parsed, blockVars, CompileStep, vmVars
  <2> QED  BY <1>1, <2>1, <2>2, LiveStutters
<1>4. CASE Extended /\ ~Parsed
  <2>1. /\ B2 = B \cup {Len(code')}
        /\ \A i \in 1 .. Len(code) : code'[i] = code[i]
        /\ Len(code') > Len(code) /\ Len(code') \in Nat
    <3>1. Width(code'[Len(code) + 1]) \in 1 .. 2
      BY DEF Width
    <3> QED  BY <1>2, <1>4, <3>1 DEF Extended
  <2>2. ASSUME NEW b \in B2, Pending(b, B2)', b # Len(code)
        PROVE  /\ b \in B /\ Pending(b, B) /\ code'[b + 2] = code[b + 2]
               /\ b + 2 <= Len(code) /\ code[b + 2] \in Nat /\ code[b + 2] < Len(constants)
               /\ code[b + 2] + 1 \in 1 .. Len(pool) /\ ConstantOf(b) \in Cell
    <3>1. b \in B /\ b < Len(code) /\ code'[b + 1] = OP_CONSTANT /\ b \in Nat
      BY <1>2, <2>1, <2>2 DEF Pending
    <3>2. Pending(b, B)
      BY <1>1, <1>2, <2>1, <3>1 DEF Pending
    <3>3. b + 2 <= Len(code)
      BY <3>1, <3>2, PendingFacts
    <3> QED  BY <1>2, <2>1, <3>1, <3>2, <3>3, PendingFacts
  <2>3. CASE ~AppendedConstant
    <3>1. constants' = constants /\ (Len(code) \in B => code'[Len(code) + 1] # OP_CONSTANT)
      BY <1>1, <1>4, <2>3, ParseStepEffect, AppendProperties, OpNumbers
         DEF Appended, AppendedReturn, BlockTypeOK, Known
    <3>2. heap' = heap /\ pool' = pool
      BY <3>1 DEF CompileStep, vmVars
    <3>3. \A b \in B2 : Pending(b, B2)' =>
             /\ b \in B /\ Pending(b, B) /\ code'[b + 2] = code[b + 2]
             /\ ConstantOf(b)' = ConstantOf(b)
      <4>1. \A b \in B2 : Pending(b, B2)' => b # Len(code)
        BY <2>1, <3>1 DEF Pending, Known, Decoded
      <4> QED  BY <2>2, <3>2, <4>1 DEF ConstantOf
    <3>4. ConstantsLive(B) => ConstantsLive(B2)'
      BY <1>1, <3>2, <3>3 DEF ConstantsLive
    <3> QED  BY <1>1, <3>1, <3>2, <3>4
             DEF LivePart, LiveValues, IndicesFit, LeftOperandIsNormalized, ObjectOperationsGetObjects
  <2>4. CASE AppendedConstant
    <3>1. PICK type \in ValueType : EmitConstant(type)
      BY <2>4 DEF AppendedConstant
    <3>2. /\ constants' = Append(constants, type)
          /\ code' = code \o <<OP_CONSTANT, Len(constants) % WordSize>>
      BY <3>1 DEF EmitConstant
    <3>3. Len(constants') = Len(constants) + 1 /\ constants'[Len(constants')] = type
          /\ code'[Len(code) + 2] = Len(constants) % WordSize
      BY <1>2, <3>2 DEF BlockTypeOK
    <3>4. NewConstant(type)
      BY <1>2, <3>3 DEF CompileStep
    <3>5. /\ heap' = Append(heap, NewValue(type)) /\ pool' = Append(pool, Len(heap) + 1)
      BY <3>4 DEF NewConstant
    <3>6. /\ heap'[Len(heap) + 1] = NewValue(type)
          /\ \A c \in Cell : heap'[c] = heap[c]
          /\ Len(pool') = Len(pool) + 1 /\ pool'[Len(pool) + 1] = Len(heap) + 1
          /\ \A i \in 1 .. Len(pool) : pool'[i] = pool[i]
      BY <1>2, <3>5, RepFacts, AppendProperties
    <3>7. Len(heap) + 1 \notin Cell
      BY <1>2
    <3>8. \A i, j \in 1 .. Len(pool') : pool'[i] = pool'[j] => i = j
      <4> SUFFICES ASSUME NEW i \in 1 .. Len(pool'), NEW j \in 1 .. Len(pool'),
                          pool'[i] = pool'[j]
                   PROVE  i = j
        OBVIOUS
      <4>1. /\ i \in 1 .. Len(pool) \/ i = Len(pool) + 1
            /\ j \in 1 .. Len(pool) \/ j = Len(pool) + 1
        <5>1. PICK n \in Nat : n = Len(pool)
          BY <1>2
        <5>2. i \in 1 .. n + 1 /\ j \in 1 .. n + 1
          BY <3>6, <5>1
        <5> QED  BY <5>1, <5>2
      <4>2. \A x \in 1 .. Len(pool) : pool'[x] # Len(heap) + 1
        BY <1>2, <3>6, <3>7
      <4> QED  BY <3>6, <4>1, <4>2 DEF LivePart
    <3>9. ASSUME IndicesFit'
          PROVE  LiveValues(B2)'
      <4>1. code'[Len(code) + 2] = Len(constants) /\ IndicesFit
        <5>1. Len(constants) + 1 <= WordSize /\ WordSize \in Nat
          BY <3>3, <3>9, WordSizeAssumption DEF IndicesFit
        <5>2. Len(constants) % WordSize = Len(constants)
          BY <1>2, <5>1, SmallModulo
        <5> QED  BY <1>2, <3>3, <5>1, <5>2 DEF IndicesFit
      <4>2. ConstantsLive(B)
        BY <1>1, <4>1 DEF LivePart, LiveValues
      <4>3. ASSUME NEW b \in B2, Pending(b, B2)'
            PROVE  /\ ConstantOf(b)' \notin freed' /\ Tagged(heap[ConstantOf(b)])'
                   /\ \A other \in B2 : Pending(other, B2)' /\ code'[other + 2] = code'[b + 2]
                                          => other = b
        <5>1. CASE b = Len(code)
          <6>1. ConstantOf(b)' = Len(heap) + 1
            BY <1>2, <3>6, <4>1, <5>1 DEF ConstantOf
          <6>2. Tagged(heap'[ConstantOf(b)'])
            BY <3>6, <6>1, RepFacts
          <6>3. \A other \in B2 : Pending(other, B2)' /\ other # Len(code)
                    => code'[other + 2] # Len(constants)
            BY <1>2, <2>2
          <6> QED  BY <1>1, <1>2, <3>7, <4>1, <5>1, <6>1, <6>2, <6>3 DEF Tagged
        <5>2. CASE b # Len(code)
          <6>1. /\ b \in B /\ Pending(b, B) /\ code'[b + 2] = code[b + 2]
                /\ code[b + 2] < Len(constants) /\ code[b + 2] \in Nat
                /\ code[b + 2] + 1 \in 1 .. Len(pool) /\ ConstantOf(b) \in Cell
            BY <2>2, <4>3, <5>2
          <6>2. ConstantOf(b)' = ConstantOf(b)
            BY <3>6, <6>1 DEF ConstantOf
          <6>3. /\ ConstantOf(b) \notin freed /\ Tagged(heap[ConstantOf(b)])
                /\ \A other \in B : Pending(other, B) /\ code[other + 2] = code[b + 2]
                                       => other = b
            BY <4>2, <6>1 DEF ConstantsLive
          <6>4. ASSUME NEW other \in B2, Pending(other, B2)', code'[other + 2] = code'[b + 2]
                PROVE  other = b
            <7>1. other # Len(code)
              <8>1. code'[b + 2] # Len(constants)
                BY <1>2, <6>1
              <8> QED  BY <4>1, <6>4, <8>1
            <7>2. other \in B /\ Pending(other, B) /\ code'[other + 2] = code[other + 2]
              BY <2>2, <6>4, <7>1
            <7> QED  BY <6>1, <6>3, <6>4, <7>2
          <6>5. Tagged(heap'[ConstantOf(b)'])
            BY <3>6, <6>1, <6>2, <6>3
          <6> QED  BY <1>1, <6>2, <6>3, <6>4, <6>5 DEF Tagged
        <5> QED  BY <5>1, <5>2
      <4>4. Len(vstack') = 0
        BY <1>1
      <4>5. ConstantsLive(B2)'
        BY <4>3, <4>4 DEF ConstantsLive
      <4> QED  BY <1>1, <4>1, <4>5
               DEF LivePart, LiveValues, LeftOperandIsNormalized, ObjectOperationsGetObjects
    <3> QED  BY <3>8, <3>9 DEF LivePart
  <2> QED  BY <2>3, <2>4
<1> QED  BY <1>3, <1>4

(* Pushing a constant moves its cell from the ones to be pushed to the     *)
(* stack.                                                                  *)
LEMMA PushConstantLive ==
  ASSUME NEW B, NEW D, Known(B, D), LivePart(B), UNCHANGED compilerVars, PushConstant
  PROVE  LivePart(B)'
<1>1. /\ vmstate = "running" /\ Instruction = OP_CONSTANT /\ vstack' = Append(vstack, Operand)
      /\ ip' = ip + 2 /\ UNCHANGED <<heap, freed, pool, vmstate, fault, operands>>
  BY DEF PushConstant, Executes, vmControl
<1>2. UNCHANGED <<code, constants, phase>> /\ phase = "compiled"
  BY <1>1, CompilerRests, AtInstruction
<1>3. /\ ip \in B /\ ip \in Nat /\ Pending(ip, B) /\ ConstantOf(ip) = Operand
  BY <1>1, AtInstruction DEF Pending, ConstantOf, Instruction, Operand
<1>4. /\ Len(vstack) \in Nat /\ Len(vstack') = Len(vstack) + 1
      /\ vstack'[Len(vstack) + 1] = Operand
      /\ \A i \in 1 .. Len(vstack) : vstack'[i] = vstack[i]
  <2>1. Operand \in Cell
    BY <1>3, PendingFacts
  <2> QED  BY <1>1, <2>1, AppendProperties, TypeFacts DEF Known, VMTypeOK
<1>5. \A b \in B : Pending(b, B)' => Pending(b, B) /\ b # ip /\ ConstantOf(b)' = ConstantOf(b)
  <2>1. ASSUME NEW b \in B, Pending(b, B)'
        PROVE  Pending(b, B) /\ b # ip /\ ConstantOf(b)' = ConstantOf(b)
    <3>1. ip + 2 <= b /\ b < Len(code) /\ code[b + 1] = OP_CONSTANT
      BY <1>1, <1>2, <2>1 DEF Pending
    <3>2. b \in Int
      BY TypeFacts DEF Known, Decoded
    <3>3. ip <= b /\ b # ip
      BY <1>3, <3>1, <3>2
    <3>4. ConstantOf(b)' = ConstantOf(b)
      BY <1>1, <1>2 DEF ConstantOf
    <3> QED  BY <3>1, <3>3, <3>4 DEF Pending
  <2> QED  BY <2>1
<1>6. ASSUME IndicesFit PROVE ConstantsLive(B)' /\ StackLive'
  <2>1. ConstantsLive(B) /\ StackLive
    BY <1>1, <1>2, <1>6 DEF LivePart, LiveValues
  <2>2. /\ Operand \notin freed /\ Tagged(heap[Operand])
        /\ \A i \in 1 .. Len(vstack) : vstack[i] # Operand
    BY <1>3, <2>1 DEF ConstantsLive
  <2>3. StackLive'
    <3>1. \A i \in 1 .. Len(vstack') : i \in 1 .. Len(vstack) \/ i = Len(vstack) + 1
      BY <1>4
    <3> QED  BY <1>1, <1>4, <2>1, <2>2, <3>1 DEF StackLive, Tagged
  <2>4. ASSUME NEW b \in B, Pending(b, B)'
        PROVE  \A i \in 1 .. Len(vstack') : vstack'[i] # ConstantOf(b)
    <3>1. /\ Pending(b, B) /\ code[b + 2] # code[ip + 2]
          /\ \A i \in 1 .. Len(vstack) : vstack[i] # ConstantOf(b)
      BY <1>3, <1>5, <2>1, <2>4 DEF ConstantsLive
    <3>2. ConstantOf(b) # ConstantOf(ip)
      <4>1. /\ code[b + 2] + 1 \in 1 .. Len(pool) /\ code[ip + 2] + 1 \in 1 .. Len(pool)
            /\ code[b + 2] \in Nat /\ code[ip + 2] \in Nat
        BY <1>3, <3>1, PendingFacts
      <4>2. code[b + 2] + 1 # code[ip + 2] + 1
        BY <3>1, <4>1
      <4> QED  BY <4>1, <4>2 DEF LivePart, ConstantOf
    <3> QED  BY <1>3, <1>4, <3>1, <3>2
  <2>5. ConstantsLive(B)'
    BY <1>1, <1>2, <1>5, <2>1, <2>4 DEF ConstantsLive, Tagged
  <2> QED  BY <2>3, <2>5
<1> QED  BY <1>1, <1>2, <1>6
         DEF LivePart, LiveValues, IndicesFit, LeftOperandIsNormalized, ObjectOperationsGetObjects

(* An instruction converts at most the operands that it takes from the     *)
(* stack, and its result is a new cell.                                    *)
LEMMA CreatesLive ==
  ASSUME NEW B, NEW D, Known(B, D), LivePart(B), UNCHANGED compilerVars,
         NEW k, NEW cells, NEW val, Creates(k, cells, val),
         \A c \in Cell : (\A i \in Len(vstack) + 1 - k .. Len(vstack) : vstack[i] # c)
                           => cells[c] = heap[c],
         IndicesFit => LeftOperandIsNormalized' /\ ObjectOperationsGetObjects'
  PROVE  LivePart(B)'
<1>1. /\ vmstate = "running" /\ k \in 0 .. Len(vstack) /\ val \in Value
      /\ Tagged(val) \/ val.rep = "null_obj"
  BY DEF Creates
<1>2. /\ Len(heap') = Len(heap) + 1 /\ Len(vstack') = Len(vstack) + 1 - k
      /\ vstack'[Len(vstack')] = Len(heap')
      /\ \A i \in 1 .. Len(vstack) - k : vstack'[i] = vstack[i]
      /\ heap'[Len(heap')] = val
      /\ \A c \in 1 .. Len(heap) : heap'[c] = cells[c]
      /\ ip' = ip + 1 /\ UNCHANGED <<freed, pool, vmstate, fault>>
  BY PushFacts DEF Creates, Known
<1>3. UNCHANGED <<code, constants, phase>> /\ phase = "compiled" /\ ip \in Nat
  BY <1>1, CompilerRests, AtInstruction
<1>4. /\ Len(vstack) \in Nat /\ Len(heap) \in Nat /\ Cell = 1 .. Len(heap) /\ freed \subseteq Cell
      /\ \A i \in 1 .. Len(vstack) : vstack[i] \in Cell
  BY TypeFacts DEF Known, VMTypeOK
<1>5. PICK kept \in Nat : kept = Len(vstack) - k
  <2>1. Len(vstack) - k \in Nat
    BY <1>1, <1>4
  <2> QED  BY <2>1
<1>6. /\ kept <= Len(vstack) /\ Len(vstack') = kept + 1
      /\ \A i \in 1 .. Len(vstack') : i \in 1 .. kept \/ i = kept + 1
      /\ \A i \in 1 .. kept : i \in 1 .. Len(vstack) /\ vstack'[i] = vstack[i]
                                 /\ vstack'[i] \in Cell
      /\ vstack'[kept + 1] = Len(heap) + 1 /\ Len(heap) + 1 \notin Cell
  <2>1. kept <= Len(vstack) /\ Len(vstack) + 1 - k = kept + 1
    BY <1>1, <1>4, <1>5
  <2>2. Len(vstack') = kept + 1
    BY <1>2, <2>1
  <2>3. \A i \in 1 .. kept : i \in 1 .. Len(vstack) /\ vstack'[i] = vstack[i]
    BY <1>2, <1>4, <1>5, <2>1
  <2>4. \A i \in 1 .. kept + 1 : i \in 1 .. kept \/ i = kept + 1
    OBVIOUS
  <2>5. vstack'[kept + 1] = Len(heap) + 1 /\ Len(heap) + 1 \notin Cell
    BY <1>2, <1>4, <2>2
  <2> QED  BY <1>4, <2>1, <2>2, <2>3, <2>4, <2>5
<1>7. \A c \in Cell : (\A i \in kept + 1 .. Len(vstack) : vstack[i] # c) => heap'[c] = heap[c]
  BY <1>1, <1>2, <1>4, <1>5
<1>8. \A b \in B : Pending(b, B)' => Pending(b, B) /\ ConstantOf(b)' = ConstantOf(b)
  <2>1. ASSUME NEW b \in B, Pending(b, B)'
        PROVE  Pending(b, B) /\ ConstantOf(b)' = ConstantOf(b)
    <3>1. ip + 1 <= b /\ b < Len(code) /\ code[b + 1] = OP_CONSTANT
      BY <1>1, <1>2, <1>3, <2>1 DEF Pending
    <3>2. b \in Int
      BY TypeFacts DEF Known, Decoded
    <3>3. ip <= b
      BY <1>3, <3>1, <3>2
    <3> QED  BY <1>2, <1>3, <3>1, <3>3 DEF Pending, ConstantOf
  <2> QED  BY <2>1
<1>9. ASSUME IndicesFit PROVE ConstantsLive(B)' /\ StackLive'
  <2>1. ConstantsLive(B) /\ StackLive
    BY <1>1, <1>3, <1>9 DEF LivePart, LiveValues
  <2>2. ASSUME NEW i \in 1 .. kept
        PROVE  /\ vstack'[i] \notin freed
               /\ Tagged(heap'[vstack'[i]]) \/ heap'[vstack'[i]].rep = "null_obj"
    <3>1. \A j \in kept + 1 .. Len(vstack) : vstack[j] # vstack[i]
      BY <1>4, <1>6, <2>1 DEF StackLive
    <3>2. heap'[vstack[i]] = heap[vstack[i]] /\ vstack'[i] = vstack[i]
      BY <1>6, <1>7, <3>1
    <3> QED  BY <1>6, <2>1, <3>2 DEF StackLive
  <2>3. /\ vstack'[kept + 1] \notin freed
        /\ Tagged(heap'[vstack'[kept + 1]]) \/ heap'[vstack'[kept + 1]].rep = "null_obj"
    BY <1>1, <1>2, <1>4, <1>6
  <2>4. \A i, j \in 1 .. Len(vstack') : vstack'[i] = vstack'[j] => i = j
    BY <1>6, <2>1 DEF StackLive
  <2>5. StackLive'
    BY <1>2, <1>6, <2>2, <2>3, <2>4 DEF StackLive, Tagged
  <2>6. ASSUME NEW b \in B, Pending(b, B)'
        PROVE  /\ Pending(b, B) /\ ConstantOf(b)' = ConstantOf(b)
               /\ ConstantOf(b) \notin freed /\ Tagged(heap'[ConstantOf(b)])
               /\ \A i \in 1 .. Len(vstack') : vstack'[i] # ConstantOf(b)
    <3>1. /\ Pending(b, B) /\ ConstantOf(b)' = ConstantOf(b)
          /\ ConstantOf(b) \notin freed /\ Tagged(heap[ConstantOf(b)])
          /\ \A i \in 1 .. Len(vstack) : vstack[i] # ConstantOf(b)
      BY <1>8, <2>1, <2>6 DEF ConstantsLive
    <3>2. ConstantOf(b) \in Cell
      BY <3>1, PendingFacts
    <3>3. heap'[ConstantOf(b)] = heap[ConstantOf(b)]
      <4>1. \A i \in kept + 1 .. Len(vstack) : i \in 1 .. Len(vstack)
        BY <1>4
      <4> QED  BY <1>7, <3>1, <3>2, <4>1
    <3> QED  BY <1>6, <3>1, <3>2, <3>3
  <2>7. ConstantsLive(B)'
    <3>1. \A b \in B : \A other \in B : Pending(b, B) /\ Pending(other, B)
             /\ code[other + 2] = code[b + 2] => other = b
      BY <2>1 DEF ConstantsLive
    <3> QED  BY <1>2, <1>3, <2>6, <3>1 DEF ConstantsLive, Tagged
  <2> QED  BY <2>5, <2>7
<1> QED  BY <1>1, <1>2, <1>3, <1>9 DEF LivePart, LiveValues, IndicesFit

LEMMA BinaryLive ==
  ASSUME NEW B, NEW D, Known(B, D), LivePart(B), Binary, IndicesFit,
         NEW n \in NormalizeOperands(heap[Pop(2)], heap[Pop(1)]), operands' = n,
         ~NormalizationDenied(heap[Pop(2)], heap[Pop(1)])
  PROVE  LeftOperandIsNormalized' /\ ObjectOperationsGetObjects'
<1>1. /\ vmstate = "running" /\ Len(vstack) >= 2 /\ Pop(1) \in Cell /\ Pop(2) \in Cell
      /\ \A c \in Traced : heap[c].rep # "null_obj"
  BY BinaryCreates
<1>2. StackLive /\ Len(vstack) \in Nat /\ \A c \in Cell : heap[c] \in Value
  BY <1>1, TypeFacts DEF Known, LivePart, LiveValues
<1>3. \A i \in 1 .. Len(vstack) : Tagged(heap[vstack[i]])
  BY <1>1, <1>2 DEF StackLive, Traced, Elements
<1>4. Tagged(heap[Pop(1)]) /\ Tagged(heap[Pop(2)])
  BY <1>1, <1>2, <1>3 DEF Pop
<1>5. /\ SameRep(n[1].rep, RepOf(n[3]))
      /\ n[3] = "VAL_OBJ" => n[1].rep = "obj" /\ n[2].rep = "obj"
  BY <1>1, <1>2, <1>4, NormalizationFacts
<1> QED  BY <1>5 DEF LeftOperandIsNormalized, ObjectOperationsGetObjects

LEMMA RunLive ==
  ASSUME NEW B, NEW D, Known(B, D), LivePart(B), Run
  PROVE  LivePart(B)'
<1>1. /\ UNCHANGED compilerVars /\ UNCHANGED <<code, constants, phase>>
      /\ phase = "compiled" /\ Alive
  BY CompilerRests DEF Run
<1>2. CASE RunStart
  BY <1>1, <1>2, RunStartLive
<1>3. CASE TraceFaults \/ UnaryFaults \/ BinaryFaults
  <2>1. /\ vmstate = "running" /\ vmstate' = "crashed" /\ UNCHANGED <<pool, operands>>
        /\ fault' = "use_after_free" => Traced \cap freed # {}
    BY <1>1, <1>3, FaultsKnown DEF TraceFaults, UnaryFaults, BinaryFaults, Crash, vmControl
  <2>2. ASSUME IndicesFit PROVE Traced \cap freed = {}
    <3>1. ConstantsLive(B) /\ StackLive
      BY <1>1, <2>1, <2>2 DEF LivePart, LiveValues
    <3>2. Elements(vstack) \cap freed = {}
      <4>1. DOMAIN vstack = 1 .. Len(vstack)
        BY DEF Known, VMTypeOK
      <4> QED  BY <3>1, <4>1 DEF StackLive, Elements
    <3>3. Instruction = OP_CONSTANT => Pending(ip, B) /\ ip \in B /\ ConstantOf(ip) = Operand
      BY <2>1, AtInstruction DEF Pending, ConstantOf, Instruction, Operand
    <3>4. Instruction = OP_CONSTANT => Operand \notin freed
      BY <3>1, <3>3 DEF ConstantsLive
    <3> QED  BY <3>2, <3>4 DEF Traced
  <2> QED  BY <1>1, <2>1, <2>2, LiveRests
<1>4. CASE PushConstant
  BY <1>1, <1>4, PushConstantLive
<1>5. CASE Exit \/ Crash("divide")
  <2>1. /\ vmstate' \in {"exited", "crashed"} /\ fault' \in {fault, "divide"}
        /\ UNCHANGED <<pool, operands>>
    BY <1>5 DEF Exit, Crash, vmControl
  <2> QED  BY <1>1, <2>1, LiveRests
<1>6. CASE PushLiteral \/ Negate \/ Not
  <2>1. ASSUME NEW k, NEW val, Creates(k, heap, val), operands' = operands
        PROVE  LivePart(B)'
    <3>1. IndicesFit => LeftOperandIsNormalized' /\ ObjectOperationsGetObjects'
      BY <2>1 DEF LivePart, LiveValues, LeftOperandIsNormalized, ObjectOperationsGetObjects
    <3> QED  BY <1>1, <2>1, <3>1, CreatesLive
  <2> QED  BY <1>1, <1>5, <1>6, <2>1, CreatingInstructions
<1>7. CASE Binary
  <2>1. ASSUME NEW n, n \in NormalizeOperands(heap[Pop(2)], heap[Pop(1)]), operands' = n,
               ~NormalizationDenied(heap[Pop(2)], heap[Pop(1)]),
               Creates(2, Normalized(n), BinaryResult(Instruction, n[3]))
        PROVE  LivePart(B)'
    <3>1. Len(vstack) \in Nat /\ Len(vstack) >= 2 /\ heap \in Seq(Value)
      BY <1>7, BinaryCreates, TypeFacts DEF Known, VMTypeOK
    <3>2. ASSUME NEW c \in Cell, \A i \in Len(vstack) + 1 - 2 .. Len(vstack) : vstack[i] # c
          PROVE  Normalized(n)[c] = heap[c]
      <4>1. c # Pop(1) /\ c # Pop(2)
        BY <3>1, <3>2 DEF Pop
      <4>2. c \in DOMAIN heap
        BY <3>1 DEF Cell
      <4> QED  BY <4>1, <4>2 DEF Normalized
    <3>3. IndicesFit => LeftOperandIsNormalized' /\ ObjectOperationsGetObjects'
      BY <1>7, <2>1, BinaryLive
    <3> QED  BY <1>1, <2>1, <3>2, <3>3, CreatesLive
  <2> QED  BY <1>5, <1>7, <2>1, BinaryCreates
<1>8. CASE ReturnOp
  <2>1. /\ vmstate = "running" /\ vmstate' = "returned"
        /\ UNCHANGED <<heap, freed, pool, vstack, fault, operands>>
    BY <1>1, <1>8, ReturnOpKnown
  <2>2. StackLive => StackLive'
    BY <2>1 DEF StackLive
  <2> QED  BY <1>1, <2>1, <2>2
           DEF LivePart, LiveValues, IndicesFit, LeftOperandIsNormalized, ObjectOperationsGetObjects
<1> QED  BY <1>2, <1>3, <1>4, <1>6, <1>7, <1>8 DEF Run, RunStep

LEMMA PrintAnswerLive ==
  ASSUME NEW B, NEW D, Known(B, D), LivePart(B), PrintAnswer
  PROVE  LivePart(B)'
<1>1. /\ vmstate = "returned" /\ vmstate' \in {"idle", "crashed"}
      /\ vmstate' = "idle" => phase' = "ready"
      /\ UNCHANGED <<pool, operands, constants>>
      /\ fault' # fault =>
           \/ fault' = "null_value"
           \/ fault' = "use_after_free" /\ Len(vstack) >= 1 /\ Pop(1) \in freed
  BY PrintAnswerKnown
<1>2. ASSUME IndicesFit, Len(vstack) >= 1 PROVE Pop(1) \notin freed
  BY <1>1, <1>2, TypeFacts DEF Known, LivePart, LiveValues, StackLive, Pop
<1> QED  BY <1>1, <1>2, LiveRests

-----------------------------------------------------------------------------
(* Who owns the answer.  An answer that is alone on the stack is one of    *)
(* the constants just after the first instruction pushed it.               *)
BarePart ==
  ~hadError =>
    /\ vmstate = "running" /\ Len(vstack) = 1 =>
         (vstack[1] \in Elements(pool) <=> ip = start + 2 /\ code[start + 1] = OP_CONSTANT)
    /\ vmstate = "returned" =>
         (vstack[1] \in Elements(pool)
            <=> Len(code) = start + 3 /\ code[start + 1] = OP_CONSTANT)
    /\ OnlyBareConstantsAreShared

LEMMA BareRests ==
  ASSUME vmstate' \notin {"running", "returned"}, phase' # "ready" \/ vmstate' # "idle"
  PROVE  BarePart'
BY DEF BarePart, OnlyBareConstantsAreShared

LEMMA PushConstantBare ==
  ASSUME NEW B, NEW D, Known(B, D), UNCHANGED compilerVars, PushConstant
  PROVE  BarePart'
<1>1. /\ vmstate = "running" /\ Instruction = OP_CONSTANT /\ vstack' = Append(vstack, Operand)
      /\ ip' = ip + 2 /\ vmstate' = vmstate /\ pool' = pool
  BY DEF PushConstant, Executes, vmControl
<1>2. /\ UNCHANGED <<code, start, hadError, phase>> /\ ip \in B /\ ip \in Nat
      /\ ~hadError => Len(vstack) = D[ip]
      /\ code[ip + 2] + 1 \in 1 .. Len(pool) /\ Operand = pool[code[ip + 2] + 1]
      /\ Operand \in Cell
  BY <1>1, CompilerRests, AtInstruction, OpNumbers
<1>3. /\ vstack \in Seq(Cell) /\ DOMAIN pool = 1 .. Len(pool) /\ Len(vstack) \in Nat
      /\ B \subseteq start .. Len(code) /\ start \in Nat
      /\ ~hadError => \A b \in B : b > start => D[b] >= 1
  BY TypeFacts DEF Known, VMTypeOK, Decoded
<1>4. Operand \in Elements(pool)
  BY <1>2, <1>3 DEF Elements
<1>5. ASSUME ~hadError, Len(vstack') = 1
      PROVE  vstack'[1] = Operand /\ ip = start
  <2>1. Len(vstack) = 0 /\ vstack'[1] = Operand
    BY <1>1, <1>2, <1>3, <1>5, AppendProperties
  <2>2. ~(ip > start)
    BY <1>2, <1>3, <1>5, <2>1
  <2> QED  BY <1>2, <1>3, <2>1, <2>2
<1> QED  BY <1>1, <1>2, <1>3, <1>4, <1>5
         DEF BarePart, OnlyBareConstantsAreShared, Instruction, Elements

LEMMA CreatesBare ==
  ASSUME NEW B, NEW D, Known(B, D), UNCHANGED compilerVars,
         NEW k, NEW cells, NEW val, Creates(k, cells, val)
  PROVE  BarePart'
<1>1. /\ vmstate' = "running" /\ pool' = pool /\ ip' = ip + 1
      /\ Len(heap') = Len(heap) + 1 /\ vstack'[Len(vstack')] = Len(heap')
  BY PushFacts DEF Creates, Known
<1>2. /\ UNCHANGED <<code, start, hadError, phase>> /\ ip \in B /\ ip \in Nat /\ ip < Len(code)
  BY CompilerRests, AtInstruction DEF Creates
<1>3. /\ \A i \in DOMAIN pool : pool[i] \in Cell
      /\ Cell = 1 .. Len(heap) /\ Len(heap) \in Nat /\ start \in Nat
      /\ start \in B /\ start < Len(code) => InstructionAt(start, B, D)
      /\ start \in B /\ Len(code) \in Nat
  BY TypeFacts DEF Known, VMTypeOK, Decoded
<1>4. Len(heap') \notin Elements(pool)
  BY <1>1, <1>3 DEF Elements
<1>5. ~(ip' = start + 2 /\ code[start + 1] = OP_CONSTANT)
  <2>1. ASSUME ip' = start + 2, code[start + 1] = OP_CONSTANT PROVE FALSE
    <3>1. ip = start + 1 /\ start < Len(code)
      BY <1>1, <1>2, <1>3, <2>1
    <3>2. start + 1 \notin B
      BY <1>3, <2>1, <3>1 DEF InstructionAt
    <3> QED  BY <1>2, <3>1, <3>2
  <2> QED  BY <2>1
<1> QED  BY <1>1, <1>2, <1>4, <1>5 DEF BarePart, OnlyBareConstantsAreShared, Elements

LEMMA RunBare ==
  ASSUME NEW B, NEW D, Known(B, D), BarePart, Run
  PROVE  BarePart'
<1>1. UNCHANGED compilerVars /\ UNCHANGED <<code, start, hadError, phase>> /\ Alive
      /\ phase = "compiled"
  BY CompilerRests DEF Run
<1>2. CASE RunStart
  <2>1. vmstate' = "running" /\ vstack' = << >>
    BY <1>1, <1>2 DEF RunStart, Known, Control
  <2> QED  BY <1>1, <2>1 DEF BarePart, OnlyBareConstantsAreShared
<1>3. CASE TraceFaults \/ UnaryFaults \/ BinaryFaults \/ Exit \/ Crash("divide")
  <2>1. vmstate' \in {"exited", "crashed"}
    BY <1>3 DEF TraceFaults, UnaryFaults, BinaryFaults, Exit, Crash
  <2> QED  BY <2>1, BareRests
<1>4. CASE PushConstant
  BY <1>1, <1>4, PushConstantBare
<1>5. CASE PushLiteral \/ Negate \/ Not
  BY <1>1, <1>3, <1>5, CreatingInstructions, CreatesBare
<1>6. CASE Binary
  BY <1>1, <1>3, <1>6, BinaryCreates, CreatesBare
<1>7. CASE ReturnOp
  <2>1. /\ vmstate = "running" /\ vmstate' = "returned" /\ UNCHANGED <<pool, vstack>>
        /\ ip = Len(code) - 1
    BY <1>1, <1>7, ReturnOpKnown
  <2>2. ~hadError => Len(vstack) = 1
    BY <1>1, <1>7, <2>1, ReturnOpKnown DEF Known, RunPart
  <2>3. Len(code) \in Nat /\ start \in Nat
    BY TypeFacts DEF Known
  <2>4. ip = start + 2 <=> Len(code) = start + 3
    BY <2>1, <2>3
  <2> QED  BY <1>1, <2>1, <2>2, <2>4 DEF BarePart, OnlyBareConstantsAreShared, Elements
<1> QED  BY <1>2, <1>3, <1>4, <1>5, <1>6, <1>7 DEF Run, RunStep

LEMMA PrintAnswerBare ==
  ASSUME NEW B, NEW D, Known(B, D), BarePart, PrintAnswer
  PROVE  BarePart'
<1>1. /\ vmstate = "returned" /\ vmstate' \in {"idle", "crashed"}
      /\ vmstate' = "idle" => phase' = "ready"
      /\ UNCHANGED <<code, start, hadError, pool, vstack>>
  BY PrintAnswerKnown
<1>2. ASSUME ~hadError, Len(code) = start + 3 PROVE code # << >>
  <2>1. start \in Nat
    BY TypeFacts DEF Known
  <2>2. Len(code) # 0
    BY <1>2, <2>1
  <2> QED  BY <2>2
<1>3. ~hadError => Elements(vstack) = {vstack[1]}
  BY <1>1 DEF Known, RunPart, VMTypeOK, Elements
<1>4. ~hadError => OnlyBareConstantsAreShared'
  <2>1. ASSUME ~hadError
        PROVE  Elements(vstack) \cap Elements(pool) # {} <=> vstack[1] \in Elements(pool)
    BY <1>3, <2>1
  <2> QED  BY <1>1, <1>2, <2>1 DEF BarePart, OnlyBareConstantsAreShared, Elements
<1> QED  BY <1>1, <1>4 DEF BarePart

-----------------------------------------------------------------------------
SessionInv == \E B, D : Known(B, D) /\ LivePart(B) /\ BarePart

LEMMA SessionStart == SessionInit => SessionInv
<1> SUFFICES ASSUME SessionInit PROVE SessionInv
  OBVIOUS
<1>1. IndInv
  BY InitIndInv DEF SessionInit
<1>2. /\ code = << >> /\ constants = << >> /\ start = 0 /\ depth = 0 /\ phase = "ready"
      /\ hadError = FALSE
      /\ heap = << >> /\ freed = {} /\ pool = << >> /\ vstack = << >> /\ ip = 0 /\ lastIp = 0
      /\ vmstate = "idle" /\ fault = "none" /\ operands = NoOperands
  BY DEF SessionInit, Init, VMInit, BlockInit
<1>3. Len(code) = 0 /\ Len(heap) = 0 /\ Len(pool) = 0 /\ Len(constants) = 0
  BY <1>2
<1>4. VMTypeOK
  BY <1>2, <1>3 DEF VMTypeOK, Fault
<1> DEFINE B == {0}
           D == [b \in {0} |-> 0]
<1>5. Decoded(B, D)
  BY <1>2, <1>3 DEF Decoded
<1>6. Control /\ RunPart(B, D)
  BY <1>2, <1>3 DEF Control, RunPart
<1>7. Known(B, D)
  BY <1>1, <1>4, <1>5, <1>6 DEF Known
<1>8. LivePart(B)
  BY <1>2, <1>3 DEF LivePart, LiveValues, LeftOperandIsNormalized, ObjectOperationsGetObjects
<1>9. BarePart
  BY <1>2, <1>3 DEF BarePart, OnlyBareConstantsAreShared, Elements
<1> QED  BY <1>7, <1>8, <1>9 DEF SessionInv

LEMMA SessionStep == SessionInv /\ [SessionNext]_sessionVars => SessionInv'
<1> SUFFICES ASSUME NEW B, NEW D, Known(B, D), LivePart(B), BarePart,
                    [SessionNext]_sessionVars
             PROVE  \E B2, D2 : Known(B2, D2)' /\ LivePart(B2)' /\ BarePart'
  BY DEF SessionInv
<1>1. CASE ReadInput
  <2>1. /\ UNCHANGED vmVars /\ constants' = constants
        /\ vmstate = "idle" /\ phase' \in {"opened", "exited"}
    BY <1>1 DEF ReadInput, Open, blockVars
  <2>2. UNCHANGED <<pool, operands, fault, vmstate>>
    BY <2>1 DEF vmVars
  <2> QED  BY <1>1, <2>1, <2>2, ReadInputKnown, LiveRests, BareRests
<1>2. CASE Interpret
  <2>1. vmstate' = "crashed" \/ (vmstate' = "idle" /\ phase' = "compiling")
    BY <1>2, InterpretKnown
  <2> QED  BY <1>2, <2>1, InterpretLive, BareRests
<1>3. CASE CompileStep
  <2>1. /\ phase' \in {"compiling", "compiled"} /\ vmstate' = vmstate
        /\ vmstate \notin {"running", "returned"}
    <3>1. ParseStep /\ phase = "compiling"
      BY <1>3, ParseStepEffect DEF CompileStep, Known
    <3>2. vmstate' = vmstate
      BY <1>3 DEF CompileStep, NewConstant, vmVars
    <3> QED  BY <3>1, <3>2, ParseStepEffect
             DEF Known, Control, Parsed, Appended, AppendedConstant, AppendedReturn
  <2>2. BarePart'
    BY <2>1, BareRests
  <2>3. PICK B2, D2 : /\ Known(B2, D2)'
                      /\ (B2 = B /\ Parsed) \/ (B2 = B \cup {Len(code')} /\ Extended)
    BY <1>3, CompileStepKnown
  <2>4. LivePart(B2)'
    BY <1>3, <2>3, CompileStepLive
  <2> QED  BY <2>2, <2>3, <2>4
<1>4. CASE ListingFaults
  BY <1>4, ListingFaultsKnown, LiveRests, BareRests
<1>5. CASE Run
  BY <1>5, RunKnown, RunLive, RunBare
<1>6. CASE PrintAnswer
  BY <1>6, PrintAnswerKnown, PrintAnswerLive, PrintAnswerBare
<1>7. CASE Quit
  BY <1>7, QuitKnown, LiveRests, BareRests
<1>8. CASE UNCHANGED sessionVars
  <2>1. UNCHANGED <<heap, freed, pool, vstack, operands, fault, vmstate, ip,
                    code, constants, phase, start, hadError>>
    BY <1>8, StutterKnown, CompilerRests DEF vmVars
  <2>2. BarePart'
    BY <2>1 DEF BarePart, OnlyBareConstantsAreShared, Elements
  <2> QED  BY <1>8, <2>1, <2>2, StutterKnown, LiveStutters
<1> QED  BY <1>1, <1>2, <1>3, <1>4, <1>5, <1>6, <1>7, <1>8 DEF SessionNext

LEMMA SessionInvariance == SessionSpec => []SessionInv
<1> QED  BY SessionStart, SessionStep, PTL DEF SessionSpec

(* The state of compiler and machine is well-typed whatever is entered:    *)
(* every index the machine uses is inside the code and the constants, also *)
(* when it runs the code of a line with a syntax error.                    *)
THEOREM SessionTypeCorrect == SessionSpec => []SessionTypeOK
<1>1. SessionInv => SessionTypeOK
  BY DEF SessionInv, Known, IndInv, SessionTypeOK
<1> QED  BY <1>1, SessionInvariance, PTL

(* The machine starts at the first instruction of the line just compiled,  *)
(* however many lines there were before, and however they ended.           *)
THEOREM RunsNewCode == SessionSpec => []RunStartsAtNewCode
<1>1. SessionInv => RunStartsAtNewCode
  BY DEF SessionInv, Known, Control, RunStartsAtNewCode
<1> QED  BY <1>1, SessionInvariance, PTL

(* The code of an accepted line never takes more from the value stack than *)
(* it put there: a NULL is only popped after a syntax error.               *)
THEOREM NoUnderflow == SessionSpec => []UnderflowOnlyAfterSyntaxError
<1>1. SessionInv => UnderflowOnlyAfterSyntaxError
  BY DEF SessionInv, Known, Control, UnderflowOnlyAfterSyntaxError
<1> QED  BY <1>1, SessionInvariance, PTL

(* What the compiler counted is what the machine did: when the code of an  *)
(* accepted line returns, the answer is all there is on the value stack.   *)
THEOREM AnswerIsAll == SessionSpec => []AnswerIsWholeStack
<1>1. SessionInv => AnswerIsWholeStack
  BY DEF SessionInv, Known, RunPart, AnswerIsWholeStack
<1> QED  BY <1>1, SessionInvariance, PTL

(* However many lines left constants dangling in the code block, what runs *)
(* or is printed was not free()d, and no value is on the stack twice; this *)
(* holds until the constants of a session outnumber the words of the code. *)
THEOREM LiveValuesOnly == SessionSpec => [](Len(constants) <= WordSize => RunUsesLiveValues)
<1>1. ASSUME SessionInv, Len(constants) <= WordSize PROVE RunUsesLiveValues
  <2>1. PICK B, D : Known(B, D) /\ LivePart(B)
    BY <1>1 DEF SessionInv
  <2>2. LiveValues(B)
    BY <1>1, <2>1 DEF LivePart, IndicesFit
  <2>3. ASSUME vmstate \in {"running", "returned"}
        PROVE  Elements(vstack) \cap freed = {} /\ Cardinality(Elements(vstack)) = Len(vstack)
    <3>1. StackLive /\ vstack \in [1 .. Len(vstack) -> Elements(vstack)] /\ Len(vstack) \in Nat
      BY <2>1, <2>2, <2>3 DEF LiveValues, Known, VMTypeOK, Elements
    <3>2. \A cell \in Elements(vstack) : \E i \in 1 .. Len(vstack) : vstack[i] = cell
      BY <3>1 DEF Elements
    <3>3. vstack \in Bijection(1 .. Len(vstack), Elements(vstack))
      BY <3>1, <3>2 DEF StackLive, Bijection, Injection, Surjection, IsInjective
    <3>4. Cardinality(Elements(vstack)) = Len(vstack)
      BY <3>1, <3>3, FS_CountingElements DEF ExistsBijection
    <3> QED  BY <3>1, <3>2, <3>4 DEF StackLive
  <2> QED  BY <2>2, <2>3 DEF LiveValues, RunUsesLiveValues
<1>2. SessionInv => (Len(constants) <= WordSize => RunUsesLiveValues)
  BY <1>1
<1> QED  BY <1>2, SessionInvariance, PTL

(* The stack and the constant list own the answer together exactly after a *)
(* line that was a bare constant.                                          *)
THEOREM SharedMeansBare == SessionSpec => []OnlyBareConstantsAreShared
<1>1. SessionInv => OnlyBareConstantsAreShared
  BY DEF SessionInv, BarePart, OnlyBareConstantsAreShared
<1> QED  BY <1>1, SessionInvariance, PTL

(* normalize_operands() hands an operation on objects two objects, for all *)
(* the operands that lines can bring together.                             *)
THEOREM ObjectsForObjects ==
  SessionSpec => [](Len(constants) <= WordSize => ObjectOperationsGetObjects)
<1>1. SessionInv => (Len(constants) <= WordSize => ObjectOperationsGetObjects)
  BY DEF SessionInv, LivePart, LiveValues, IndicesFit
<1> QED  BY <1>1, SessionInvariance, PTL

(* The left operand of an operation is read through the member of the      *)
(* union that was stored.                                                  *)
THEOREM LeftIsNormalized ==
  SessionSpec => [](Len(constants) <= WordSize => LeftOperandIsNormalized)
<1>1. SessionInv => (Len(constants) <= WordSize => LeftOperandIsNormalized)
  BY DEF SessionInv, LivePart, LiveValues, IndicesFit
<1> QED  BY <1>1, SessionInvariance, PTL

-----------------------------------------------------------------------------
(* run_vmachine() compares its ip with nothing: it relies on the compiler  *)
(* for an OP_RETURN and for constants that exist.  Every word it fetches   *)
(* is code of the current line, and every index it takes from one is the   *)
(* index of a constant, also in code with a syntax error in it.            *)
FetchesInside ==
  vmstate = "running" =>
    /\ start <= ip /\ ip < Len(code)
    /\ Instruction \in OP_CONSTANT .. OP_RETURN
    /\ Instruction = OP_CONSTANT => ip + 2 <= Len(code) /\ code[ip + 2] < Len(pool)

(* The machine reads nothing but the code of the line and its constants.   *)
THEOREM FetchesStayInside == SessionSpec => []FetchesInside
<1>1. SessionInv => FetchesInside
  <2> SUFFICES ASSUME NEW B, NEW D, Known(B, D), vmstate = "running"
               PROVE  /\ start <= ip /\ ip < Len(code)
                      /\ Instruction \in OP_CONSTANT .. OP_RETURN
                      /\ Instruction = OP_CONSTANT
                           => ip + 2 <= Len(code) /\ code[ip + 2] < Len(pool)
    BY DEF SessionInv, FetchesInside
  <2>1. /\ ip \in B /\ ip \in Nat /\ ip < Len(code) /\ Instruction \in 0 .. 17
        /\ Instruction # 17 => ip + Width(Instruction) < Len(code)
        /\ Instruction = 0 => code[ip + 2] + 1 \in 1 .. Len(pool)
    BY AtInstruction
  <2>2. B \subseteq start .. Len(code) /\ start \in Nat /\ Len(code) \in Nat
        /\ Len(pool) \in Nat /\ \A i \in 1 .. Len(code) : code[i] \in Nat
    BY TypeFacts DEF Known, Decoded
  <2>3. start <= ip
    BY <2>1, <2>2
  <2>4. ASSUME Instruction = 0
        PROVE  ip + 2 <= Len(code) /\ code[ip + 2] < Len(pool)
    <3>1. ip + 2 < Len(code)
      BY <2>1, <2>4, OpNumbers DEF Width
    <3>2. code[ip + 2] \in Nat
      BY <2>1, <2>2, <3>1
    <3> QED  BY <2>1, <2>2, <2>4, <3>1, <3>2
  <2> QED  BY <2>1, <2>3, <2>4, OpNumbers
<1> QED  BY <1>1, SessionInvariance, PTL

-----------------------------------------------------------------------------
(* A line is answered after finitely many steps.  It goes through these    *)
(* stages, each of which only the next one follows; in the two that take   *)
(* more than a step, every step leaves less to do.                         *)
Stage ==
  IF phase = "opened"      THEN 4    \* to be compiled
  ELSE IF phase = "compiling" THEN 3 \* in compile()
  ELSE IF vmstate = "idle"    THEN 2 \* to be run
  ELSE IF vmstate = "running" THEN 1 \* in the loop of run_vmachine()
  ELSE 0                             \* to be printed

LeftInStage ==
  IF phase = "compiling" THEN StepsLeft
  ELSE IF vmstate = "running" THEN Len(code) - ip ELSE 0

Answered == phase = "ready" \/ ~Alive

(* Every step on a line brings its answer closer, unless it is the answer. *)
LinesAdvance ==
  [][Interpret \/ CompileStep \/ ListingFaults \/ Run \/ PrintAnswer =>
       \/ Answered'
       \/ Stage' < Stage
       \/ /\ Stage' = Stage
          /\ LeftInStage \in Nat /\ LeftInStage' \in Nat
          /\ LeftInStage' < LeftInStage]_sessionVars

LEMMA RunStepMoves ==
  ASSUME RunStep
  PROVE  /\ vmstate = "running"
         /\ \/ vmstate' \in {"crashed", "exited", "returned"}
            \/ vmstate' = "running" /\ ip' \in {ip + 1, ip + 2}
<1>1. CASE TraceFaults \/ UnaryFaults \/ BinaryFaults
  BY <1>1 DEF TraceFaults, UnaryFaults, BinaryFaults, Executes, Crash
<1>2. CASE PushConstant \/ PushLiteral \/ Negate \/ Not
  BY <1>2 DEF PushConstant, PushLiteral, Negate, Not, Executes, PushResult, Exit
<1>3. CASE Binary
  <2>1. Exit \/ Crash("divide") \/ (ip' = ip + 1 /\ vmstate' = vmstate)
    BY <1>3 DEF Binary, PushResult
  <2> QED  BY <1>3, <2>1 DEF Binary, Executes, Exit, Crash
<1>4. CASE ReturnOp
  BY <1>4 DEF ReturnOp, Executes
<1> QED  BY <1>1, <1>2, <1>3, <1>4 DEF RunStep

Nearer ==
  \/ Answered'
  \/ Stage' < Stage
  \/ /\ Stage' = Stage
     /\ LeftInStage \in Nat /\ LeftInStage' \in Nat
     /\ LeftInStage' < LeftInStage

LEMMA StepNearer ==
  ASSUME NEW B, NEW D, Known(B, D), SessionInv',
         Interpret \/ CompileStep \/ ListingFaults \/ Run \/ PrintAnswer
  PROVE  Nearer
<1>1. IndInv /\ Control /\ IndInv' /\ Control'
  BY DEF Known, SessionInv
<1>2. CASE Interpret
  <2>1. phase = "opened" /\ (vmstate' = "crashed" \/ phase' = "compiling")
    BY <1>2, InterpretKnown DEF Interpret
  <2>2. CASE vmstate' = "crashed"
    BY <2>2 DEF Nearer, Answered, Alive
  <2>3. CASE phase' = "compiling"
    <3>1. Stage = 4 /\ Stage' = 3
      BY <2>1, <2>3 DEF Stage
    <3> QED  BY <3>1 DEF Nearer
  <2> QED  BY <2>1, <2>2, <2>3
<1>3. CASE CompileStep
  <2>1. ParseStep /\ phase = "compiling" /\ phase' \in {"compiling", "compiled"}
    BY <1>1, <1>3, ParseStepEffect
       DEF CompileStep, Parsed, Appended, AppendedConstant, AppendedReturn
  <2>2. vmstate' = vmstate /\ vmstate \notin {"running", "returned"} /\ Alive
    BY <1>1, <1>3, <2>1 DEF CompileStep, NewConstant, vmVars, Control
  <2>3. vmstate \in {"idle", "running", "returned", "exited", "crashed", "ended"}
    BY DEF Known, VMTypeOK
  <2>4. vmstate' = "idle"
    BY <2>2, <2>3 DEF Alive
  <2>5. Closer
    BY <1>1, <2>1, ParseCloser
  <2>6. CASE phase' = "compiling"
    <3>1. Stage' = Stage /\ LeftInStage = StepsLeft /\ LeftInStage' = StepsLeft'
      BY <2>1, <2>6 DEF Stage, LeftInStage
    <3> QED  BY <2>5, <3>1 DEF Nearer, Closer
  <2>7. CASE phase' = "compiled"
    <3>1. Stage = 3 /\ Stage' = 2
      BY <2>1, <2>4, <2>7 DEF Stage
    <3> QED  BY <3>1 DEF Nearer
  <2> QED  BY <2>1, <2>6, <2>7
<1>4. CASE ListingFaults
  <2>1. vmstate' = "crashed"
    BY <1>4 DEF ListingFaults, Crash
  <2> QED  BY <2>1 DEF Nearer, Answered, Alive
<1>5. CASE Run
  <2>1. phase = "compiled" /\ phase' = "compiled" /\ code' = code
    BY <1>5 DEF Run, compilerVars, blockVars
  <2>2. CASE RunStart
    <3>1. Stage = 2 /\ Stage' = 1
      BY <2>1, <2>2 DEF Stage, RunStart
    <3> QED  BY <3>1 DEF Nearer
  <2>3. CASE RunStep
    <3>1. /\ vmstate = "running"
          /\ \/ vmstate' \in {"crashed", "exited", "returned"}
             \/ vmstate' = "running" /\ ip' \in {ip + 1, ip + 2}
      BY <2>3, RunStepMoves
    <3>2. CASE vmstate' \in {"crashed", "exited"}
      BY <3>2 DEF Nearer, Answered, Alive
    <3>3. CASE vmstate' = "returned"
      <4>1. Stage = 1 /\ Stage' = 0
        BY <2>1, <3>1, <3>3 DEF Stage
      <4> QED  BY <4>1 DEF Nearer
    <3>4. CASE vmstate' = "running" /\ ip' \in {ip + 1, ip + 2}
      <4>1. ip \in Nat /\ Len(code) \in Nat /\ ip < Len(code)
        BY <3>1, AtInstruction, TypeFacts DEF Known
      <4>2. ip' < Len(code)
        <5>1. ip' < Len(code')
          BY <3>4 DEF SessionInv, Known, RunPart
        <5> QED  BY <2>1, <5>1
      <4>3. Stage' = Stage /\ LeftInStage = Len(code) - ip /\ LeftInStage' = Len(code) - ip'
        BY <2>1, <3>1, <3>4 DEF Stage, LeftInStage
      <4>4. Len(code) - ip \in Nat /\ Len(code) - ip' \in Nat
            /\ Len(code) - ip' < Len(code) - ip
        BY <3>4, <4>1, <4>2
      <4> QED  BY <4>3, <4>4 DEF Nearer
    <3> QED  BY <3>1, <3>2, <3>3, <3>4
  <2> QED  BY <1>5, <2>2, <2>3 DEF Run
<1>6. CASE PrintAnswer
  <2>1. /\ vmstate' \in {"idle", "crashed"}
        /\ vmstate' = "idle" => phase' = "ready"
    BY <1>6, PrintAnswerKnown
  <2> QED  BY <2>1 DEF Nearer, Answered, Alive
<1> QED  BY <1>2, <1>3, <1>4, <1>5, <1>6

(* Whatever is entered, the program takes finitely many steps from the     *)
(* line to the next prompt or to its end: no step of the compiler or of    *)
(* the machine leaves the answer as far as it was.                         *)
THEOREM AnswersComeCloser == SessionSpec => LinesAdvance
<1> DEFINE Goes ==
      Interpret \/ CompileStep \/ ListingFaults \/ Run \/ PrintAnswer =>
        \/ Answered'
        \/ Stage' < Stage
        \/ /\ Stage' = Stage
           /\ LeftInStage \in Nat /\ LeftInStage' \in Nat
           /\ LeftInStage' < LeftInStage
<1>1. SessionInv /\ SessionInv' /\ [SessionNext]_sessionVars => [Goes]_sessionVars
  BY StepNearer DEF Nearer, SessionInv
<1>2. SessionSpec => [][Goes]_sessionVars
  <2> HIDE DEF Goes
  <2> QED  BY <1>1, SessionInvariance, PTL DEF SessionSpec
<1> QED  BY <1>2 DEF LinesAdvance
=============================================================================
