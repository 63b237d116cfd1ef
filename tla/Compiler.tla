------------------------------ MODULE Compiler ------------------------------
(***************************************************************************)
(* The one-pass compiler of atlang (compiler.c, expression.c): a Pratt     *)
(* parser that reads tokens from the scanner's stack of streams and emits  *)
(* code while it parses.                                                   *)
(*                                                                         *)
(* The recursion of the C functions is made explicit.  `frames' is their   *)
(* call stack: each frame is a C activation, `fn' says in which function   *)
(* and at which point it waits, and an action runs the activation on top   *)
(* from one call of another parse function to the next.                    *)
(***************************************************************************)
EXTENDS CodeBlock, InputStack

CONSTANTS
  Lines,        (* the texts that may be opened, as token sequences *)
  MaxInputs,    (* bound: how many streams are opened in a behaviour *)
  Modes         (* "repl": lines are strings; "files": they are INFILES *)

ASSUME LinesAssumption == Lines \subseteq Seq(TextToken)
ASSUME InputsAssumption == MaxInputs \in Nat
ASSUME ModesAssumption == Modes \subseteq {"repl", "files"}

VARIABLES
  prev, crnt,         (* parser.prev, parser.crnt: token types *)
  hadError,           (* parser.hadError *)
  panicMode,          (* parser.panicMode *)
  frames,             (* the call stack of the parse functions *)
  phase,              (* where interpret() and its caller are *)
  mode, inputs,       (* input source chosen by main(); streams opened *)
  (* History variables, read by no guard. *)
  start,              (* size of the code when compile() was entered *)
  source,             (* the streams compile() could read from *)
  depth               (* values that the code emitted by this compile()
                         leaves on the value stack *)

parserVars == <<prev, crnt, hadError, panicMode, frames>>
history    == <<start, source, depth>>
compilerVars ==
  <<blockVars, inputVars, parserVars, phase, mode, inputs, history>>

Null == "NULL"

Frame ==
  [fn : {"get_precedence", "get_precedence_loop"}, prec : Precedence]
    \cup [fn : {"grouping", "compile", "compile_end"}]
    \cup [fn : {"unary"}, type : UnaryToken]
    \cup [fn : {"binary"}, type : BinaryToken]

GetPrecedence(p) == [fn |-> "get_precedence", prec |-> p]
Loop(p)          == [fn |-> "get_precedence_loop", prec |-> p]
Expression       == GetPrecedence(PREC_ASSIGNMENT)

TopFrame   == frames[Len(frames)]
Running(f) == frames # << >> /\ TopFrame.fn = f
Callers    == SubSeq(frames, 1, Len(frames) - 1)
Return     == frames' = Callers

TypeOK ==
  /\ BlockTypeOK
  /\ InputTypeOK
  /\ prev \in Token \cup {Null}
  /\ crnt \in Token \cup {Null}
  /\ hadError \in BOOLEAN
  /\ panicMode \in BOOLEAN
  /\ frames \in Seq(Frame)
  /\ phase \in {"ready", "opened", "compiling", "compiled", "exited"}
  /\ mode \in {"repl", "files"}
  /\ inputs \in 0 .. MaxInputs
  /\ start \in Nat
  /\ source \in Seq(Seq(TextToken))
  /\ depth \in Int

Init ==
  /\ BlockInit
  /\ InputInit
  /\ prev = Null
  /\ crnt = Null
  /\ hadError = FALSE
  /\ panicMode = FALSE
  /\ frames = << >>
  /\ phase = "ready"
  /\ mode \in Modes
  /\ inputs = 0
  /\ start = 0
  /\ source = << >>
  /\ depth = 0

-----------------------------------------------------------------------------
(* advance() *)
Advance ==
  /\ prev' = crnt
  /\ GetTok(crnt')

(* consume(): on a mismatch the token stays, and only the first mismatch   *)
(* of a compile() is reported.                                             *)
Consume(type) ==
  IF crnt = type
    THEN /\ Advance
         /\ UNCHANGED <<hadError, panicMode>>
    ELSE /\ hadError' = (hadError \/ ~panicMode)
         /\ panicMode' = TRUE
         /\ UNCHANGED <<prev, crnt, inputVars>>

Emit(op, effect) ==
  /\ EmitOpcode(op)
  /\ depth' = depth + effect

EmitNothing == UNCHANGED <<blockVars, depth>>

SameInput == UNCHANGED <<phase, mode, inputs, start, source>>

-----------------------------------------------------------------------------
(* A line is entered at the prompt, or main() takes the next of INFILES.   *)
Open ==
  /\ phase = "ready"
  /\ inputs < MaxInputs
  /\ inputs' = inputs + 1
  /\ \/ /\ mode = "repl"
        /\ \E text \in Lines : OpenScannerString(text)
        /\ phase' = "opened"
     \/ /\ mode = "files"
        /\ \E text \in Lines : OpenScannerFile(text)
        /\ phase' = "opened"
     \/ /\ mode = "files"
        /\ FileMissing \/ NestingExceeded
        /\ phase' = "exited"
  /\ UNCHANGED <<blockVars, parserVars, mode, history>>

(* compile(), up to its call of expression() *)
Compile ==
  /\ phase = "opened"
  /\ phase' = "compiling"
  /\ hadError' = FALSE
  /\ panicMode' = FALSE
  /\ Advance
  /\ frames' = <<[fn |-> "compile"], Expression>>
  /\ start' = Len(code)
  /\ source' = Readable
  /\ depth' = 0
  /\ UNCHANGED <<blockVars, mode, inputs>>

(* Mutant: a missing operand is not recorded as an error. *)
PrefixMissingUnreported ==
  /\ Running("get_precedence")
  /\ PrefixRule(crnt) = "NULL"
  /\ Advance
  /\ Return
  /\ EmitNothing
  /\ UNCHANGED <<hadError, panicMode>> /\ SameInput

(* Mutant: tokens are skipped until one starts an operand. *)
PrefixMissingSkips ==
  /\ Running("get_precedence")
  /\ PrefixRule(crnt) = "NULL"
  /\ Advance
  /\ hadError' = TRUE
  /\ EmitNothing
  /\ UNCHANGED <<panicMode, frames>> /\ SameInput

(* get_precedence(): the token that becomes prev starts no operand *)
PrefixMissing ==
  /\ Running("get_precedence")
  /\ PrefixRule(crnt) = "NULL"
  /\ Advance
  /\ hadError' = TRUE
  /\ Return
  /\ EmitNothing
  /\ UNCHANGED panicMode /\ SameInput

(* get_precedence(), its prefix rule being unum(), inum(), fnum(), string() *)
PrefixConstant ==
  /\ Running("get_precedence")
  /\ PrefixRule(crnt) = "constant"
  /\ Advance
  /\ EmitConstant(ConstantType(crnt))
  /\ depth' = depth + 1
  /\ frames' = Append(Callers, Loop(TopFrame.prec))
  /\ UNCHANGED <<hadError, panicMode>> /\ SameInput

(* get_precedence(), its prefix rule being literal() *)
PrefixLiteral ==
  /\ Running("get_precedence")
  /\ PrefixRule(crnt) = "literal"
  /\ Advance
  /\ Emit(LiteralOpcode(crnt), 1)
  /\ frames' = Append(Callers, Loop(TopFrame.prec))
  /\ UNCHANGED <<hadError, panicMode>> /\ SameInput

(* get_precedence(), its prefix rule being grouping(): up to expression() *)
PrefixGrouping ==
  /\ Running("get_precedence")
  /\ PrefixRule(crnt) = "grouping"
  /\ Advance
  /\ EmitNothing
  /\ frames' =
       Callers \o <<Loop(TopFrame.prec), [fn |-> "grouping"], Expression>>
  /\ UNCHANGED <<hadError, panicMode>> /\ SameInput

(* get_precedence(), its prefix rule being unary(): up to its operand *)
PrefixUnary ==
  /\ Running("get_precedence")
  /\ PrefixRule(crnt) = "unary"
  /\ Advance
  /\ EmitNothing
  /\ frames' =
       Callers \o <<Loop(TopFrame.prec), [fn |-> "unary", type |-> crnt],
                    GetPrecedence(PREC_UNARY)>>
  /\ UNCHANGED <<hadError, panicMode>> /\ SameInput

(* Mutant: the right operand may hold operators of the same precedence. *)
InfixToTheRight ==
  /\ Running("get_precedence_loop")
  /\ TopFrame.prec <= RulePrec(crnt)
  /\ InfixRule(crnt) = "binary"
  /\ Advance
  /\ EmitNothing
  /\ frames' =
       frames \o <<[fn |-> "binary", type |-> crnt], GetPrecedence(RulePrec(crnt))>>
  /\ UNCHANGED <<hadError, panicMode>> /\ SameInput

(* Mutant: the operator is emitted before its right operand. *)
InfixEmitsFirst ==
  /\ Running("get_precedence_loop")
  /\ TopFrame.prec <= RulePrec(crnt)
  /\ InfixRule(crnt) = "binary"
  /\ Advance
  /\ Emit(BinaryOpcode(crnt), -1)
  /\ frames' = Append(frames, GetPrecedence(RulePrec(crnt) + 1))
  /\ UNCHANGED <<hadError, panicMode>> /\ SameInput

(* One turn of the loop of get_precedence(): abinary() or cbinary(), up to *)
(* the call for the right operand.                                         *)
Infix ==
  /\ Running("get_precedence_loop")
  /\ TopFrame.prec <= RulePrec(crnt)
  /\ InfixRule(crnt) = "binary"
  /\ Advance
  /\ EmitNothing
  /\ frames' =
       frames \o <<[fn |-> "binary", type |-> crnt],
                   GetPrecedence(RulePrec(crnt) + 1)>>
  /\ UNCHANGED <<hadError, panicMode>> /\ SameInput

(* The loop of get_precedence() ends, and the function returns *)
LoopEnd ==
  /\ Running("get_precedence_loop")
  /\ TopFrame.prec > RulePrec(crnt)
  /\ Return
  /\ EmitNothing
  /\ UNCHANGED <<prev, crnt, hadError, panicMode, inputVars>> /\ SameInput

(* grouping(), after expression() *)
GroupingEnd ==
  /\ Running("grouping")
  /\ Consume("CPAR_TOKEN")
  /\ Return
  /\ EmitNothing
  /\ SameInput

(* unary(), after its operand *)
UnaryEnd ==
  /\ Running("unary")
  /\ Emit(UnaryOpcode(TopFrame.type), 0)
  /\ Return
  /\ UNCHANGED <<prev, crnt, hadError, panicMode, inputVars>> /\ SameInput

(* abinary() and cbinary(), after the right operand *)
BinaryEnd ==
  /\ Running("binary")
  /\ Emit(BinaryOpcode(TopFrame.type), -1)
  /\ Return
  /\ UNCHANGED <<prev, crnt, hadError, panicMode, inputVars>> /\ SameInput

(* compile(), after expression(): consume(END_OF_FILE) *)
ConsumeEndOfFile ==
  /\ Running("compile")
  /\ Consume("END_OF_FILE")
  /\ frames' = <<[fn |-> "compile_end"]>>
  /\ EmitNothing
  /\ SameInput

(* Mutant: nothing asks for the END_OF_INPUT. *)
CompileEndUnread ==
  /\ Running("compile_end")
  /\ Emit(OP_RETURN, 0)
  /\ Return
  /\ phase' = "compiled"
  /\ UNCHANGED <<prev, crnt, hadError, panicMode, inputVars, mode, inputs,
                 start, source>>

(* compile(), the rest: consume(END_OF_INPUT) and the final OP_RETURN *)
CompileEnd ==
  /\ Running("compile_end")
  /\ Consume("END_OF_INPUT")
  /\ Emit(OP_RETURN, 0)
  /\ Return
  /\ phase' = "compiled"
  /\ UNCHANGED <<mode, inputs, start, source>>

(* interpret() returns to its caller.  What it does with the code before   *)
(* is in Session; nothing of it changes the state of the compiler.         *)
Interpreted ==
  /\ phase = "compiled"
  /\ phase' = "ready"
  /\ UNCHANGED <<blockVars, inputVars, parserVars, mode, inputs, history>>

ParseStep ==
  \/ PrefixMissing \/ PrefixConstant \/ PrefixLiteral \/ PrefixGrouping
  \/ PrefixUnary \/ Infix \/ LoopEnd \/ GroupingEnd \/ UnaryEnd \/ BinaryEnd
  \/ ConsumeEndOfFile \/ CompileEnd

Next == Open \/ Compile \/ ParseStep \/ Interpreted

(* The program is sequential: once a line is there it is compiled without  *)
(* waiting for anything.  Nobody is obliged to enter a line.               *)
Fairness == WF_compilerVars(Compile \/ ParseStep \/ Interpreted)

Spec == Init /\ [][Next]_compilerVars /\ Fairness

-----------------------------------------------------------------------------
(* A line the compiler accepts leaves exactly one value on the value       *)
(* stack, the one interpret() prints: expression.c never emits an operator *)
(* too many or too few, whatever the nesting of its recursion.             *)
AcceptedCodeYieldsOneValue ==
  phase = "compiled" /\ ~hadError => depth = 1

(* As long as no syntax error was met, an operator is emitted only when    *)
(* the code before it has left its operands on the stack: the virtual      *)
(* machine, which does not check pop_value_stack(), relies on it.          *)
OperatorsFindOperands ==
  [][\A op \in UnaryOp \cup BinaryOp :
       ~hadError /\ code' = Append(code, op)
         => depth >= (IF op \in BinaryOp THEN 2 ELSE 1)]_compilerVars

(* A line is accepted only when all of its text was read, nothing that an  *)
(* earlier line left open is below it, and no close of a stream is still   *)
(* deferred: the next line is scanned from its first character.            *)
AcceptedDrainsInput ==
  phase = "compiled" /\ ~hadError
    => streams = << >> /\ ~file_flag /\ Len(source) = 1

(* compile() returns for every sequence of tokens: the recursion of        *)
(* get_precedence() always reaches a token without a parse rule, and no    *)
(* call goes through an empty entry of rules[].                            *)
CompileReturns == phase = "opened" ~> phase = "compiled"
=============================================================================
