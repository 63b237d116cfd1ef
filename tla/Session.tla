------------------------------- MODULE Session ------------------------------
(***************************************************************************)
(* The program as a whole (atlang.c): main() takes lines from the prompt   *)
(* or files from the command line, and interpret() clears the value stack, *)
(* compiles the input and runs the code, until the user leaves or an error *)
(* ends the process.                                                       *)
(*                                                                         *)
(* The compiler and the virtual machine share the code block; a constant   *)
(* that the compiler appends is allocated in the machine's heap.           *)
(***************************************************************************)
EXTENDS Compiler, VMachine

sessionVars == <<compilerVars, vmVars>>

SessionInit == Init /\ VMInit

SessionTypeOK == TypeOK /\ VMTypeOK

Alive == vmstate \notin {"exited", "crashed", "ended"} /\ phase # "exited"

(* repl() or the loop of main(): the next input is opened *)
ReadInput ==
  /\ Alive
  /\ vmstate = "idle"
  /\ Open
  /\ UNCHANGED vmVars

(* interpret() and compile(), up to the first token *)
Interpret ==
  /\ Alive
  /\ phase = "opened"
  /\ Reset
  /\ IF vmstate' = "crashed" THEN UNCHANGED compilerVars ELSE Compile

CompileStep ==
  /\ Alive
  /\ ParseStep
  /\ IF constants' = constants
       THEN UNCHANGED vmVars
       ELSE NewConstant(constants'[Len(constants')])

(* compile() ends with disassemble_codeblock(), which prints the constants *)
(* of every line so far.  What it finds in one that was free()d is         *)
(* undefined: the listing may go on, or follow a wild pointer.             *)
ListingFaults ==
  /\ Alive
  /\ Running("compile_end")
  /\ Elements(pool) \cap freed # {}
  /\ Crash("stale_listing")
  /\ UNCHANGED compilerVars

(* interpret() runs the code whether or not compile() met an error *)
Run ==
  /\ phase = "compiled"
  /\ Alive
  /\ RunStart \/ RunStep
  /\ UNCHANGED compilerVars

PrintAnswer ==
  /\ phase = "compiled"
  /\ Alive
  /\ PrintValue
  /\ IF vmstate' = "idle" THEN Interpreted ELSE UNCHANGED compilerVars

(* .quit, end of file, or the end of INFILES: uninit_things() *)
Quit ==
  /\ phase = "ready"
  /\ Alive
  /\ Destroy
  /\ streams' = << >>      (* destroy_scanner() *)
  /\ UNCHANGED <<blockVars, file_flag, nest_depth, parserVars, phase, mode,
                 inputs, history>>

SessionNext ==
  ReadInput \/ Interpret \/ CompileStep \/ ListingFaults \/ Run \/ PrintAnswer \/ Quit

(* The process is single threaded: between two inputs nothing can hold it. *)
SessionFairness == WF_sessionVars(Interpret \/ CompileStep \/ Run \/ PrintAnswer)

SessionSpec == SessionInit /\ [][SessionNext]_sessionVars /\ SessionFairness

-----------------------------------------------------------------------------
(* A NULL from an empty value stack is dereferenced, by an operator or by  *)
(* the final print, only for a line with a syntax error: the code of an    *)
(* accepted line never takes more from the stack than it put there.        *)
UnderflowOnlyAfterSyntaxError == fault = "null_value" => hadError

(* When the code of an accepted line returns, the answer is all there is   *)
(* on the value stack: what the compiler counted is what the machine did.  *)
AnswerIsWholeStack ==
  vmstate = "returned" /\ ~hadError => Len(vstack) = 1

(* The machine resumes at the first instruction of the line just compiled: *)
(* lastIp, kept over compilations, never falls behind the code block or    *)
(* runs ahead of it, and old code is not executed again.                   *)
RunStartsAtNewCode ==
  phase = "compiled" /\ vmstate = "idle" => lastIp = start

(* While it runs or prints, the machine touches no value that was free()d, *)
(* although constants of earlier lines may be dangling in the block.       *)
RunUsesLiveValues ==
  /\ fault # "use_after_free"
  /\ vmstate \in {"running", "returned"} =>
       /\ Elements(vstack) \cap freed = {}
       /\ Cardinality(Elements(vstack)) = Len(vstack)

(* The value stack and the constant list end up owning the same value only *)
(* if the line was a bare constant: then, and only then, reset_vmachine()  *)
(* or destroy_vmachine() takes the constant away from the code block.      *)
OnlyBareConstantsAreShared ==
  phase = "ready" /\ vmstate = "idle" /\ ~hadError
    => (Elements(vstack) \cap Elements(pool) # {}
          <=> code # << >> /\ Len(code) = start + 3
                /\ code[start + 1] = OP_CONSTANT)

(* An operation on objects follows the pointers of both its operands:      *)
(* whatever the types it started from, normalize_operands() never makes it *)
(* one unless both unions hold an object.                                  *)
ObjectOperationsGetObjects ==
  operands # NoOperands /\ operands[3] = "VAL_OBJ"
    => operands[1].rep = "obj" /\ operands[2].rep = "obj"

(* The left operand is always read through the member of the union that    *)
(* was stored, also when it was itself converted to the type on the right. *)
LeftOperandIsNormalized ==
  operands # NoOperands => SameRep(operands[1].rep, RepOf(operands[3]))

(* Every line that is entered is answered, unless the process ends.        *)
EveryInputIsAnswered == phase = "opened" ~> (phase = "ready" \/ ~Alive)

-----------------------------------------------------------------------------
(* docs/todo.txt 23-24: the machine shares its lists with the rest of the  *)
(* code `so that when the VM kills itself, it does not double free'.       *)
NoDoubleFree == fault # "double_free"

(* scanner.c 1011-1013: a file that is opened is scanned, and when a file  *)
(* ends scanning resumes where it left off.  So the stream that is closed  *)
(* is one that has ended.                                                  *)
OnlyEndedStreamsAreClosed ==
  file_flag /\ phase = "opened" => Head(streams) = << >>

(* scanner.c 1021: the error says that files are nested too deep.          *)
NestingErrorMeansNesting ==
  nest_depth > MAX_FILE_NESTING => Len(streams) >= MAX_FILE_NESTING

(* vmachine.c 189-193: two operands are converted to the same type for a   *)
(* comparison or arithmetic operation.                                     *)
OperandsAreNormalized ==
  operands # NoOperands =>
    /\ SameRep(operands[1].rep, RepOf(operands[3]))
    /\ SameRep(operands[2].rep, RepOf(operands[3]))
=============================================================================
