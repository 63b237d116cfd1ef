------------------------------ MODULE VMachine ------------------------------
(***************************************************************************)
(* The stack machine of vmachine.c and the memory of the values it works   *)
(* on.  One action is one turn of the loop in run_vmachine().              *)
(*                                                                         *)
(* A Value is identified by the order of its allocation, never by its      *)
(* address: `heap' keeps every cell ever allocated and `freed' the ones    *)
(* given back, so that a second free or a late use is seen whether or not  *)
(* the allocator has reused the address.                                   *)
(***************************************************************************)
EXTENDS CodeBlock, Values, FiniteSets

VARIABLES
  heap,         (* the Value cells, in order of allocation *)
  freed,        (* the cells that were free()d *)
  pool,         (* block->constants: the cells of the constant list *)
  vstack,       (* vm->vstack: cells, the top of the stack last *)
  ip,           (* the local ip of run_vmachine(): an offset in the code *)
  lastIp,       (* vm->lastIp *)
  vmstate,      (* "idle", "running", "returned", or how the process ended *)
  fault,        (* what made it end in "crashed" *)
  operands      (* history: the last pair normalize_operands() delivered *)

vmVars ==
  <<heap, freed, pool, vstack, ip, lastIp, vmstate, fault, operands>>
vmControl == <<pool, lastIp>>

Cell == DOMAIN heap

Fault == {"none", "null_value", "null_object", "use_after_free",
          "stale_listing", "double_free", "divide"}

NoOperands == << >>

VMTypeOK ==
  /\ heap \in Seq(Value)
  /\ freed \subseteq Cell
  /\ pool \in Seq(Cell)
  /\ vstack \in Seq(Cell)
  /\ ip \in 0 .. Len(code)
  /\ lastIp \in 0 .. Len(code)
  /\ vmstate \in {"idle", "running", "returned", "exited", "crashed", "ended"}
  /\ fault \in Fault
  /\ operands = NoOperands \/ operands \in Value \X Value \X ValueType

(* init_vmachine() *)
VMInit ==
  /\ heap = << >>
  /\ freed = {}
  /\ pool = << >>
  /\ vstack = << >>
  /\ ip = 0
  /\ lastIp = 0
  /\ vmstate = "idle"
  /\ fault = "none"
  /\ operands = NoOperands

-----------------------------------------------------------------------------
Elements(list) == {list[i] : i \in DOMAIN list}

(* The k-th value from the top of the stack, and the stack without k of    *)
(* them; pop_ptr_list() gives NULL when there is none.                     *)
Pop(k)     == vstack[Len(vstack) + 1 - k]
Without(k) == SubSeq(vstack, 1, Len(vstack) - k)

Crash(why) ==
  /\ vmstate' = "crashed"
  /\ fault' = why
  /\ UNCHANGED <<heap, freed, vmControl, vstack, ip, operands>>

(* runtime_error() and fatal_error() call exit(1) *)
Exit ==
  /\ vmstate' = "exited"
  /\ UNCHANGED <<heap, freed, vmControl, vstack, ip, fault, operands>>

(* create_value() of a result, pushed in place of k operands *)
PushResult(cells, val, k) ==
  /\ heap' = Append(cells, val)
  /\ vstack' = Append(Without(k), Len(heap) + 1)
  /\ ip' = ip + 1
  /\ UNCHANGED <<freed, vmControl, vmstate, fault>>

(* create_value() by the compiler, put in the constant list *)
NewConstant(type) ==
  /\ heap' = Append(heap, NewValue(type))
  /\ pool' = Append(pool, Len(heap) + 1)
  /\ UNCHANGED <<freed, vstack, ip, lastIp, vmstate, fault, operands>>

-----------------------------------------------------------------------------
(* Mutant: the stack is kept from line to line. *)
ResetKeepsStack == UNCHANGED vmVars

(* Mutant: the values are free()d and left on the stack. *)
ResetKeepsFreed ==
  /\ freed' = freed \cup Elements(vstack)
  /\ UNCHANGED <<heap, vmControl, vstack, ip, vmstate, fault, operands>>

(* reset_vmachine(): whatever a line left on the stack is free()d *)
Reset ==
  /\ freed' = freed \cup Elements(vstack)
  /\ vstack' = << >>
  /\ fault' = IF Elements(vstack) \cap freed # {} THEN "double_free" ELSE fault
  /\ vmstate' = IF Elements(vstack) \cap freed # {} THEN "crashed" ELSE vmstate
  /\ UNCHANGED <<heap, vmControl, ip, operands>>

(* destroy_vmachine(): the constants are free()d, then the stack *)
Destroy ==
  LET again == \/ Elements(pool) \cap freed # {}
               \/ Elements(vstack) \cap (freed \cup Elements(pool)) # {}
  IN  /\ freed' = freed \cup Elements(pool) \cup Elements(vstack)
      /\ fault' = IF again THEN "double_free" ELSE fault
      /\ vmstate' = IF again THEN "crashed" ELSE "ended"
      /\ UNCHANGED <<heap, vmControl, vstack, ip, operands>>

(* run_vmachine(), up to its loop *)
RunStart ==
  /\ vmstate = "idle"
  /\ vmstate' = "running"
  /\ ip' = lastIp
  /\ UNCHANGED <<heap, freed, vmControl, vstack, fault, operands>>

(* An instruction is traced before it is executed: trace_instruction()     *)
(* prints the stack and, through the disassembler, the constant that the   *)
(* instruction names.                                                      *)
Instruction == code[ip + 1]
Operand     == pool[code[ip + 2] + 1]
Traced ==
  Elements(vstack) \cup (IF Instruction = OP_CONSTANT THEN {Operand} ELSE {})

TraceFaults ==
  /\ vmstate = "running"
  /\ \/ /\ Traced \cap freed # {}
        /\ Crash("use_after_free")
     \/ /\ \E c \in Traced : heap[c].type = "VAL_OBJ" /\ heap[c].rep = "null_obj"
        /\ Crash("null_object")

Executes(ops) ==
  /\ vmstate = "running"
  /\ Instruction \in ops
  /\ Traced \cap freed = {}
  /\ \A c \in Traced : heap[c].rep # "null_obj"

PushConstant ==
  /\ Executes({OP_CONSTANT})
  /\ vstack' = Append(vstack, Operand)
  /\ ip' = ip + 2
  /\ UNCHANGED <<heap, freed, vmControl, vmstate, fault, operands>>

(* Mutant: nothing is pushed for OP_NOTHING. *)
PushLiteralNotNothing ==
  /\ Executes(LiteralOp)
  /\ IF Instruction = OP_NOTHING
       THEN /\ ip' = ip + 1
            /\ UNCHANGED <<heap, freed, vmControl, vstack, vmstate, fault>>
       ELSE PushResult(heap, NewValue("VAL_BOOL"), 0)
  /\ UNCHANGED operands

PushLiteral ==
  /\ Executes(LiteralOp)
  /\ PushResult(heap,
       NewValue(IF Instruction = OP_NOTHING THEN "VAL_NOTHING" ELSE "VAL_BOOL"), 0)
  /\ UNCHANGED operands

(* NEG and NOT pop without a check, and dereference what they get *)
UnaryFaults ==
  /\ Executes(UnaryOp)
  /\ vstack = << >>
  /\ Crash("null_value")

(* Mutant: the operand is negated in place and pushed again. *)
NegateInPlace ==
  /\ Executes({OP_NEG})
  /\ vstack # << >>
  /\ IF heap[Pop(1)].type \in Number \cup {"VAL_BOOL"}
       THEN /\ ip' = ip + 1
            /\ UNCHANGED <<heap, freed, vmControl, vstack, vmstate, fault, operands>>
       ELSE Exit

Negate ==
  /\ Executes({OP_NEG})
  /\ vstack # << >>
  /\ LET type == heap[Pop(1)].type IN
     IF type \in Number \cup {"VAL_BOOL"}
       THEN PushResult(heap, NewValue(type), 1) /\ UNCHANGED operands
       ELSE Exit

Not ==
  /\ Executes({OP_NOT})
  /\ vstack # << >>
  /\ PushResult(heap, NewValue("VAL_BOOL"), 1)
  /\ UNCHANGED operands

-----------------------------------------------------------------------------
(* compare_op() and arithmetic_op() pop two values without a check *)
BinaryFaults ==
  /\ Executes(BinaryOp)
  /\ Len(vstack) < 2
  /\ Crash("null_value")

(* The value that a binary operation on normalized operands creates.       *)
(* arithmetic_objects() only knows how to add.                             *)
BinaryResult(op, type) ==
  CASE op \in ComparisonOp                  -> NewValue("VAL_BOOL")
    [] op = OP_ADD                          -> NewValue(type)
    [] op \in ArithmeticOp \ {OP_ADD} ->
         IF type = "VAL_OBJ" THEN [type |-> type, rep |-> "null_obj"]
                             ELSE NewValue(type)

(* Operations that end in runtime_error() or fatal_error(). *)
BinaryDenied(op, type) ==
  \/ op \in ArithmeticOp /\ type = "VAL_BOOL"
  \/ op \in ComparisonOp \ {OP_EQUALITY} /\ type = "VAL_OBJ"

Binary ==
  /\ Executes(BinaryOp)
  /\ Len(vstack) >= 2
  /\ IF NormalizationDenied(heap[Pop(2)], heap[Pop(1)])
       THEN Exit
       ELSE \E n \in NormalizeOperands(heap[Pop(2)], heap[Pop(1)]) :
              LET op == Instruction
                  normalized == [heap EXCEPT ![Pop(2)] = n[1], ![Pop(1)] = n[2]]
              IN  \/ /\ BinaryDenied(op, n[3])
                     /\ Exit
                  \/ /\ ~BinaryDenied(op, n[3])
                     /\ PushResult(normalized, BinaryResult(op, n[3]), 2)
                     /\ operands' = n
                  \/ (* an integer divided by zero *)
                     /\ op \in {OP_DIV, OP_MOD}
                     /\ n[3] \in {"VAL_INUM", "VAL_UNUM"}
                     /\ Crash("divide")

(* Mutants: the next line starts at this OP_RETURN, or behind the next    *)
(* word, or the loop does not finish.                                      *)
ReturnOpStays ==
  /\ Executes({OP_RETURN})
  /\ lastIp' = ip
  /\ vmstate' = "returned"
  /\ UNCHANGED <<heap, freed, pool, vstack, ip, fault, operands>>

ReturnOpSkips ==
  /\ Executes({OP_RETURN})
  /\ ip' = ip + 1
  /\ lastIp' = ip + 2
  /\ vmstate' = "returned"
  /\ UNCHANGED <<heap, freed, pool, vstack, fault, operands>>

ReturnOpUnfinished ==
  /\ Executes({OP_RETURN})
  /\ lastIp' = ip + 1
  /\ UNCHANGED <<heap, freed, pool, vstack, ip, vmstate, fault, operands>>

ReturnOp ==
  /\ Executes({OP_RETURN})
  /\ ip' = ip + 1
  /\ lastIp' = ip + 1
  /\ vmstate' = "returned"
  /\ UNCHANGED <<heap, freed, pool, vstack, fault, operands>>

RunStep ==
  \/ TraceFaults \/ PushConstant \/ PushLiteral \/ UnaryFaults \/ Negate \/ Not
  \/ BinaryFaults \/ Binary \/ ReturnOp

(* interpret(), after run_vmachine(): print_value(peek_value_stack()) *)
PrintValue ==
  /\ vmstate = "returned"
  /\ IF vstack = << >>
       THEN Crash("null_value")
       ELSE IF Pop(1) \in freed
       THEN Crash("use_after_free")
       ELSE /\ vmstate' = "idle"
            /\ UNCHANGED <<heap, freed, vmControl, vstack, ip, fault, operands>>
=============================================================================
