----------------------------- MODULE CodeBlock ------------------------------
(***************************************************************************)
(* The code block of codeblocks.c: the list of 16-bit words the compiler   *)
(* appends to and the virtual machine executes, and the list of constants. *)
(* One block lives as long as the program, every line compiled is appended *)
(* to it.                                                                  *)
(***************************************************************************)
EXTENDS Tokens, Sequences

CONSTANT
  WordSize      (* number of values of a code word, 2^16 for uint16_t *)

ASSUME WordSizeAssumption == WordSize \in Nat \ 0..OP_RETURN

VARIABLES
  code,         (* block->code, a sequence of words *)
  constants     (* block->constants, the type each Value was created with *)

blockVars == <<code, constants>>

BlockTypeOK ==
  /\ code \in Seq(0 .. WordSize - 1)
  /\ constants \in Seq(ValueType)

(* create_codeblock() *)
BlockInit ==
  /\ code = << >>
  /\ constants = << >>

(* emit_opcode() *)
EmitOpcode(op) ==
  /\ code' = Append(code, op)
  /\ UNCHANGED constants

(* Mutant: an index that does not fit in a word is kept as it is. *)
EmitConstantUncut(type) ==
  /\ constants' = Append(constants, type)
  /\ code' = code \o <<OP_CONSTANT, Len(constants)>>

(* emit_inum_value() and its siblings: an OP_CONSTANT, then add_constant(), *)
(* whose index is cut to the width of a word.                              *)
EmitConstant(type) ==
  /\ constants' = Append(constants, type)
  /\ code' = code \o <<OP_CONSTANT, Len(constants) % WordSize>>
=============================================================================
