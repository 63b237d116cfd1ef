------------------------------- MODULE Values -------------------------------
(***************************************************************************)
(* Value cells of the virtual machine and the conversions between them     *)
(* (conv_value() and normalize_operands() in vmachine.c, and the two       *)
(* conversion functions of object.c).                                      *)
(*                                                                         *)
(* A Value is a type tag and a union.  The tag is `type'; `rep' says which *)
(* member of the union was stored last, since some conversions store one   *)
(* member and leave the tag of another.  The number itself is abstracted.  *)
(***************************************************************************)
EXTENDS Tokens

Rep == {"inum", "unum", "fnum", "bval", "nothing", "obj", "null_obj"}

Value == [type : ValueType, rep : Rep]

Number == {"VAL_INUM", "VAL_UNUM", "VAL_FNUM"}

(* The member of the union that code reads for a value of a type. *)
RepOf(type) ==
  CASE type = "VAL_INUM"    -> "inum"
    [] type = "VAL_UNUM"    -> "unum"
    [] type = "VAL_FNUM"    -> "fnum"
    [] type = "VAL_BOOL"    -> "bval"
    [] type = "VAL_NOTHING" -> "nothing"
    [] OTHER                -> "obj"

NewValue(type) == [type |-> type, rep |-> RepOf(type)]

(* Signed and unsigned integers share their bits. *)
SameRep(r1, r2) == r1 = r2 \/ {r1, r2} = {"inum", "unum"}

(* conv_value() calls of runtime_error(), which ends the program. *)
ConversionDenied(from, to) ==
  \/ to \in {"VAL_INUM", "VAL_UNUM"} /\ from \in {"VAL_BOOL", "VAL_NOTHING"}
  \/ to = "VAL_FNUM" /\ from = "VAL_BOOL"
  \/ to = "VAL_OBJ" /\ from = "VAL_NOTHING"

(* conv_obj_to_val(): the cells that val may be left as, depending on      *)
(* whether the text of the string is valid for the type.                   *)
ConvObjToVal(val, to) ==
  IF val.type = "VAL_OBJ"
    THEN {NewValue(to), [val EXCEPT !.type = to]}
    ELSE {val}

(* conv_val_to_obj() *)
ConvValToObj(val) == {NewValue("VAL_OBJ")}

(* conv_value(): the cells that val may be left as.  For an integer the    *)
(* tag is overwritten first, so that conv_obj_to_val() finds no object;    *)
(* for a double or a bool only conv_obj_to_val() changes the tag.          *)
ConvValue(val, to) ==
  CASE to \in {"VAL_INUM", "VAL_UNUM"} ->
         LET retagged == [val EXCEPT !.type = to] IN
         CASE val.type \in Number \ {to} -> {NewValue(to)}
           [] val.type = "VAL_OBJ"       -> ConvObjToVal(retagged, to)
           [] OTHER                      -> {retagged}
    [] to = "VAL_FNUM" ->
         CASE val.type \in {"VAL_INUM", "VAL_UNUM"} -> {[val EXCEPT !.rep = "fnum"]}
           [] val.type = "VAL_OBJ"                  -> ConvObjToVal(val, to)
           [] OTHER                                 -> {val}
    [] to = "VAL_BOOL" ->
         CASE val.type \in Number \cup {"VAL_NOTHING"} -> {[val EXCEPT !.rep = "bval"]}
           [] val.type = "VAL_OBJ"                     -> ConvObjToVal(val, to)
           [] OTHER                                    -> {val}
    [] to = "VAL_OBJ" -> IF val.type = "VAL_OBJ" THEN {val} ELSE ConvValToObj(val)

-----------------------------------------------------------------------------
(* normalize_operands(), by the type on the left: which operand conv_value *)
(* is called for (0 for none), and the type of the operation.              *)

(* Mutant: there is no case for a bool on the right of an object. *)
ObjectOnLeftButBool(type2) ==
  <<IF type2 \in {"VAL_OBJ", "VAL_BOOL"} THEN 0 ELSE 2, "VAL_OBJ">>

ObjectOnLeft(type2) == <<IF type2 = "VAL_OBJ" THEN 0 ELSE 2, "VAL_OBJ">>

BoolOnLeft(type2) == <<IF type2 = "VAL_OBJ" THEN 0 ELSE 2, "VAL_BOOL">>

(* Mutant: the operand on the right is converted to its own type. *)
SignedOnLeftUnconverted(type2) ==
  IF type2 \in {"VAL_BOOL", "VAL_FNUM"}
    THEN <<2, type2>>
    ELSE <<IF type2 = "VAL_OBJ" THEN 0 ELSE 2, "VAL_INUM">>

SignedOnLeft(type2) ==
  IF type2 \in {"VAL_BOOL", "VAL_FNUM"}
    THEN <<1, type2>>
    ELSE <<IF type2 = "VAL_OBJ" THEN 0 ELSE 2, "VAL_INUM">>

UnsignedOrFloatOnLeft(type1, type2) ==
  <<IF type2 = "VAL_OBJ" THEN 2 ELSE 1, type1>>

Normalization(type1, type2) ==
  CASE type1 = "VAL_OBJ"                 -> ObjectOnLeft(type2)
    [] type1 = "VAL_BOOL"                -> BoolOnLeft(type2)
    [] type1 = "VAL_INUM"                -> SignedOnLeft(type2)
    [] type1 \in {"VAL_UNUM", "VAL_FNUM"} -> UnsignedOrFloatOnLeft(type1, type2)

NormalizationDenied(val1, val2) ==
  \/ val1.type = "VAL_NOTHING"
  \/ LET n == Normalization(val1.type, val2.type) IN
     \/ n[1] = 1 /\ ConversionDenied(val1.type, n[2])
     \/ n[1] = 2 /\ ConversionDenied(val2.type, n[2])

(* The triples <<operand 1, operand 2, type of the operation>> that        *)
(* normalize_operands() may produce when it is not denied.                 *)
NormalizeOperands(val1, val2) ==
  LET n == Normalization(val1.type, val2.type) IN
  CASE n[1] = 0 -> {<<val1, val2, n[2]>>}
    [] n[1] = 1 -> {<<val, val2, n[2]>> : val \in ConvValue(val1, n[2])}
    [] n[1] = 2 -> {<<val1, val, n[2]>> : val \in ConvValue(val2, n[2])}
=============================================================================
