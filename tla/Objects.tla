------------------------------- MODULE Objects -------------------------------
(***************************************************************************)
(* Strings, the only objects there are (object.c), as the machine uses     *)
(* them: made from a text, added and compared.  A string caches a length,  *)
(* which memcmp() takes for the number of bytes to look at.                *)
(***************************************************************************)
EXTENDS Integers, Sequences

CONSTANTS
  Texts,       (* of literals, and of values that are turned into strings *)
  MaxStrings,  (* bound on the strings on the stack *)
  MaxText      (* bound on the length of a sum *)

ObjectAssumption == MaxStrings \in Nat /\ MaxText \in Nat

VARIABLES
  strings,   (* value stack *)
  compared,  (* history: the operands and the answer of an equality just computed *)
  outcome    (* "running", "exited", or "null_object" on the stack *)

objectVars == <<strings, compared, outcome>>

(* Mutant: the zero is counted. *)
StringObjectWithZero(str) == [text |-> str, len |-> Len(str) + 1, sum |-> FALSE]

(* `sum' is history: the string is the result of an addition. *)
StringObject(str) == [text |-> str, len |-> Len(str), sum |-> FALSE]

(* add_char_buffer_str() on the copy of the first operand, whose len stays *)
AddStrings(s1, s2) == [StringObject(s1.text) EXCEPT !.text = @ \o s2.text, !.sum = TRUE]

(* Mutant: a string equals all that it is the beginning of. *)
SameStringShorter(s1, s2) ==
  \A i \in 1 .. s1.len : i <= s2.len => s1.text[i] = s2.text[i]

SameString(s1, s2) ==
  /\ s1.len = s2.len
  /\ \A i \in 1 .. s1.len : s1.text[i] = s2.text[i]

ObjectInit == strings = << >> /\ compared = << >> /\ outcome = "running"

Popped == SubSeq(strings, 1, Len(strings) - 2)
Op1    == strings[Len(strings) - 1]
Op2    == strings[Len(strings)]

(* create_string_object() for a quoted literal, or for the text that       *)
(* conv_val_to_obj() writes for a number or a bool                         *)
CreateStringObject ==
  /\ Len(strings) < MaxStrings
  /\ \E str \in Texts : strings' = Append(strings, StringObject(str))
  /\ compared' = << >>
  /\ UNCHANGED outcome

(* arithmetic_objects(): only OP_ADD makes an object *)
ArithmeticObjects ==
  /\ Len(strings) >= 2
  /\ \/ /\ Len(Op1.text) + Len(Op2.text) <= MaxText
        /\ strings' = Append(Popped, AddStrings(Op1, Op2))
        /\ outcome' = outcome
     \/ /\ strings' = Popped
        /\ outcome' = "null_object"
  /\ compared' = << >>

(* compare_objects(): fatal_error() for all but OP_EQUALITY *)
CompareObjects ==
  /\ Len(strings) >= 2
  /\ strings' = Popped
  /\ \/ /\ compared' = <<Op1, Op2, SameString(Op1, Op2)>>
        /\ outcome' = outcome
     \/ /\ outcome' = "exited"
        /\ compared' = << >>

(* reset_vmachine() before the next line *)
ResetStrings ==
  /\ strings' = << >>
  /\ compared' = << >>
  /\ UNCHANGED outcome

ObjectNext ==
  /\ outcome = "running"
  /\ CreateStringObject \/ ArithmeticObjects \/ CompareObjects \/ ResetStrings

ObjectSpec == ObjectInit /\ [][ObjectNext]_objectVars

-----------------------------------------------------------------------------
(* memcmp() looks at no byte behind the text of an operand, however the    *)
(* operands were put together: the cached length may be less than the text *)
(* and is never more.                                                      *)
ComparisonStaysInText ==
  \A i \in DOMAIN strings : strings[i].len <= Len(strings[i].text)

(* Strings that were entered are equal when their texts are.  (A sum is    *)
(* compared by what stood left of its last addition.)                      *)
EnteredStringsCompareByText ==
  compared # << >> /\ ~compared[1].sum /\ ~compared[2].sum
    => (compared[3] <=> compared[1].text = compared[2].text)
=============================================================================
