------------------------------- MODULE PtrList -------------------------------
(***************************************************************************)
(* ptrlist.c: a list in a buffer that is doubled.  It is the value stack   *)
(* of the machine, the constant list of the code block, and the list       *)
(* options of the configuration.  realloc() leaves the new half of the     *)
(* buffer as it is, and pop_ptr_list() leaves what it took where it was.   *)
(***************************************************************************)
EXTENDS Integers, Sequences

CONSTANTS
  Item, NULL,
  Junk,          (* what is in memory that nothing was stored in *)
  Index,         (* the arguments of get_ptr_list_by_index() *)
  MaxItems       (* how many items the caller may hold *)

ASSUME ListAssumption ==
  /\ Index \subseteq Int
  /\ MaxItems \in Nat

VARIABLES nitems, index, capacity, buffer,   (* ptr_list_t *)
          reply,                             (* what the last call returned *)
          state                              (* "live", "destroyed", "aborted" *)

ptrListVars == <<nitems, index, capacity, buffer, reply, state>>

Cell == Item \cup {NULL, Junk}

ListTypeOK ==
  /\ capacity \in Nat /\ capacity >= 8
  /\ buffer \in [0 .. capacity - 1 -> Cell]
  /\ nitems \in 0 .. capacity - 1
  /\ index \in Nat
  /\ reply \in Item \cup {NULL}
  /\ state \in {"live", "destroyed", "aborted"}

(* create_ptr_list() and init_ptr_list() *)
ListInit ==
  /\ nitems = 0
  /\ index = 0
  /\ capacity = 8
  /\ buffer = [i \in 0 .. 7 |-> NULL]
  /\ reply = NULL
  /\ state = "live"

Grown == [i \in 0 .. 2 * capacity - 1 |-> IF i < capacity THEN buffer[i] ELSE Junk]

(* Mutant: the buffer is doubled when it has no room left. *)
IsFullLate == nitems > capacity
IsFull     == nitems + 2 > capacity

(* append_ptr_list(), also as push_ptr_list(); REALLOC() ends the process  *)
(* when there is no memory.                                                *)
AppendItem(x) ==
  /\ state = "live"
  /\ nitems < MaxItems
  /\ \/ /\ ~IsFull
        /\ buffer' = [buffer EXCEPT ![nitems] = x]
        /\ nitems' = nitems + 1
        /\ UNCHANGED <<capacity, state>>
     \/ /\ IsFull
        /\ capacity' = 2 * capacity
        /\ buffer' = [Grown EXCEPT ![nitems] = x]
        /\ nitems' = nitems + 1
        /\ UNCHANGED state
     \/ /\ IsFull
        /\ state' = "aborted"
        /\ UNCHANGED <<nitems, capacity, buffer>>
  /\ UNCHANGED <<index, reply>>

(* Mutant: the item is read before the count is lowered. *)
PopItemBehind ==
  /\ state = "live"
  /\ \/ /\ nitems <= 0
        /\ reply' = NULL
        /\ UNCHANGED nitems
     \/ /\ nitems > 0
        /\ nitems' = nitems - 1
        /\ reply' = buffer[nitems]
  /\ UNCHANGED <<index, capacity, buffer, state>>

(* pop_ptr_list() *)
PopItem ==
  /\ state = "live"
  /\ \/ /\ nitems <= 0
        /\ nitems' = 0
        /\ reply' = NULL
     \/ /\ nitems > 0
        /\ nitems' = nitems - 1
        /\ reply' = buffer[nitems - 1]
  /\ UNCHANGED <<index, capacity, buffer, state>>

(* peek_ptr_list() *)
PeekItem ==
  /\ state = "live"
  /\ \/ nitems > 0 /\ reply' = buffer[nitems - 1]
     \/ nitems <= 0 /\ reply' = NULL
  /\ UNCHANGED <<nitems, index, capacity, buffer, state>>

(* get_ptr_list_by_index() *)
GetItem(i) ==
  /\ state = "live"
  /\ \/ i >= 0 /\ i < nitems /\ reply' = buffer[i]
     \/ (i < 0 \/ i >= nitems) /\ reply' = NULL
  /\ UNCHANGED <<nitems, index, capacity, buffer, state>>

(* get_ptr_list_next() *)
NextItem ==
  /\ state = "live"
  /\ \/ index < nitems /\ reply' = buffer[index] /\ index' = index + 1
     \/ index >= nitems /\ reply' = NULL /\ UNCHANGED index
  /\ UNCHANGED <<nitems, capacity, buffer, state>>

(* reset_ptr_list() *)
ResetIndex ==
  /\ state = "live"
  /\ index' = 0
  /\ UNCHANGED <<nitems, capacity, buffer, reply, state>>

(* destroy_ptr_list() *)
DestroyList ==
  /\ state = "live"
  /\ state' = "destroyed"
  /\ UNCHANGED <<nitems, index, capacity, buffer, reply>>

ListNext ==
  \/ \E x \in Item : AppendItem(x)
  \/ PopItem \/ PeekItem \/ NextItem \/ ResetIndex \/ DestroyList
  \/ \E i \in Index : GetItem(i)

ListSpec == ListInit /\ [][ListNext]_ptrListVars

-----------------------------------------------------------------------------
(* The buffer is a list: whatever was pushed, popped and pushed again, and *)
(* however often it was doubled, a call returns what a list would, never a *)
(* popped item or memory that nothing was stored in.                       *)
Abstract == INSTANCE ItemList WITH
  items <- [i \in 1 .. nitems |-> buffer[i - 1]],
  cursor <- index, usable <- state = "live"

ImplementsList == Abstract!Spec
=============================================================================
