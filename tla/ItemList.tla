------------------------------ MODULE ItemList -------------------------------
(***************************************************************************)
(* What ptrlist.h promises: a list that is a stack at its end, with a      *)
(* cursor that walks from its beginning.                                   *)
(***************************************************************************)
EXTENDS Integers, Sequences

CONSTANTS Item, NULL, Index

VARIABLES
  items,     (* the list *)
  cursor,    (* how many items the walk has passed *)
  reply,     (* what the last call returned *)
  usable     (* until it is destroyed or memory is exhausted *)

listVars == <<items, cursor, reply, usable>>

Init == items = << >> /\ cursor = 0 /\ reply = NULL /\ usable = TRUE

Add(x) ==
  /\ items' = Append(items, x)
  /\ UNCHANGED <<cursor, reply>>

Pop ==
  /\ items # << >>
  /\ items' = SubSeq(items, 1, Len(items) - 1)
  /\ reply' = items[Len(items)]
  /\ UNCHANGED cursor

Peek ==
  /\ items # << >>
  /\ reply' = items[Len(items)]
  /\ UNCHANGED <<items, cursor>>

NothingThere ==
  /\ items = << >>
  /\ reply' = NULL
  /\ UNCHANGED <<items, cursor>>

Get(i) ==
  /\ reply' = IF i + 1 \in 1 .. Len(items) THEN items[i + 1] ELSE NULL
  /\ UNCHANGED <<items, cursor>>

Step ==
  /\ IF cursor < Len(items)
       THEN reply' = items[cursor + 1] /\ cursor' = cursor + 1
       ELSE reply' = NULL /\ UNCHANGED cursor
  /\ UNCHANGED items

Rewind ==
  /\ cursor' = 0
  /\ UNCHANGED <<items, reply>>

Call ==
  /\ usable
  /\ \/ \E x \in Item : Add(x)
     \/ Pop \/ Peek \/ NothingThere \/ Step \/ Rewind
     \/ \E i \in Index : Get(i)
  /\ UNCHANGED usable

Close ==
  /\ usable
  /\ usable' = FALSE
  /\ UNCHANGED <<items, cursor, reply>>

Next == Call \/ Close

Spec == Init /\ [][Next]_listVars
=============================================================================
