------------------------------ MODULE HashWalk -------------------------------
(***************************************************************************)
(* iterate_hash_table() (hashtable.c): the keys of a table, one per call.  *)
(* Where it is in the table is a static variable of the function, so it    *)
(* belongs to no table: a walk over another table moves it too.            *)
(***************************************************************************)
EXTENDS HashTable, Integers

CONSTANTS
  Foreign,      (* where walks over other tables may leave the index *)
  IndexBound    (* how far a caller may call past the end, to keep it finite *)

ASSUME WalkAssumption == Foreign \subseteq -1 .. MaxCapacity /\ IndexBound \in Nat

VARIABLES
  ht_index,     (* the static variable *)
  returned,     (* history: the keys returned since the last reset *)
  twice,        (* history: one of them was returned twice *)
  walk,         (* history: "none" before a reset, "running", "done" after NULL *)
  disturbed     (* history: what else was called since the reset *)

walkHistory == <<returned, twice, walk, disturbed>>
walkVars    == <<hashVars, ht_index, walkHistory>>

WalkTypeOK ==
  /\ HashTypeOK
  /\ ht_index \in -1 .. MaxCapacity + IndexBound + 1
  /\ returned \subseteq Key
  /\ twice \in BOOLEAN
  /\ walk \in {"none", "running", "done"}
  /\ disturbed \subseteq {"insert", "other"}

WalkInit ==
  /\ HashInit
  /\ ht_index = -1
  /\ returned = {}
  /\ twice = FALSE
  /\ walk = "none"
  /\ disturbed = {}

(* The first used slot from an index on. *)
IsNext(i, from) ==
  /\ i \in Used(entries) /\ i >= from
  /\ \A j \in Used(entries) : j >= from => i <= j

(* Mutant: the loop starts at the index it stopped at. *)
StartAgain(reset) == IF reset \/ ht_index < 0 THEN 0 ELSE ht_index

Start(reset) == IF reset THEN 0 ELSE ht_index + 1

Iterate(reset) ==
  /\ pc = "ready"
  /\ reset \/ ht_index <= capacity + IndexBound
  /\ \/ \E i \in Used(entries) :
          /\ IsNext(i, Start(reset))
          /\ ht_index' = i
          /\ returned' = {entries[i].key} \cup IF reset THEN {} ELSE returned
          /\ twice' = (~reset /\ (twice \/ entries[i].key \in returned))
          /\ walk' = IF reset THEN "running" ELSE walk
     \/ /\ \A i \in Used(entries) : i < Start(reset)
        /\ ht_index' = IF Start(reset) > capacity THEN Start(reset) ELSE capacity
        /\ returned' = IF reset THEN {} ELSE returned
        /\ twice' = (~reset /\ twice)
        /\ walk' = IF reset \/ walk # "none" THEN "done" ELSE walk
  /\ disturbed' = IF reset THEN {} ELSE disturbed
  /\ UNCHANGED hashVars

(* A walk over another table. *)
IterateOther ==
  /\ pc = "ready"
  /\ ht_index' \in Foreign
  /\ disturbed' = disturbed \cup {"other"}
  /\ UNCHANGED <<hashVars, returned, twice, walk>>

NoteStep ==
  /\ disturbed' = IF pc = "ready" /\ pc' \in {"placing", "growing"}
                    THEN disturbed \cup {"insert"} ELSE disturbed
  /\ UNCHANGED <<returned, twice, walk>>

TableStep == HashNext /\ NoteStep /\ UNCHANGED ht_index

WalkStep == (\E reset \in BOOLEAN : Iterate(reset)) \/ IterateOther

WalkNext == WalkStep \/ TableStep

WalkSpec == WalkInit /\ [][WalkNext]_walkVars

-----------------------------------------------------------------------------
(* A walk that no insertion and no other walk disturbs returns every key   *)
(* exactly once, wherever the index was when it began, and also where data *)
(* was replaced, keys were looked up, or the caller called again after the *)
(* end.                                                                    *)
UndisturbedWalkIsComplete ==
  disturbed = {} => ~twice /\ (walk = "done" => returned = KeysIn(entries))
=============================================================================
