---------------------------- MODULE MCHashTable -----------------------------
(***************************************************************************)
(* HashWalk on a few keys that collide, on enough keys to fill the table,  *)
(* and with walks over its keys.  A behaviour is about one of the three.   *)
(***************************************************************************)
EXTENDS HashWalk, FiniteSets

CONSTANTS d1, d2

VARIABLE menu   (* which of the three *)

MCFewKeys  == 1 .. 4
MCManyKeys == 5 .. 13
MCKeys     == MCFewKeys \cup MCManyKeys
MCData     == {d1, d2}

(* Keys 1, 2 and 3 meet in the last slot of a table of 8 and run over its  *)
(* end into the place of 4; in a table of 16, 3 leaves the others.  The    *)
(* nine others are more than the first table has slots; most of them have  *)
(* a slot of their own.                                                    *)
MCHash == [k \in MCKeys |->
             IF k \in MCFewKeys THEN <<7, 7, 15, 0>>[k]
             ELSE IF k = 9 THEN 3 ELSE 3 * (k - 4)]

(* What `count' may hold: nothing, less than a doubling needs, values that *)
(* double the table at each insertion, and the last ones before it wraps.  *)
MCGarbage == {0, 3, 50, 61, 63}

(* Inside a table, and at its end. *)
MCForeign == {0, 8}

(* The many keys are inserted nearly in order, with one datum: their order *)
(* makes no difference to the load.                                        *)
KeyMenu ==
  IF menu = "many" THEN {k \in MCManyKeys : k <= Cardinality(KeysIn(entries)) + 6}
  ELSE IF menu = "walk" THEN 2 .. 4
  ELSE MCFewKeys

DataMenu == IF menu = "few" THEN MCData ELSE {d1}

(* Walks are over tables that are doubled once. *)
MayInsert == menu # "walk" \/ capacity = 8 \/ ~NeedsToGrow(count, capacity)

MCInit == /\ WalkInit /\ menu \in {"few", "many", "walk"}
          /\ menu = "walk" => count = 3

MCTableNext ==
  \/ \E k \in KeyMenu, d \in DataMenu : (MayInsert /\ InsertCall(k, d)) \/ ReplaceData(k, d)
  \/ InsertStep
  \/ \E k \in KeyMenu : FindHash(k) \/ CopyFails(k)
  \/ DestroyTable

MCNext ==
  /\ \/ MCTableNext /\ (IF menu = "walk" THEN NoteStep ELSE UNCHANGED walkHistory)
                    /\ UNCHANGED ht_index
     \/ menu = "walk" /\ WalkStep
  /\ UNCHANGED menu

MCSpec == MCInit /\ [][MCNext]_<<walkVars, menu>> /\ HashFairness
=============================================================================
