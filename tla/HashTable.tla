------------------------------ MODULE HashTable ------------------------------
(***************************************************************************)
(* hashtable.c: open addressing with linear probing, in a table that is    *)
(* doubled.  insert_hash() is taken apart where its loops are: InsertCall  *)
(* runs to the loop of grow_table(), MoveEntry is one turn of that loop,   *)
(* SwapTables its end, and Place is the rest of insert_hash().             *)
(*                                                                         *)
(* create_hash_table() takes its memory from malloc() and never assigns    *)
(* `count': it starts as any element of Garbage.                           *)
(*                                                                         *)
(* The loops over a table count in an int and cast its capacity to one     *)
(* (hashtable.c 85, 134, 244): the tables here are those whose capacity an int  *)
(* holds, which is 48 gigabytes of entries.                                *)
(***************************************************************************)
EXTENDS Naturals

CONSTANTS
  Key, Data, NULL,
  Hash,          (* make_hash() of each key *)
  SizeModulus,   (* size_t counts modulo this *)
  MaxCapacity,   (* the largest table CALLOC() has memory for *)
  Garbage        (* what malloc() may leave in `count' *)

ASSUME NullAssumption == NULL \notin Key \cup Data
ASSUME HashFunction   == Hash \in [Key -> Nat]
ASSUME SizeAssumption ==
  /\ SizeModulus \in Nat
  /\ MaxCapacity \in 8 .. SizeModulus
  /\ MaxCapacity <= 2147483647   (* an int: see above *)
  /\ Garbage \subseteq 0 .. SizeModulus - 1

VARIABLES
  count, capacity, entries,   (* hashtable_t *)
  pc,        (* where insert_hash() is, "ready" between calls *)
  request,   (* its arguments *)
  grown,     (* grow_table(): the new entries *)
  moved,     (* grow_table(): i *)
  reply      (* what the last call returned *)

growVars  == <<grown, moved>>
tableVars == <<count, capacity, entries>>
hashVars  == <<tableVars, pc, request, growVars, reply>>

Slot == [key : Key \cup {NULL}, data : Data \cup {NULL}]
EmptySlot == [key |-> NULL, data |-> NULL]
EmptyTable(cap) == [i \in 0 .. cap - 1 |-> EmptySlot]

Used(table)   == {i \in DOMAIN table : table[i].key # NULL}
KeysIn(table) == {table[i].key : i \in Used(table)}

(* The contents of a table as the caller sees them. *)
ContentsOf(table) ==
  [k \in KeysIn(table) |-> table[CHOOSE i \in Used(table) : table[i].key = k].data]

HashTypeOK ==
  /\ count \in 0 .. SizeModulus - 1
  /\ capacity \in 8 .. MaxCapacity
  /\ entries \in [0 .. capacity - 1 -> Slot]
  /\ pc \in {"ready", "growing", "placing", "destroyed", "aborted"}
  /\ request \in [key : Key \cup {NULL}, data : Data \cup {NULL}]
  /\ pc \in {"growing", "placing"} => request \in [key : Key, data : Data]
  /\ grown \in IF pc = "growing" THEN [0 .. 2 * capacity - 1 -> Slot] ELSE {<< >>}
  /\ moved \in 0 .. capacity
  /\ reply \in [code : {"HASH_NO_ERROR", "HASH_EXIST", "HASH_NOT_FOUND"},
                data : Data \cup {NULL}]

-----------------------------------------------------------------------------
(* find_slot().  The capacity is a power of two, so that masking with      *)
(* cap - 1 is the remainder, and masking index + 1 is a step around.       *)
Home(k, cap) == Hash[k] % cap

Probe(k, cap, d) ==
  LET i == Home(k, cap) + d IN IF i < cap THEN i ELSE i - cap

(* The numbers of steps after which the loop can return.  There must be    *)
(* one: the loop has no other end.                                         *)
Stops(table, k, cap) ==
  {d \in 0 .. cap - 1 : table[Probe(k, cap, d)].key \in {NULL, k}}

FindSlot(table, k, cap) ==
  Probe(k, cap, CHOOSE d \in Stops(table, k, cap) :
                  \A e \in Stops(table, k, cap) : d <= e)

(* Mutant: the table is doubled when it is full. *)
NeedsToGrowLate(cnt, cap) == (cnt + 2) % SizeModulus > cap + 1

(* grow_table(): count + 2 > capacity * TABLE_MAX_LOAD, which is 0.75 *)
NeedsToGrow(cnt, cap) == 4 * ((cnt + 2) % SizeModulus) > 3 * cap

Answer(code, data) == reply' = [code |-> code, data |-> data]

-----------------------------------------------------------------------------
(* create_hash_table() *)
HashInit ==
  /\ count \in Garbage
  /\ capacity = 8
  /\ entries = EmptyTable(8)
  /\ pc = "ready"
  /\ request = EmptySlot
  /\ grown = << >>
  /\ moved = 0
  /\ reply = [code |-> "HASH_NO_ERROR", data |-> NULL]

(* Mutant: the memory is not checked. *)
InsertCallUnchecked(k, d) ==
  /\ pc = "ready"
  /\ request' = [key |-> k, data |-> d]
  /\ \/ /\ ~NeedsToGrow(count, capacity)
        /\ pc' = "placing"
        /\ UNCHANGED growVars
     \/ /\ NeedsToGrow(count, capacity)
        /\ pc' = "growing"
        /\ grown' = EmptyTable(2 * capacity)
        /\ moved' = 0
  /\ UNCHANGED <<tableVars, reply>>

(* insert_hash() and grow_table() up to its loop; CALLOC() ends the        *)
(* process when there is no memory.                                        *)
InsertCall(k, d) ==
  /\ pc = "ready"
  /\ request' = [key |-> k, data |-> d]
  /\ \/ /\ ~NeedsToGrow(count, capacity)
        /\ pc' = "placing"
        /\ UNCHANGED growVars
     \/ /\ NeedsToGrow(count, capacity)
        /\ 2 * capacity <= MaxCapacity
        /\ pc' = "growing"
        /\ grown' = EmptyTable(2 * capacity)
        /\ moved' = 0
     \/ /\ NeedsToGrow(count, capacity)
        /\ 2 * capacity > MaxCapacity
        /\ pc' = "aborted"
        /\ UNCHANGED growVars
  /\ UNCHANGED <<tableVars, reply>>

(* Mutant: the entry keeps the index it has in the old table. *)
MoveEntryInPlace ==
  /\ pc = "growing"
  /\ moved < capacity
  /\ grown' = [grown EXCEPT ![moved] = entries[moved]]
  /\ moved' = moved + 1
  /\ UNCHANGED <<tableVars, pc, request, reply>>

(* Mutant: the loop does not advance over a slot that is empty. *)
MoveEntryStuck ==
  /\ pc = "growing"
  /\ moved < capacity
  /\ entries[moved].key # NULL
  /\ grown' = [grown EXCEPT
                 ![FindSlot(grown, entries[moved].key, 2 * capacity)] = entries[moved]]
  /\ moved' = moved + 1
  /\ UNCHANGED <<tableVars, pc, request, reply>>

MoveEntry ==
  /\ pc = "growing"
  /\ moved < capacity
  /\ LET key == entries[moved].key IN
     grown' = IF key = NULL THEN grown
              ELSE [grown EXCEPT ![FindSlot(grown, key, 2 * capacity)] = entries[moved]]
  /\ moved' = moved + 1
  /\ UNCHANGED <<tableVars, pc, request, reply>>

SwapTables ==
  /\ pc = "growing"
  /\ moved = capacity
  /\ entries' = grown
  /\ capacity' = 2 * capacity
  /\ pc' = "placing"
  /\ grown' = << >>
  /\ moved' = 0
  /\ UNCHANGED <<count, request, reply>>

Place ==
  /\ pc = "placing"
  /\ LET s == FindSlot(entries, request.key, capacity) IN
     \/ /\ entries[s].key = NULL
        /\ entries' = [entries EXCEPT ![s] = request]
        /\ count' = (count + 1) % SizeModulus
        /\ Answer("HASH_NO_ERROR", NULL)
     \/ /\ entries[s].key # NULL
        /\ Answer("HASH_EXIST", NULL)
        /\ UNCHANGED <<entries, count>>
  /\ pc' = "ready"
  /\ request' = EmptySlot
  /\ UNCHANGED <<capacity, growVars>>

(* replace_hash_data() *)
ReplaceData(k, d) ==
  /\ pc = "ready"
  /\ LET s == FindSlot(entries, k, capacity) IN
     \/ /\ entries[s].key # NULL
        /\ entries' = [entries EXCEPT ![s].data = d]
        /\ Answer("HASH_NO_ERROR", NULL)
     \/ /\ entries[s].key = NULL
        /\ Answer("HASH_NOT_FOUND", NULL)
        /\ UNCHANGED entries
  /\ UNCHANGED <<count, capacity, pc, request, growVars>>

(* find_hash() *)
FindHash(k) ==
  /\ pc = "ready"
  /\ LET s == FindSlot(entries, k, capacity) IN
     \/ /\ entries[s].key # NULL
        /\ Answer("HASH_NO_ERROR", entries[s].data)
     \/ /\ entries[s].key = NULL
        /\ Answer("HASH_NOT_FOUND", NULL)
  /\ UNCHANGED <<tableVars, pc, request, growVars>>

(* STRDUP() and MALLOC() end the process when there is no memory for what  *)
(* insert_hash() stores, or replace_hash_data() stores instead.            *)
CopyFails(k) ==
  /\ LET stored == entries[FindSlot(entries, k, capacity)].key # NULL IN
     \/ pc = "placing" /\ k = request.key /\ ~stored
     \/ pc = "ready" /\ stored
  /\ pc' = "aborted"
  /\ UNCHANGED <<tableVars, request, growVars, reply>>

(* destroy_hash_table() *)
DestroyTable ==
  /\ pc = "ready"
  /\ pc' = "destroyed"
  /\ UNCHANGED <<tableVars, request, growVars, reply>>

InsertStep == MoveEntry \/ SwapTables \/ Place

HashNext ==
  \/ \E k \in Key, d \in Data : InsertCall(k, d) \/ ReplaceData(k, d)
  \/ InsertStep
  \/ \E k \in Key : FindHash(k) \/ CopyFails(k)
  \/ DestroyTable

(* The code of insert_hash() runs to its end, nothing can hold it.         *)
HashFairness == WF_hashVars(InsertStep)

HashSpec == HashInit /\ [][HashNext]_hashVars /\ HashFairness

-----------------------------------------------------------------------------
(* find_slot() ends: whatever `count' started as, the table that is        *)
(* probed, and the one that is being filled, have a slot without a key.    *)
(* The loop is unbounded, so a full table would hold the caller for ever.  *)
ProbingEnds ==
  /\ Used(entries) # DOMAIN entries
  /\ pc = "growing" => Used(grown) # DOMAIN grown

(* The table is a dictionary: collisions, wrapping around the end, and     *)
(* moving every entry to another place when it is doubled do not lose,     *)
(* duplicate or confuse an entry.                                          *)
Abstract == INSTANCE Dictionary WITH
  dict <- ContentsOf(entries), usable <- pc \notin {"destroyed", "aborted"}

ImplementsDictionary == Abstract!Spec

(* Every insertion returns, or ends the process for lack of memory.        *)
InsertReturns == pc \in {"growing", "placing"} ~> pc \in {"ready", "aborted"}
=============================================================================
