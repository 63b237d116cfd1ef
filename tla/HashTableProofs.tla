--------------------------- MODULE HashTableProofs ---------------------------
(***************************************************************************)
(* Proofs about HashTable, for every set of keys, every hash function, and *)
(* every value that `count' may start with.                                *)
(*                                                                         *)
(* Two facts carry the rest.  In a well formed table every key is behind   *)
(* an unbroken run of used slots that starts at its home, so that probing  *)
(* meets it before it meets an empty slot.  And a table is never full,     *)
(* because `count', even when it is wrong, is wrong in a way that makes    *)
(* the table grow too early, or late by less than a quarter of its size.   *)
(***************************************************************************)
EXTENDS HashWalk, FiniteSetTheorems, WellFoundedInduction, TLAPS

Tables(cap) == [0 .. cap - 1 -> Slot]

NoKeyTwice(table) ==
  \A i, j \in Used(table) : table[i].key = table[j].key => i = j

(* The slots on the way to d steps from the home of a key are used. *)
RunBefore(table, k, cap, d) ==
  \A e \in 0 .. d - 1 : table[Probe(k, cap, e)].key # NULL

Reachable(table, cap) ==
  \A i \in Used(table) : \E d \in 0 .. cap - 1 :
    /\ i = Probe(table[i].key, cap, d)
    /\ RunBefore(table, table[i].key, cap, d)

WellFormed(table, cap) == NoKeyTwice(table) /\ Reachable(table, cap)

-----------------------------------------------------------------------------
LEMMA SmallestElement ==
  ASSUME NEW S \in SUBSET Nat, S # {}
  PROVE  \E m \in S : \A n \in S : m <= n
<1>1. PICK m \in S : \A n \in S : ~(<<n, m>> \in OpToRel(<, Nat))
  BY NatLessThanWellFounded, WFMin
<1>2. \A n \in S : ~(n < m)
  BY <1>1 DEF OpToRel
<1> QED  BY <1>2

LEMMA HomeType ==
  ASSUME NEW k \in Key, NEW cap \in Nat \ {0}
  PROVE  Home(k, cap) \in 0 .. cap - 1
BY HashFunction DEF Home

LEMMA ProbeType ==
  ASSUME NEW k \in Key, NEW cap \in Nat \ {0}, NEW d \in 0 .. cap - 1
  PROVE  Probe(k, cap, d) \in 0 .. cap - 1
BY HomeType DEF Probe

(* Probing visits every slot. *)
LEMMA ProbeReaches ==
  ASSUME NEW k \in Key, NEW cap \in Nat \ {0}, NEW i \in 0 .. cap - 1
  PROVE  \E d \in 0 .. cap - 1 : i = Probe(k, cap, d)
<1> DEFINE h == Home(k, cap)
           d == IF h <= i THEN i - h ELSE i + cap - h
<1>1. h \in 0 .. cap - 1
  BY HomeType
<1>2. d \in 0 .. cap - 1 /\ i = IF h + d < cap THEN h + d ELSE h + d - cap
  <2> HIDE DEF h
  <2> QED  BY <1>1
<1>3. \A n \in 0 .. cap - 1 : Probe(k, cap, n) = IF h + n < cap THEN h + n ELSE h + n - cap
  BY <1>1 DEF Probe
<1> HIDE DEF h, d
<1> QED  BY <1>2, <1>3

(* What find_slot() returns when there is an empty slot: a slot without a  *)
(* key or with the key, and none before it.                                *)
LEMMA FindSlotStops ==
  ASSUME NEW k \in Key, NEW cap \in Nat \ {0}, NEW table \in Tables(cap),
         Used(table) # DOMAIN table
  PROVE  \E d \in 0 .. cap - 1 :
           /\ FindSlot(table, k, cap) = Probe(k, cap, d)
           /\ FindSlot(table, k, cap) \in 0 .. cap - 1
           /\ table[FindSlot(table, k, cap)].key \in {NULL, k}
           /\ \A e \in 0 .. d - 1 : table[Probe(k, cap, e)].key \notin {NULL, k}
<1> DEFINE S == Stops(table, k, cap)
           least == CHOOSE d \in S : \A e \in S : d <= e
<1>1. PICK i \in 0 .. cap - 1 : table[i].key = NULL
  BY DEF Used, Tables
<1>2. PICK n \in 0 .. cap - 1 : i = Probe(k, cap, n)
  BY ProbeReaches
<1>3. n \in S /\ S \subseteq 0 .. cap - 1
  BY <1>1, <1>2 DEF Stops
<1>4. \E d \in S : \A e \in S : d <= e
  <2>1. S \in SUBSET Nat /\ S # {}
    BY <1>3
  <2> HIDE DEF S
  <2> QED  BY <2>1, SmallestElement
<1>5. least \in S /\ \A e \in S : least <= e
  <2> HIDE DEF S
  <2> QED  BY <1>4
<1>6. least \in 0 .. cap - 1 /\ table[Probe(k, cap, least)].key \in {NULL, k}
  BY <1>5 DEF Stops
<1>7. \A e \in 0 .. least - 1 : table[Probe(k, cap, e)].key \notin {NULL, k}
  <2> SUFFICES ASSUME NEW e \in 0 .. least - 1,
                      table[Probe(k, cap, e)].key \in {NULL, k}
               PROVE  FALSE
    OBVIOUS
  <2>1. e \in S
    BY <1>6 DEF Stops
  <2> HIDE DEF S, least
  <2> QED  BY <2>1, <1>5, <1>6
<1>8. FindSlot(table, k, cap) = Probe(k, cap, least)
  BY DEF FindSlot
<1> HIDE DEF least
<1> QED  BY <1>6, <1>7, <1>8, ProbeType

(* A key that is stored is found where it is stored. *)
LEMMA FindSlotStored ==
  ASSUME NEW k \in Key, NEW cap \in Nat \ {0}, NEW table \in Tables(cap),
         Used(table) # DOMAIN table, WellFormed(table, cap),
         NEW i \in Used(table), table[i].key = k
  PROVE  FindSlot(table, k, cap) = i
<1>1. PICK d \in 0 .. cap - 1 :
        /\ FindSlot(table, k, cap) = Probe(k, cap, d)
        /\ FindSlot(table, k, cap) \in 0 .. cap - 1
        /\ table[FindSlot(table, k, cap)].key \in {NULL, k}
        /\ \A e \in 0 .. d - 1 : table[Probe(k, cap, e)].key \notin {NULL, k}
  BY FindSlotStops
<1>2. PICK n \in 0 .. cap - 1 : i = Probe(k, cap, n) /\ RunBefore(table, k, cap, n)
  BY DEF WellFormed, Reachable
<1>3. ~(n < d)
  BY <1>1, <1>2
<1>4. CASE d < n
  <2>1. table[Probe(k, cap, d)].key # NULL
    BY <1>2, <1>4 DEF RunBefore
  <2>2. FindSlot(table, k, cap) \in Used(table)
    BY <1>1, <2>1 DEF Used, Tables
  <2> QED  BY <1>1, <2>1, <2>2 DEF WellFormed, NoKeyTwice
<1>5. CASE d = n
  BY <1>1, <1>2, <1>5
<1> QED  BY <1>3, <1>4, <1>5

(* For any other key the slot is empty. *)
LEMMA FindSlotFree ==
  ASSUME NEW k \in Key, NEW cap \in Nat \ {0}, NEW table \in Tables(cap),
         Used(table) # DOMAIN table,
         \A i \in Used(table) : table[i].key # k
  PROVE  table[FindSlot(table, k, cap)].key = NULL
<1>1. /\ FindSlot(table, k, cap) \in 0 .. cap - 1
      /\ table[FindSlot(table, k, cap)].key \in {NULL, k}
  BY FindSlotStops
<1> QED  BY <1>1 DEF Used, Tables

(* An entry put where find_slot() says keeps the table well formed. *)
LEMMA PutWellFormed ==
  ASSUME NEW cap \in Nat \ {0}, NEW table \in Tables(cap),
         Used(table) # DOMAIN table, WellFormed(table, cap),
         NEW entry \in Slot, entry.key # NULL,
         \A i \in Used(table) : table[i].key # entry.key
  PROVE  LET s == FindSlot(table, entry.key, cap)
             put == [table EXCEPT ![s] = entry]
         IN  /\ s \in 0 .. cap - 1
             /\ put \in Tables(cap)
             /\ Used(put) = Used(table) \cup {s}
             /\ s \notin Used(table)
             /\ WellFormed(put, cap)
<1> DEFINE k == entry.key
           s == FindSlot(table, k, cap)
           put == [table EXCEPT ![s] = entry]
<1>1. k \in Key
  BY DEF Slot
<1>2. PICK d \in 0 .. cap - 1 :
        /\ s = Probe(k, cap, d)
        /\ s \in 0 .. cap - 1
        /\ \A e \in 0 .. d - 1 : table[Probe(k, cap, e)].key \notin {NULL, k}
  BY <1>1, FindSlotStops
<1>3. table[s].key = NULL
  BY <1>1, FindSlotFree
<1> HIDE DEF s
<1>4. put \in Tables(cap) /\ put[s] = entry
      /\ \A i \in 0 .. cap - 1 : i # s => put[i] = table[i]
  BY <1>2 DEF Tables
<1>5. Used(put) = Used(table) \cup {s} /\ s \notin Used(table)
  BY <1>2, <1>3, <1>4 DEF Used, Tables
<1>6. NoKeyTwice(put)
  BY <1>4, <1>5 DEF NoKeyTwice, WellFormed, Used, Tables
<1>7. \A x \in Key, n \in 0 .. cap - 1 : RunBefore(table, x, cap, n) => RunBefore(put, x, cap, n)
  <2> SUFFICES ASSUME NEW x \in Key, NEW n \in 0 .. cap - 1, RunBefore(table, x, cap, n),
                      NEW e \in 0 .. n - 1
               PROVE  put[Probe(x, cap, e)].key # NULL
    BY DEF RunBefore
  <2>1. Probe(x, cap, e) \in 0 .. cap - 1 /\ table[Probe(x, cap, e)].key # NULL
    BY ProbeType DEF RunBefore
  <2> QED  BY <2>1, <1>4
<1>8. Reachable(put, cap)
  <2> SUFFICES ASSUME NEW i \in Used(put)
               PROVE  \E n \in 0 .. cap - 1 : /\ i = Probe(put[i].key, cap, n)
                                              /\ RunBefore(put, put[i].key, cap, n)
    BY DEF Reachable
  <2>1. CASE i = s
    <3>1. RunBefore(table, k, cap, d)
      BY <1>2 DEF RunBefore
    <3> QED  BY <1>1, <1>2, <1>4, <1>7, <2>1, <3>1
  <2>2. CASE i # s
    <3>1. i \in Used(table) /\ put[i] = table[i] /\ table[i].key \in Key
      BY <1>4, <1>5, <2>2 DEF Used, Tables, Slot
    <3>2. PICK n \in 0 .. cap - 1 : /\ i = Probe(table[i].key, cap, n)
                                    /\ RunBefore(table, table[i].key, cap, n)
      BY <3>1 DEF WellFormed, Reachable
    <3> QED  BY <1>7, <3>1, <3>2
  <2> QED  BY <2>1, <2>2
<1> QED  BY <1>2, <1>4, <1>5, <1>6, <1>8 DEF WellFormed, s

-----------------------------------------------------------------------------
(* How far off `count' may be for a table with n keys: it counts too many  *)
(* until it wraps around, and then too few by at most cap / 4.             *)
Load(n, cnt, cap) ==
  \/ cnt >= n /\ 4 * (cnt + 1) <= 3 * cap
  \/ cnt >= n /\ 4 * n + 8 <= cap /\ cnt <= SizeModulus - 2
  \/ cnt >= n /\ 4 * n + 4 <= cap /\ cnt = SizeModulus - 1
  \/ cnt <= n /\ 4 * (n - cnt) <= cap /\ 4 * (cnt + 1) <= 3 * cap

NextCount(cnt) == (cnt + 1) % SizeModulus

LEMMA CountFacts ==
  ASSUME NEW cnt \in 0 .. SizeModulus - 1
  PROVE  /\ NextCount(cnt) = IF cnt = SizeModulus - 1 THEN 0 ELSE cnt + 1
         /\ (cnt + 2) % SizeModulus =
              IF cnt >= SizeModulus - 2 THEN cnt + 2 - SizeModulus ELSE cnt + 2
BY SizeAssumption DEF NextCount

LEMMA LoadStart ==
  ASSUME NEW cnt \in Garbage
  PROVE  Load(0, cnt, 8)
BY SizeAssumption DEF Load

LEMMA LoadLeavesRoom ==
  ASSUME NEW n \in Nat, NEW cnt \in 0 .. SizeModulus - 1, NEW cap \in Nat,
         Load(n, cnt, cap)
  PROVE  n < cap
BY SizeAssumption DEF Load

LEMMA LoadDoubled ==
  ASSUME NEW n \in Nat, NEW cnt \in 0 .. SizeModulus - 1, NEW cap \in Nat,
         Load(n, cnt, cap)
  PROVE  Load(n, cnt, 2 * cap)
BY SizeAssumption DEF Load

(* One more key fits when grow_table() has looked at the table. *)
LEMMA LoadInsert ==
  ASSUME NEW n \in Nat, NEW cnt \in 0 .. SizeModulus - 1, NEW cap \in 8 .. MaxCapacity,
         Load(n, cnt, cap), ~NeedsToGrow(cnt, cap)
  PROVE  Load(n + 1, NextCount(cnt), cap)
BY SizeAssumption, CountFacts DEF Load, NeedsToGrow

LEMMA LoadInsertDoubled ==
  ASSUME NEW n \in Nat, NEW cnt \in 0 .. SizeModulus - 1, NEW cap \in 8 .. MaxCapacity,
         Load(n, cnt, cap), NeedsToGrow(cnt, cap)
  PROVE  Load(n + 1, NextCount(cnt), 2 * cap)
BY SizeAssumption, CountFacts DEF Load, NeedsToGrow

-----------------------------------------------------------------------------
Moved == {j \in Used(entries) : j < moved}

(* grow_table() in its loop: the new table holds the entries that were     *)
(* moved, and no others.                                                   *)
GrowInv ==
  /\ WellFormed(grown, 2 * capacity)
  /\ \A j \in Moved : \E i \in Used(grown) : grown[i] = entries[j]
  /\ \A i \in Used(grown) : \E j \in Moved : grown[i] = entries[j]
  /\ Cardinality(Used(grown)) = Cardinality(Moved)
  /\ 2 * capacity <= MaxCapacity

Keys == Cardinality(Used(entries))

LoadInv ==
  /\ Load(Keys, count, capacity)
  /\ pc = "placing" => Load(Keys + 1, NextCount(count), capacity)
  /\ pc = "growing" => Load(Keys + 1, NextCount(count), 2 * capacity)

HashInv ==
  /\ HashTypeOK
  /\ WellFormed(entries, capacity)
  /\ LoadInv
  /\ pc = "growing" => GrowInv

LEMMA UsedFinite ==
  ASSUME NEW cap \in Nat, NEW table \in Tables(cap)
  PROVE  /\ DOMAIN table = 0 .. cap - 1
         /\ Used(table) \subseteq 0 .. cap - 1
         /\ IsFiniteSet(Used(table))
         /\ Cardinality(Used(table)) \in Nat
         /\ Cardinality(Used(table)) < cap => Used(table) # DOMAIN table
<1>1. DOMAIN table = 0 .. cap - 1 /\ Used(table) \subseteq 0 .. cap - 1
  BY DEF Used, Tables
<1>2. IsFiniteSet(0 .. cap - 1) /\ Cardinality(0 .. cap - 1) = cap
  BY FS_Interval
<1> QED  BY <1>1, <1>2, FS_Subset, FS_CardinalityType

LEMMA EmptyWellFormed ==
  ASSUME NEW cap \in Nat
  PROVE  /\ EmptyTable(cap) \in Tables(cap)
         /\ Used(EmptyTable(cap)) = {}
         /\ Cardinality(Used(EmptyTable(cap))) = 0
         /\ WellFormed(EmptyTable(cap), cap)
<1>1. EmptyTable(cap) \in Tables(cap) /\ Used(EmptyTable(cap)) = {}
  BY DEF EmptyTable, EmptySlot, Tables, Slot, Used
<1> QED  BY <1>1, FS_EmptySet DEF WellFormed, NoKeyTwice, Reachable

(* The tables that are probed have an empty slot. *)
LEMMA RoomToProbe ==
  ASSUME HashInv
  PROVE  /\ capacity \in Nat \ {0} /\ entries \in Tables(capacity)
         /\ Used(entries) # DOMAIN entries
         /\ pc = "growing" => /\ 2 * capacity \in Nat \ {0}
                              /\ grown \in Tables(2 * capacity)
                              /\ Used(grown) # DOMAIN grown
<1>1. capacity \in Nat \ {0} /\ entries \in Tables(capacity) /\ count \in 0 .. SizeModulus - 1
  BY SizeAssumption DEF HashInv, HashTypeOK, Tables
<1>2. Keys \in Nat /\ IsFiniteSet(Used(entries))
  BY <1>1, UsedFinite DEF Keys
<1>3. Used(entries) # DOMAIN entries
  <2>1. Load(Keys, count, capacity)
    BY DEF HashInv, LoadInv
  <2>2. Keys < capacity
    BY <1>1, <1>2, <2>1, LoadLeavesRoom
  <2> QED  BY <1>1, <2>2, UsedFinite DEF Keys
<1>4. ASSUME pc = "growing"
      PROVE  2 * capacity \in Nat \ {0} /\ grown \in Tables(2 * capacity) /\ Used(grown) # DOMAIN grown
  <2>1. 2 * capacity \in Nat \ {0} /\ grown \in Tables(2 * capacity)
    BY <1>1, <1>4 DEF HashInv, HashTypeOK, Tables
  <2>2. Moved \subseteq Used(entries)
    BY DEF Moved
  <2>3. Cardinality(Moved) <= Keys /\ Cardinality(Moved) \in Nat
    BY <1>2, <2>2, FS_Subset, FS_CardinalityType DEF Keys
  <2>4. Keys <= capacity
    BY <1>1, <1>2, <1>4, LoadLeavesRoom DEF HashInv, LoadInv
  <2>5. Cardinality(Used(grown)) = Cardinality(Moved)
    BY <1>4 DEF HashInv, GrowInv
  <2>6. Cardinality(Used(grown)) < 2 * capacity
    BY <1>1, <1>2, <2>3, <2>4, <2>5
  <2> QED  BY <2>1, <2>6, UsedFinite
<1> QED  BY <1>1, <1>3, <1>4

-----------------------------------------------------------------------------
LEMMA WellFormedLater ==
  /\ WellFormed(entries, capacity)' <=> WellFormed(entries', capacity')
  /\ WellFormed(grown, 2 * capacity)' <=> WellFormed(grown', 2 * capacity')
BY DEF WellFormed, NoKeyTwice, Reachable, RunBefore, Used, Probe, Home

LEMMA InitHashInv == HashInit => HashInv
<1> SUFFICES ASSUME HashInit PROVE HashInv
  OBVIOUS
<1>1. HashTypeOK
  <2>1. entries \in [0 .. capacity - 1 -> Slot]
    BY EmptyWellFormed DEF HashInit, Tables
  <2>2. count \in 0 .. SizeModulus - 1 /\ capacity \in 8 .. MaxCapacity /\ moved \in 0 .. capacity
    BY SizeAssumption DEF HashInit
  <2> QED  BY <2>1, <2>2 DEF HashInit, HashTypeOK, EmptySlot
<1>2. WellFormed(entries, capacity) /\ Keys = 0
  BY EmptyWellFormed DEF HashInit, Keys
<1>3. LoadInv
  BY <1>2, LoadStart DEF HashInit, LoadInv
<1> QED  BY <1>1, <1>2, <1>3 DEF HashInv, HashInit

(* What stays when the table does. *)
LEMMA SameTable ==
  ASSUME HashInv, UNCHANGED tableVars, HashTypeOK', pc' \in {"ready", "destroyed", "aborted"}
  PROVE  HashInv'
<1>1. WellFormed(entries, capacity)'
  BY WellFormedLater DEF HashInv, tableVars
<1>2. LoadInv'
  BY DEF HashInv, LoadInv, Keys, Used, tableVars, Load, NextCount
<1> QED  BY <1>1, <1>2 DEF HashInv

LEMMA InsertCallInv ==
  ASSUME HashInv, NEW k \in Key, NEW d \in Data, InsertCall(k, d)
  PROVE  HashInv'
<1>1. pc = "ready" /\ UNCHANGED tableVars /\ UNCHANGED reply
  BY DEF InsertCall
<1>2. count \in 0 .. SizeModulus - 1 /\ capacity \in 8 .. MaxCapacity /\ capacity \in Nat
      /\ 2 * capacity \in Nat
  BY SizeAssumption DEF HashInv, HashTypeOK
<1>3. Keys \in Nat /\ Load(Keys, count, capacity) /\ Keys' = Keys
  BY <1>1, <1>2, RoomToProbe, UsedFinite DEF HashInv, LoadInv, Keys, tableVars, Used
<1>4. WellFormed(entries, capacity)'
  BY <1>1, WellFormedLater DEF HashInv, tableVars
<1>5. request' \in [key : Key, data : Data] /\ request' \in [key : Key \cup {NULL}, data : Data \cup {NULL}]
  BY DEF InsertCall
<1>6. CASE ~NeedsToGrow(count, capacity) /\ pc' = "placing" /\ UNCHANGED growVars
  <2>1. HashTypeOK'
    BY <1>1, <1>5, <1>6 DEF HashInv, HashTypeOK, tableVars, growVars
  <2>2. LoadInv'
    BY <1>1, <1>2, <1>3, <1>6, LoadInsert DEF LoadInv, tableVars, Load, NextCount
  <2> QED  BY <1>4, <1>6, <2>1, <2>2 DEF HashInv
<1>7. CASE /\ NeedsToGrow(count, capacity) /\ 2 * capacity <= MaxCapacity /\ pc' = "growing"
           /\ grown' = EmptyTable(2 * capacity) /\ moved' = 0
  <2>1. grown' \in Tables(2 * capacity) /\ Used(grown)' = {} /\ Cardinality(Used(grown))' = 0
        /\ WellFormed(grown, 2 * capacity)'
    BY <1>1, <1>2, <1>7, EmptyWellFormed DEF tableVars
  <2>2. HashTypeOK'
    BY <1>1, <1>2, <1>5, <1>7, <2>1 DEF HashInv, HashTypeOK, tableVars, Tables
  <2>3. LoadInv'
    BY <1>1, <1>2, <1>3, <1>7, LoadInsertDoubled DEF LoadInv, tableVars, Load, NextCount
  <2>4. Moved' = {}
    BY <1>1, <1>2, <1>7, RoomToProbe, UsedFinite DEF Moved, tableVars
  <2>5. GrowInv'
    BY <1>1, <1>7, <2>1, <2>4, FS_EmptySet DEF GrowInv, tableVars
  <2> QED  BY <1>4, <2>2, <2>3, <2>5 DEF HashInv
<1>8. CASE pc' = "aborted" /\ UNCHANGED growVars
  <2>1. HashTypeOK'
    BY <1>1, <1>5, <1>8 DEF HashInv, HashTypeOK, tableVars, growVars
  <2> QED  BY <1>1, <1>8, <2>1, SameTable
<1> QED  BY <1>6, <1>7, <1>8 DEF InsertCall

LEMMA MoveEntryInv ==
  ASSUME HashInv, MoveEntry
  PROVE  HashInv'
<1> DEFINE cap == 2 * capacity
           entry == entries[moved]
<1>1. /\ pc = "growing" /\ pc' = "growing" /\ moved < capacity /\ moved' = moved + 1
      /\ UNCHANGED tableVars /\ UNCHANGED <<pc, request, reply>>
  BY DEF MoveEntry
<1>2. /\ capacity \in Nat \ {0} /\ entries \in Tables(capacity)
      /\ cap \in Nat \ {0} /\ grown \in Tables(cap) /\ Used(grown) # DOMAIN grown
      /\ moved \in 0 .. capacity - 1 /\ entry \in Slot
  BY <1>1, RoomToProbe DEF HashInv, HashTypeOK, Tables
<1>3. GrowInv /\ WellFormed(grown, cap) /\ NoKeyTwice(entries)
  BY <1>1 DEF HashInv, GrowInv, WellFormed
<1>4. WellFormed(entries, capacity)'
  BY <1>1, WellFormedLater DEF HashInv, tableVars
<1>5. LoadInv'
  BY <1>1 DEF HashInv, LoadInv, Keys, Used, tableVars, Load, NextCount
<1>8. Moved' = {j \in Used(entries) : j < moved \/ j = moved}
  <2>1. \A j \in Used(entries) : j \in Nat
    BY <1>2, UsedFinite
  <2>2. Moved' = {j \in Used(entries) : j < moved + 1}
    BY <1>1 DEF Moved, tableVars, Used
  <2> QED  BY <1>2, <2>1, <2>2
<1>6. CASE entry.key = NULL
  <2>1. grown' = grown
    BY <1>6 DEF MoveEntry
  <2>2. moved \notin Used(entries)
    BY <1>2, <1>6 DEF Used
  <2>5. Moved' = Moved
    BY <1>8, <2>2 DEF Moved
  <2>3. GrowInv'
    BY <1>1, <1>3, <2>1, <2>5, WellFormedLater DEF GrowInv, tableVars, Used
  <2>4. HashTypeOK'
    BY <1>1, <1>2, <2>1 DEF HashInv, HashTypeOK, tableVars, Tables
  <2> QED  BY <1>4, <1>5, <2>3, <2>4 DEF HashInv
<1>7. CASE entry.key # NULL
  <2> DEFINE s == FindSlot(grown, entry.key, cap)
  <2>1. moved \in Used(entries) /\ moved \notin Moved
    BY <1>2, <1>7 DEF Used, Moved, Tables
  <2>2. Moved' = Moved \cup {moved}
    BY <1>8, <2>1 DEF Moved
  <2>3. grown' = [grown EXCEPT ![s] = entry]
    BY <1>7 DEF MoveEntry
  <2>4. \A i \in Used(grown) : grown[i].key # entry.key
    BY <1>3, <2>1 DEF GrowInv, NoKeyTwice, Moved
  <2>5. /\ s \in 0 .. cap - 1 /\ grown' \in Tables(cap)
        /\ Used(grown') = Used(grown) \cup {s} /\ s \notin Used(grown)
        /\ WellFormed(grown', cap)
    <3> HIDE DEF cap, entry
    <3> QED  BY <1>2, <1>3, <1>7, <2>3, <2>4, PutWellFormed
  <2>6. grown'[s] = entry /\ \A i \in Used(grown) : grown'[i] = grown[i]
    <3> HIDE DEF cap, entry, s
    <3> QED  BY <1>2, <2>3, <2>5 DEF Tables, Used
  <2>7. \A j \in Moved' : \E i \in Used(grown') : grown'[i] = entries[j]
    BY <1>3, <2>2, <2>5, <2>6 DEF GrowInv
  <2>8. \A i \in Used(grown') : \E j \in Moved' : grown'[i] = entries[j]
    BY <1>3, <2>2, <2>5, <2>6 DEF GrowInv
  <2>9. Cardinality(Used(grown')) = Cardinality(Moved')
    <3>1. IsFiniteSet(Moved)
      BY <1>2, UsedFinite, FS_Subset DEF Moved
    <3>2. Cardinality(Moved') = Cardinality(Moved) + 1
      BY <2>1, <2>2, <3>1, FS_AddElement
    <3>3. Cardinality(Used(grown')) = Cardinality(Used(grown)) + 1
      BY <1>2, <2>5, UsedFinite, FS_AddElement
    <3> QED  BY <1>3, <3>2, <3>3 DEF GrowInv
  <2>10. GrowInv'
    BY <1>1, <1>3, <2>5, <2>7, <2>8, <2>9, WellFormedLater DEF GrowInv, tableVars, Used
  <2>11. HashTypeOK'
    BY <1>1, <1>2, <2>5 DEF HashInv, HashTypeOK, tableVars, Tables
  <2> QED  BY <1>4, <1>5, <2>10, <2>11 DEF HashInv
<1> QED  BY <1>6, <1>7

LEMMA SwapTablesInv ==
  ASSUME HashInv, SwapTables
  PROVE  HashInv'
<1>1. /\ pc = "growing" /\ pc' = "placing" /\ moved = capacity /\ entries' = grown
      /\ capacity' = 2 * capacity /\ grown' = << >> /\ moved' = 0
      /\ UNCHANGED <<count, request, reply>>
  BY DEF SwapTables
<1>2. capacity \in Nat /\ entries \in Tables(capacity) /\ grown \in Tables(2 * capacity)
      /\ count \in 0 .. SizeModulus - 1
  BY <1>1, RoomToProbe DEF HashInv, HashTypeOK
<1>3. Moved = Used(entries)
  BY <1>1, <1>2, UsedFinite DEF Moved
<1>4. Keys' = Keys /\ Keys \in Nat
  BY <1>1, <1>2, <1>3, UsedFinite DEF HashInv, GrowInv, Keys, Used
<1>5. WellFormed(entries, capacity)'
  BY <1>1, WellFormedLater DEF HashInv, GrowInv
<1>6. LoadInv'
  <2>1. Load(Keys, count, 2 * capacity)
    BY <1>1, <1>2, <1>4, LoadDoubled DEF HashInv, LoadInv
  <2>2. Load(Keys + 1, NextCount(count), 2 * capacity)
    BY <1>1 DEF HashInv, LoadInv
  <2> QED  BY <1>1, <1>4, <2>1, <2>2 DEF LoadInv, Load, NextCount
<1>7. HashTypeOK'
  <2>1. 2 * capacity \in 8 .. MaxCapacity
    BY <1>1, SizeAssumption DEF HashInv, HashTypeOK, GrowInv
  <2> QED  BY <1>1, <1>2, <2>1 DEF HashInv, HashTypeOK, Tables
<1> QED  BY <1>1, <1>5, <1>6, <1>7 DEF HashInv

LEMMA PlaceInv ==
  ASSUME HashInv, Place
  PROVE  HashInv'
<1> DEFINE s == FindSlot(entries, request.key, capacity)
<1>1. pc = "placing" /\ pc' = "ready" /\ UNCHANGED <<capacity, growVars>> /\ request' = EmptySlot
  BY DEF Place
<1>2. /\ capacity \in Nat \ {0} /\ entries \in Tables(capacity) /\ Used(entries) # DOMAIN entries
      /\ request \in [key : Key, data : Data] /\ request \in Slot /\ request.key # NULL
      /\ count \in 0 .. SizeModulus - 1
  BY <1>1, RoomToProbe, NullAssumption DEF HashInv, HashTypeOK, Slot
<1>3. WellFormed(entries, capacity)
  BY DEF HashInv
<1>4. CASE entries[s].key = NULL /\ entries' = [entries EXCEPT ![s] = request]
           /\ count' = (count + 1) % SizeModulus /\ Answer("HASH_NO_ERROR", NULL)
  <2>1. \A i \in Used(entries) : entries[i].key # request.key
    <3>1. \A i \in Used(entries) : entries[i].key = request.key => s = i
      BY <1>2, <1>3, FindSlotStored
    <3> HIDE DEF s
    <3>2. s \notin Used(entries)
      BY <1>4 DEF Used
    <3> QED  BY <3>1, <3>2
  <2>2. /\ s \in 0 .. capacity - 1 /\ entries' \in Tables(capacity)
        /\ Used(entries') = Used(entries) \cup {s} /\ s \notin Used(entries)
        /\ WellFormed(entries', capacity)
    BY <1>2, <1>3, <1>4, <2>1, PutWellFormed
  <2>3. Keys' = Keys + 1 /\ Keys \in Nat
    <3> HIDE DEF s
    <3>1. IsFiniteSet(Used(entries)) /\ Cardinality(Used(entries)) \in Nat
      BY <1>2, UsedFinite
    <3>2. Cardinality(Used(entries) \cup {s}) = Cardinality(Used(entries)) + 1
      BY <2>2, <3>1, FS_AddElement
    <3> QED  BY <2>2, <3>1, <3>2 DEF Keys
  <2>4. count' = NextCount(count) /\ count' \in 0 .. SizeModulus - 1
    BY <1>2, <1>4, CountFacts, SizeAssumption DEF NextCount
  <2>5. LoadInv'
    BY <1>1, <2>3, <2>4 DEF HashInv, LoadInv, growVars
  <2>6. HashTypeOK'
    BY <1>1, <1>4, <2>2, <2>4
       DEF HashInv, HashTypeOK, Tables, growVars, EmptySlot, Answer
  <2> QED  BY <1>1, <2>2, <2>5, <2>6 DEF HashInv
<1>5. CASE Answer("HASH_EXIST", NULL) /\ UNCHANGED <<entries, count>>
  <2>1. LoadInv'
    BY <1>1, <1>5 DEF HashInv, LoadInv, Keys, Used
  <2>4. entries' = entries /\ capacity' = capacity
    BY <1>1, <1>5
  <2>2. WellFormed(entries, capacity)'
    BY <1>3, <2>4, WellFormedLater
  <2>3. HashTypeOK'
    BY <1>1, <1>5 DEF HashInv, HashTypeOK, growVars, EmptySlot, Answer
  <2> QED  BY <1>1, <2>1, <2>2, <2>3 DEF HashInv
<1> QED  BY <1>4, <1>5 DEF Place

(* A table with the same keys in the same places is as well formed. *)
LEMMA SameKeys ==
  ASSUME NEW cap \in Nat \ {0}, NEW table \in Tables(cap), WellFormed(table, cap),
         NEW new \in Tables(cap), \A i \in 0 .. cap - 1 : new[i].key = table[i].key
  PROVE  Used(new) = Used(table) /\ WellFormed(new, cap)
<1>2. Used(new) = Used(table)
  BY DEF Used, Tables
<1>3. NoKeyTwice(new)
  BY <1>2, UsedFinite DEF WellFormed, NoKeyTwice
<1>4. \A x \in Key, n \in 0 .. cap - 1 : RunBefore(table, x, cap, n) => RunBefore(new, x, cap, n)
  BY ProbeType DEF RunBefore
<1>5. Reachable(new, cap)
  <2> SUFFICES ASSUME NEW i \in Used(new)
               PROVE  \E n \in 0 .. cap - 1 : i = Probe(new[i].key, cap, n)
                                               /\ RunBefore(new, new[i].key, cap, n)
    BY DEF Reachable
  <2>1. i \in Used(table) /\ new[i].key = table[i].key /\ table[i].key \in Key
    BY <1>2 DEF Used, Tables, Slot
  <2>2. PICK n \in 0 .. cap - 1 : i = Probe(table[i].key, cap, n)
                                   /\ RunBefore(table, table[i].key, cap, n)
    BY <2>1 DEF WellFormed, Reachable
  <2> QED  BY <1>4, <2>1, <2>2
<1> QED  BY <1>2, <1>3, <1>5 DEF WellFormed

LEMMA ReplaceDataInv ==
  ASSUME HashInv, NEW k \in Key, NEW d \in Data, ReplaceData(k, d)
  PROVE  HashInv'
<1> DEFINE s == FindSlot(entries, k, capacity)
<1>1. pc = "ready" /\ UNCHANGED <<count, capacity, pc, request, growVars>>
  BY DEF ReplaceData
<1>2. /\ capacity \in Nat \ {0} /\ entries \in Tables(capacity) /\ Used(entries) # DOMAIN entries
      /\ WellFormed(entries, capacity)
  BY <1>1, RoomToProbe DEF HashInv
<1>3. s \in 0 .. capacity - 1
  BY <1>2, FindSlotStops
<1>4. CASE entries' = [entries EXCEPT ![s].data = d] /\ Answer("HASH_NO_ERROR", NULL)
  <2>1. entries' \in Tables(capacity) /\ Used(entries') = Used(entries)
        /\ WellFormed(entries', capacity)
    <3> HIDE DEF s
    <3>1. entries' \in Tables(capacity)
          /\ \A i \in 0 .. capacity - 1 : entries'[i].key = entries[i].key
      BY <1>2, <1>3, <1>4 DEF Tables, Slot
    <3> QED  BY <1>2, <3>1, SameKeys
  <2>2. LoadInv'
    BY <1>1, <2>1 DEF HashInv, LoadInv, Keys
  <2>3. HashTypeOK'
    BY <1>1, <1>4, <2>1 DEF HashInv, HashTypeOK, Tables, growVars, Answer
  <2> QED  BY <1>1, <2>1, <2>2, <2>3 DEF HashInv
<1>5. CASE Answer("HASH_NOT_FOUND", NULL) /\ UNCHANGED entries
  <2>1. HashTypeOK'
    BY <1>1, <1>5 DEF HashInv, HashTypeOK, growVars, Answer
  <2> QED  BY <1>1, <1>5, <2>1, SameTable DEF tableVars
<1> QED  BY <1>4, <1>5 DEF ReplaceData

LEMMA FindHashInv ==
  ASSUME HashInv, NEW k \in Key, FindHash(k)
  PROVE  HashInv'
<1> DEFINE s == FindSlot(entries, k, capacity)
<1>1. pc = "ready" /\ UNCHANGED <<tableVars, pc, request, growVars>>
  BY DEF FindHash
<1>2. entries[s].data \in Data \cup {NULL}
  BY <1>1, RoomToProbe, FindSlotStops DEF Tables, Slot
<1>3. HashTypeOK'
  BY <1>1, <1>2 DEF FindHash, HashInv, HashTypeOK, tableVars, growVars, Answer
<1> QED  BY <1>1, <1>3, SameTable

LEMMA StutterInv ==
  ASSUME HashInv, UNCHANGED hashVars
  PROVE  HashInv'
<1>1. UNCHANGED <<count, capacity, entries, pc, request, grown, moved, reply>>
  BY DEF hashVars, tableVars, growVars
<1>2. HashTypeOK'
  BY <1>1 DEF HashInv, HashTypeOK
<1>3. WellFormed(entries, capacity)'
  BY <1>1, WellFormedLater DEF HashInv
<1>4. LoadInv'
  BY <1>1 DEF HashInv, LoadInv, Keys, Used, Load, NextCount
<1>5. (pc = "growing" => GrowInv)'
  BY <1>1, WellFormedLater DEF HashInv, GrowInv, Moved, Used
<1> QED  BY <1>2, <1>3, <1>4, <1>5 DEF HashInv

LEMMA NextHashInv == HashInv /\ [HashNext]_hashVars => HashInv'
<1> SUFFICES ASSUME HashInv, [HashNext]_hashVars PROVE HashInv'
  OBVIOUS
<1>1. ASSUME NEW k \in Key, NEW d \in Data, InsertCall(k, d) \/ ReplaceData(k, d)
      PROVE  HashInv'
  BY <1>1, InsertCallInv, ReplaceDataInv
<1>2. CASE InsertStep
  BY <1>2, MoveEntryInv, SwapTablesInv, PlaceInv DEF InsertStep
<1>3. ASSUME NEW k \in Key, FindHash(k) PROVE HashInv'
  BY <1>3, FindHashInv
<1>4. CASE DestroyTable
  <2>1. HashTypeOK'
    BY <1>4 DEF DestroyTable, HashInv, HashTypeOK, tableVars, growVars
  <2> QED  BY <1>4, <2>1, SameTable DEF DestroyTable
<1>5. ASSUME NEW k \in Key, CopyFails(k) PROVE HashInv'
  <2>1. pc \in {"placing", "ready"} /\ pc' = "aborted"
        /\ UNCHANGED <<tableVars, request, growVars, reply>>
    BY <1>5 DEF CopyFails
  <2>2. HashTypeOK'
    BY <2>1 DEF HashInv, HashTypeOK, tableVars, growVars
  <2> QED  BY <2>1, <2>2, SameTable
<1>6. CASE UNCHANGED hashVars
  BY <1>6, StutterInv
<1> QED  BY <1>1, <1>2, <1>3, <1>4, <1>5, <1>6 DEF HashNext

LEMMA HashInvariance == HashSpec => []HashInv
BY InitHashInv, NextHashInv, PTL DEF HashSpec

(* The types of the table's variables. *)
THEOREM HashTypeCorrect == HashSpec => []HashTypeOK
<1>1. HashInv => HashTypeOK
  BY DEF HashInv
<1> QED  BY <1>1, HashInvariance, PTL

(* find_slot() always meets an empty slot or the key, even though `count'  *)
(* is never initialised: the loop has no other end.                        *)
THEOREM ProbingAlwaysEnds == HashSpec => []ProbingEnds
<1>1. HashInv => ProbingEnds
  BY RoomToProbe DEF ProbingEnds
<1> QED  BY <1>1, HashInvariance, PTL

-----------------------------------------------------------------------------
LEMMA ContentsFacts ==
  ASSUME NEW cap \in Nat \ {0}, NEW table \in Tables(cap), WellFormed(table, cap)
  PROVE  /\ DOMAIN ContentsOf(table) = KeysIn(table)
         /\ \A i \in Used(table) : /\ table[i].key \in KeysIn(table)
                                   /\ ContentsOf(table)[table[i].key] = table[i].data
<1>1. ASSUME NEW i \in Used(table)
      PROVE  (CHOOSE j \in Used(table) : table[j].key = table[i].key) = i
  BY DEF WellFormed, NoKeyTwice
<1> QED  BY <1>1 DEF ContentsOf, KeysIn

(* Tables with the same entries have the same contents. *)
LEMMA SameContents ==
  ASSUME NEW cap1 \in Nat \ {0}, NEW t1 \in Tables(cap1), WellFormed(t1, cap1),
         NEW cap2 \in Nat \ {0}, NEW t2 \in Tables(cap2), WellFormed(t2, cap2),
         \A j \in Used(t1) : \E i \in Used(t2) : t2[i] = t1[j],
         \A i \in Used(t2) : \E j \in Used(t1) : t2[i] = t1[j]
  PROVE  ContentsOf(t1) = ContentsOf(t2)
<1>1. KeysIn(t1) = KeysIn(t2)
  BY DEF KeysIn
<1>2. ASSUME NEW k \in KeysIn(t1) PROVE ContentsOf(t1)[k] = ContentsOf(t2)[k]
  <2>1. PICK j \in Used(t1) : t1[j].key = k
    BY <1>2 DEF KeysIn
  <2>2. PICK i \in Used(t2) : t2[i] = t1[j]
    OBVIOUS
  <2> QED  BY <2>1, <2>2, ContentsFacts
<1> QED  BY <1>1, <1>2 DEF ContentsOf

LEMMA PutContents ==
  ASSUME NEW cap \in Nat \ {0}, NEW table \in Tables(cap), WellFormed(table, cap),
         NEW put \in Tables(cap), WellFormed(put, cap),
         NEW s \in 0 .. cap - 1, s \notin Used(table),
         Used(put) = Used(table) \cup {s},
         \A i \in Used(table) : put[i] = table[i]
  PROVE  /\ KeysIn(put) = KeysIn(table) \cup {put[s].key}
         /\ ContentsOf(put)[put[s].key] = put[s].data
         /\ \A k \in KeysIn(table) :
              k # put[s].key => ContentsOf(put)[k] = ContentsOf(table)[k]
<1>1. KeysIn(put) = KeysIn(table) \cup {put[s].key}
  BY DEF KeysIn
<1>2. ContentsOf(put)[put[s].key] = put[s].data
  BY ContentsFacts
<1>3. ASSUME NEW k \in KeysIn(table), k # put[s].key
      PROVE  ContentsOf(put)[k] = ContentsOf(table)[k]
  <2>1. PICK i \in Used(table) : table[i].key = k
    BY <1>3 DEF KeysIn
  <2> QED  BY <2>1, ContentsFacts
<1> QED  BY <1>1, <1>2, <1>3

LEMMA ReplaceContents ==
  ASSUME NEW cap \in Nat \ {0}, NEW table \in Tables(cap), WellFormed(table, cap),
         NEW new \in Tables(cap), WellFormed(new, cap),
         \A i \in 0 .. cap - 1 : new[i].key = table[i].key,
         NEW s \in Used(table),
         \A i \in 0 .. cap - 1 : i # s => new[i] = table[i]
  PROVE  ContentsOf(new) = [ContentsOf(table) EXCEPT ![table[s].key] = new[s].data]
<1>1. Used(new) = Used(table) /\ \A i \in Used(table) : i \in 0 .. cap - 1
  BY SameKeys, UsedFinite
<1>2. KeysIn(new) = KeysIn(table)
  BY <1>1 DEF KeysIn
<1>3. ContentsOf(new)[table[s].key] = new[s].data
  BY <1>1, ContentsFacts
<1>4. ASSUME NEW k \in KeysIn(table), k # table[s].key
      PROVE  ContentsOf(new)[k] = ContentsOf(table)[k]
  <2>1. PICK i \in Used(table) : table[i].key = k
    BY <1>4 DEF KeysIn
  <2>2. i # s
    BY <1>4, <2>1
  <2> QED  BY <1>1, <2>1, <2>2, ContentsFacts
<1>5. /\ DOMAIN ContentsOf(new) = KeysIn(table) /\ DOMAIN ContentsOf(table) = KeysIn(table)
      /\ ContentsOf(new) = [k \in KeysIn(table) |-> ContentsOf(new)[k]]
  BY <1>2, ContentsFacts DEF ContentsOf
<1> QED  BY <1>3, <1>4, <1>5

-----------------------------------------------------------------------------
(* What find_slot() tells replace_hash_data(), find_hash() and the rest of *)
(* insert_hash() about the contents.                                       *)
LEMMA LookUp ==
  ASSUME HashInv, NEW k \in Key
  PROVE  LET s == FindSlot(entries, k, capacity)
         IN  /\ s \in 0 .. capacity - 1
             /\ entries[s].key # NULL =>
                  /\ s \in Used(entries) /\ entries[s].key = k
                  /\ k \in DOMAIN ContentsOf(entries)
                  /\ ContentsOf(entries)[k] = entries[s].data
             /\ entries[s].key = NULL => k \notin DOMAIN ContentsOf(entries)
<1> DEFINE s == FindSlot(entries, k, capacity)
<1>1. /\ capacity \in Nat \ {0} /\ entries \in Tables(capacity) /\ Used(entries) # DOMAIN entries
      /\ WellFormed(entries, capacity)
  BY RoomToProbe DEF HashInv
<1>2. s \in 0 .. capacity - 1 /\ entries[s].key \in {NULL, k}
  BY <1>1, FindSlotStops
<1>3. ASSUME entries[s].key # NULL
      PROVE  /\ s \in Used(entries) /\ entries[s].key = k
             /\ k \in DOMAIN ContentsOf(entries) /\ ContentsOf(entries)[k] = entries[s].data
  <2>1. s \in Used(entries) /\ entries[s].key = k
    BY <1>1, <1>2, <1>3 DEF Used, Tables
  <2> QED  BY <1>1, <2>1, ContentsFacts
<1>4. ASSUME entries[s].key = NULL PROVE k \notin DOMAIN ContentsOf(entries)
  <2>1. \A i \in Used(entries) : entries[i].key # k
    BY <1>1, <1>4, FindSlotStored DEF Used
  <2>2. DOMAIN ContentsOf(entries) = KeysIn(entries)
    BY <1>1, ContentsFacts
  <2> QED  BY <2>1, <2>2 DEF KeysIn
<1> QED  BY <1>2, <1>3, <1>4

LEMMA InitImplements == HashInit => Abstract!Init
<1> SUFFICES ASSUME HashInit PROVE Abstract!Init
  OBVIOUS
<1>1. KeysIn(entries) = {}
  BY EmptyWellFormed DEF HashInit, KeysIn
<1>2. ContentsOf(entries) = [k \in {} |-> NULL]
  BY <1>1 DEF ContentsOf
<1> QED  BY <1>2 DEF HashInit, Abstract!Init

LEMMA PlaceImplements ==
  ASSUME HashInv, HashInv', Place
  PROVE  Abstract!Call
<1> DEFINE k == request.key
           s == FindSlot(entries, k, capacity)
<1>1. pc = "placing" /\ pc' = "ready" /\ capacity' = capacity
  BY DEF Place
<1>2. request \in [key : Key, data : Data] /\ k \in Key /\ request.data \in Data /\ k # NULL
  BY <1>1, NullAssumption DEF HashInv, HashTypeOK
<1>3. /\ capacity \in Nat \ {0} /\ entries \in Tables(capacity) /\ WellFormed(entries, capacity)
      /\ entries' \in Tables(capacity) /\ WellFormed(entries', capacity)
  <2>1. HashTypeOK' /\ WellFormed(entries', capacity')
    BY WellFormedLater DEF HashInv
  <2> QED  BY <1>1, <2>1, RoomToProbe DEF HashInv, HashTypeOK, Tables
<1>4. /\ s \in 0 .. capacity - 1
      /\ entries[s].key # NULL => k \in DOMAIN ContentsOf(entries)
      /\ entries[s].key = NULL => k \notin DOMAIN ContentsOf(entries)
  BY <1>2, LookUp
<1>5. CASE entries[s].key = NULL /\ entries' = [entries EXCEPT ![s] = request]
           /\ Answer("HASH_NO_ERROR", NULL)
  <2> HIDE DEF s
  <2>1. entries'[s] = request /\ \A i \in 0 .. capacity - 1 : i # s => entries'[i] = entries[i]
    BY <1>3, <1>4, <1>5 DEF Tables
  <2>2. s \notin Used(entries) /\ Used(entries') = Used(entries) \cup {s}
    BY <1>2, <1>3, <1>4, <1>5, <2>1 DEF Used, Tables
  <2>3. \A i \in Used(entries) : entries'[i] = entries[i]
    BY <1>3, <2>1, <2>2, UsedFinite
  <2>4. ContentsOf(entries') = [x \in KeysIn(entries) \cup {k} |->
           IF x = k THEN request.data ELSE ContentsOf(entries)[x]]
    <3>1. /\ KeysIn(entries') = KeysIn(entries) \cup {k}
          /\ ContentsOf(entries')[k] = request.data
          /\ \A x \in KeysIn(entries) : x # k => ContentsOf(entries')[x] = ContentsOf(entries)[x]
      BY <1>3, <1>4, <2>1, <2>2, <2>3, PutContents
    <3>2. ContentsOf(entries') = [x \in KeysIn(entries') |-> ContentsOf(entries')[x]]
      BY DEF ContentsOf
    <3> QED  BY <3>1, <3>2
  <2>5. DOMAIN ContentsOf(entries) = KeysIn(entries)
    BY <1>3, ContentsFacts
  <2>6. ContentsOf(entries)' = ContentsOf(entries')
    BY DEF ContentsOf, KeysIn, Used
  <2>7. Abstract!Insert(k, request.data)
    BY <1>4, <1>5, <2>4, <2>5, <2>6 DEF Abstract!Insert, Abstract!Says, Answer
  <2> QED  BY <1>1, <1>2, <2>7 DEF Abstract!Call
<1>6. CASE entries[s].key # NULL /\ Answer("HASH_EXIST", NULL) /\ UNCHANGED <<entries, count>>
  <2>1. ContentsOf(entries)' = ContentsOf(entries)
    BY <1>6 DEF ContentsOf, KeysIn, Used
  <2>2. Abstract!InsertRefused(k)
    BY <1>4, <1>6, <2>1 DEF Abstract!InsertRefused, Abstract!Says, Answer
  <2> QED  BY <1>1, <1>2, <2>2 DEF Abstract!Call
<1> QED  BY <1>5, <1>6 DEF Place

LEMMA ReplaceImplements ==
  ASSUME HashInv, HashInv', NEW k \in Key, NEW d \in Data, ReplaceData(k, d)
  PROVE  Abstract!Call
<1> DEFINE s == FindSlot(entries, k, capacity)
<1>1. pc = "ready" /\ pc' = "ready" /\ capacity' = capacity
  BY DEF ReplaceData
<1>2. /\ capacity \in Nat \ {0} /\ entries \in Tables(capacity) /\ WellFormed(entries, capacity)
      /\ entries' \in Tables(capacity) /\ WellFormed(entries', capacity)
  <2>1. HashTypeOK' /\ WellFormed(entries', capacity')
    BY WellFormedLater DEF HashInv
  <2> QED  BY <1>1, <2>1, RoomToProbe DEF HashInv, HashTypeOK, Tables
<1>3. /\ s \in 0 .. capacity - 1
      /\ entries[s].key # NULL => s \in Used(entries) /\ entries[s].key = k
                                 /\ k \in DOMAIN ContentsOf(entries)
      /\ entries[s].key = NULL => k \notin DOMAIN ContentsOf(entries)
  BY LookUp
<1>4. CASE entries[s].key # NULL /\ entries' = [entries EXCEPT ![s].data = d]
           /\ Answer("HASH_NO_ERROR", NULL)
  <2> HIDE DEF s
  <2>1. /\ entries'[s].data = d
        /\ \A i \in 0 .. capacity - 1 : entries'[i].key = entries[i].key
                                        /\ (i # s => entries'[i] = entries[i])
    BY <1>2, <1>3, <1>4 DEF Tables, Slot
  <2>2. ContentsOf(entries') = [ContentsOf(entries) EXCEPT ![k] = d]
    <3>1. s \in Used(entries) /\ entries[s].key = k
      BY <1>3, <1>4
    <3>2. ContentsOf(entries') =
            [ContentsOf(entries) EXCEPT ![entries[s].key] = entries'[s].data]
      BY <1>2, <2>1, <3>1, ReplaceContents
    <3> QED  BY <2>1, <3>1, <3>2
  <2>3. ContentsOf(entries)' = ContentsOf(entries')
    BY DEF ContentsOf, KeysIn, Used
  <2>4. Abstract!Replace(k, d)
    BY <1>3, <1>4, <2>2, <2>3 DEF Abstract!Replace, Abstract!Says, Answer
  <2> QED  BY <1>1, <2>4 DEF Abstract!Call
<1>5. CASE entries[s].key = NULL /\ Answer("HASH_NOT_FOUND", NULL) /\ UNCHANGED entries
  <2>1. ContentsOf(entries)' = ContentsOf(entries)
    BY <1>5 DEF ContentsOf, KeysIn, Used
  <2>2. Abstract!Miss(k)
    BY <1>3, <1>5, <2>1 DEF Abstract!Miss, Abstract!Says, Answer
  <2> QED  BY <1>1, <2>2 DEF Abstract!Call
<1> QED  BY <1>4, <1>5 DEF ReplaceData

LEMMA FindImplements ==
  ASSUME HashInv, NEW k \in Key, FindHash(k)
  PROVE  Abstract!Call
<1> DEFINE s == FindSlot(entries, k, capacity)
<1>1. pc = "ready" /\ pc' = "ready" /\ entries' = entries
  BY DEF FindHash, tableVars
<1>2. ContentsOf(entries)' = ContentsOf(entries)
  BY <1>1 DEF ContentsOf, KeysIn, Used
<1>3. /\ entries[s].key # NULL => /\ k \in DOMAIN ContentsOf(entries)
                                 /\ ContentsOf(entries)[k] = entries[s].data
      /\ entries[s].key = NULL => k \notin DOMAIN ContentsOf(entries)
  BY LookUp
<1>4. Abstract!Find(k) \/ Abstract!Miss(k)
  BY <1>2, <1>3 DEF FindHash, Answer, Abstract!Find, Abstract!Miss, Abstract!Says
<1> QED  BY <1>1, <1>4 DEF Abstract!Call

LEMMA SwapImplements ==
  ASSUME HashInv, HashInv', SwapTables
  PROVE  UNCHANGED Abstract!dictVars
<1>1. /\ pc = "growing" /\ pc' = "placing" /\ moved = capacity /\ entries' = grown
      /\ reply' = reply
  BY DEF SwapTables
<1>2. /\ capacity \in Nat \ {0} /\ entries \in Tables(capacity) /\ WellFormed(entries, capacity)
      /\ 2 * capacity \in Nat \ {0} /\ grown \in Tables(2 * capacity)
      /\ WellFormed(grown, 2 * capacity) /\ GrowInv
  BY <1>1, RoomToProbe DEF HashInv, GrowInv
<1>3. Moved = Used(entries)
  BY <1>1, <1>2, UsedFinite DEF Moved
<1>4. ContentsOf(entries) = ContentsOf(grown)
  <2>1. /\ \A j \in Used(entries) : \E i \in Used(grown) : grown[i] = entries[j]
        /\ \A i \in Used(grown) : \E j \in Used(entries) : grown[i] = entries[j]
    BY <1>2, <1>3 DEF GrowInv
  <2> QED  BY <1>2, <2>1, SameContents
<1>5. ContentsOf(entries)' = ContentsOf(entries')
  BY DEF ContentsOf, KeysIn, Used
<1> QED  BY <1>1, <1>4, <1>5 DEF Abstract!dictVars

LEMMA NextImplements ==
  ASSUME HashInv, HashInv', [HashNext]_hashVars
  PROVE  [Abstract!Next]_(Abstract!dictVars)
<1>1. ASSUME UNCHANGED entries PROVE ContentsOf(entries)' = ContentsOf(entries)
  BY <1>1 DEF ContentsOf, KeysIn, Used
<1>2. ASSUME NEW k \in Key, NEW d \in Data, InsertCall(k, d)
      PROVE  [Abstract!Next]_(Abstract!dictVars)
  BY <1>1, <1>2 DEF InsertCall, tableVars, Abstract!Next, Abstract!Close, Abstract!dictVars
<1>3. ASSUME NEW k \in Key, NEW d \in Data, ReplaceData(k, d) PROVE Abstract!Next
  BY <1>3, ReplaceImplements DEF Abstract!Next
<1>4. CASE MoveEntry
  BY <1>1, <1>4 DEF MoveEntry, tableVars, Abstract!dictVars
<1>5. CASE SwapTables
  BY <1>5, SwapImplements
<1>6. CASE Place
  BY <1>6, PlaceImplements DEF Abstract!Next
<1>7. ASSUME NEW k \in Key, FindHash(k) PROVE Abstract!Next
  BY <1>7, FindImplements DEF Abstract!Next
<1>8. CASE DestroyTable
  BY <1>1, <1>8 DEF DestroyTable, tableVars, Abstract!Next, Abstract!Close, Abstract!dictVars
<1>9. ASSUME NEW k \in Key, CopyFails(k) PROVE Abstract!Next
  BY <1>1, <1>9 DEF CopyFails, tableVars, Abstract!Next, Abstract!Close
<1>10. CASE UNCHANGED hashVars
  BY <1>1, <1>10 DEF hashVars, tableVars, Abstract!dictVars
<1> QED  BY <1>2, <1>3, <1>4, <1>5, <1>6, <1>7, <1>8, <1>9, <1>10
         DEF HashNext, InsertStep

(* The hash table implements the dictionary: for every hash function,      *)
(* however keys collide, and through every doubling.                       *)
THEOREM HashTableImplements == HashSpec => ImplementsDictionary
<1>1. HashSpec => [][Abstract!Next]_(Abstract!dictVars)
  <2>1. HashInv /\ HashInv' /\ [HashNext]_hashVars => [Abstract!Next]_(Abstract!dictVars)
    BY NextImplements
  <2> QED  BY <2>1, HashInvariance, PTL DEF HashSpec
<1> QED  BY <1>1, InitImplements, PTL DEF HashSpec, ImplementsDictionary, Abstract!Spec
-----------------------------------------------------------------------------
(* iterate_hash_table().  What has been returned are the keys of the slots *)
(* up to the index, as long as nothing else has moved the index or put a   *)
(* key behind it.                                                          *)
Passed == {i \in Used(entries) : i <= ht_index}

WalkedSoFar ==
  /\ ~twice
  /\ returned = {entries[i].key : i \in Passed}
  /\ walk = "done" => Passed = Used(entries)

WalkInv ==
  /\ HashInv
  /\ WalkTypeOK
  /\ pc \in {"growing", "placing"} => "insert" \in disturbed
  /\ disturbed = {} => WalkedSoFar

LEMMA UsedSlots ==
  ASSUME HashInv
  PROVE  /\ capacity \in Nat /\ capacity <= MaxCapacity
         /\ \A i \in Used(entries) : i \in 0 .. capacity - 1 /\ entries[i].key \in Key
         /\ \A i, j \in Used(entries) : entries[i].key = entries[j].key => i = j
<1>1. capacity \in 8 .. MaxCapacity /\ entries \in Tables(capacity)
      /\ NoKeyTwice(entries)
  BY DEF HashInv, HashTypeOK, Tables, WellFormed
<1> QED  BY <1>1, SizeAssumption DEF Used, Tables, Slot, NoKeyTwice

(* The calls that put no key into the table keep what was returned true. *)
LEMMA SameKeysWalked ==
  ASSUME WalkedSoFar, Used(entries') = Used(entries),
         \A i \in Used(entries) : entries'[i].key = entries[i].key,
         UNCHANGED <<ht_index, returned, twice, walk>>
  PROVE  WalkedSoFar'
<1>1. Passed' = Passed
  BY DEF Passed, Used
<1>2. {entries[i].key : i \in Passed}' = {entries[i].key : i \in Passed}
  BY <1>1 DEF Passed
<1>3. (Passed = Used(entries))' <=> Passed = Used(entries)
  BY <1>1 DEF Used
<1> QED  BY <1>2, <1>3 DEF WalkedSoFar

LEMMA IterateInv ==
  ASSUME WalkInv, NEW reset \in BOOLEAN, Iterate(reset)
  PROVE  WalkInv'
<1>1. pc = "ready" /\ UNCHANGED hashVars /\ entries' = entries /\ pc' = pc /\ capacity' = capacity
  BY DEF Iterate, hashVars, tableVars
<1>2. HashInv' /\ HashTypeOK'
  <2>1. HashInv'
    BY <1>1, StutterInv DEF WalkInv
  <2> QED  BY <2>1 DEF HashInv
<1>3. /\ capacity \in Nat /\ capacity <= MaxCapacity /\ MaxCapacity \in Nat
      /\ \A i \in Used(entries) : i \in 0 .. capacity - 1 /\ entries[i].key \in Key
      /\ \A i, j \in Used(entries) : entries[i].key = entries[j].key => i = j
  BY UsedSlots, SizeAssumption DEF WalkInv
<1>4. /\ ht_index \in Int /\ -1 <= ht_index /\ returned \subseteq Key /\ twice \in BOOLEAN
      /\ walk \in {"none", "running", "done"} /\ disturbed \subseteq {"insert", "other"}
      /\ reset \/ ht_index <= capacity + IndexBound
      /\ IndexBound \in Nat /\ disturbed' = IF reset THEN {} ELSE disturbed
  BY <1>3, WalkAssumption DEF WalkInv, WalkTypeOK, Iterate
<1>5. /\ Start(reset) \in Nat /\ Start(reset) <= MaxCapacity + IndexBound + 1
      /\ ~reset => Start(reset) = ht_index + 1
      /\ reset => Start(reset) = 0
  BY <1>3, <1>4 DEF Start
<1>6. ~reset /\ disturbed = {} => WalkedSoFar
  BY DEF WalkInv
<1>7. Used(entries)' = Used(entries)
  BY <1>1 DEF Used
<1> HIDE DEF Start
<1>8. ASSUME NEW i \in Used(entries), IsNext(i, Start(reset)),
             ht_index' = i,
             returned' = {entries[i].key} \cup (IF reset THEN {} ELSE returned),
             twice' = (~reset /\ (twice \/ entries[i].key \in returned)),
             walk' = IF reset THEN "running" ELSE walk
      PROVE  WalkInv'
  <2>1. i \in 0 .. capacity - 1 /\ entries[i].key \in Key
    BY <1>3
  <2>2. ht_index' \in -1 .. MaxCapacity + IndexBound + 1
    BY <1>3, <1>4, <1>8, <2>1
  <2>3. returned' \subseteq Key /\ twice' \in BOOLEAN /\ walk' \in {"none", "running", "done"}
        /\ disturbed' \subseteq {"insert", "other"}
    BY <1>4, <1>8, <2>1
  <2>4. WalkTypeOK'
    BY <1>1, <1>2, <2>2, <2>3 DEF WalkTypeOK
  <2>5. /\ i >= Start(reset)
        /\ \A j \in Used(entries) : j >= Start(reset) => i <= j
    BY <1>8 DEF IsNext
  <2>6. Passed' = {j \in Used(entries) : j <= i}
    BY <1>1, <1>7, <1>8 DEF Passed
  <2>7. ASSUME disturbed' = {} PROVE WalkedSoFar'
    <3>1. CASE reset
      <4>1. \A j \in Used(entries) : j <= i <=> j = i
        <5> SUFFICES ASSUME NEW j \in Used(entries) PROVE j <= i <=> j = i
          OBVIOUS
        <5>1. j \in 0 .. capacity - 1 /\ j >= Start(reset)
          <6>1. Start(reset) = 0
            BY <1>5, <3>1
          <6> QED  BY <1>3, <6>1
        <5>2. i <= j
          BY <2>5, <5>1
        <5> QED  BY <1>3, <2>1, <5>1, <5>2
      <4>2. {entries[j].key : j \in Passed}' = {entries[i].key}
        BY <1>1, <2>6, <4>1
      <4> QED  BY <1>8, <3>1, <4>2 DEF WalkedSoFar
    <3>2. CASE ~reset
      <4>1. WalkedSoFar
        BY <1>4, <1>6, <2>7, <3>2
      <4>2. Passed' = Passed \cup {i} /\ i \notin Passed
        <5>1. ASSUME NEW j \in Used(entries)
              PROVE  j <= i <=> j <= ht_index \/ j = i
          <6>1. j \in 0 .. capacity - 1 /\ (j >= ht_index + 1 => i <= j) /\ i >= ht_index + 1
            BY <1>3, <1>5, <2>5, <3>2
          <6> QED  BY <1>3, <1>4, <2>1, <6>1
        <5>2. ~(i <= ht_index)
          BY <1>4, <1>5, <2>1, <2>5, <3>2
        <5> QED  BY <2>6, <5>1, <5>2 DEF Passed
      <4>3. {entries[j].key : j \in Passed}' = {entries[j].key : j \in Passed} \cup {entries[i].key}
        BY <1>1, <4>2
      <4>4. entries[i].key \notin returned
        BY <1>3, <4>1, <4>2 DEF WalkedSoFar, Passed
      <4>5. walk # "done"
        BY <4>1, <4>2 DEF WalkedSoFar
      <4> QED  BY <1>8, <3>2, <4>1, <4>3, <4>4, <4>5 DEF WalkedSoFar
    <3> QED  BY <3>1, <3>2
  <2> QED  BY <1>1, <1>2, <2>4, <2>7 DEF WalkInv
<1>9. ASSUME \A i \in Used(entries) : i < Start(reset),
             ht_index' = IF Start(reset) > capacity THEN Start(reset) ELSE capacity,
             returned' = IF reset THEN {} ELSE returned,
             twice' = (~reset /\ twice),
             walk' = IF reset \/ walk # "none" THEN "done" ELSE walk
      PROVE  WalkInv'
  <2>1. ht_index' \in -1 .. MaxCapacity + IndexBound + 1 /\ ht_index' >= capacity
    BY <1>3, <1>4, <1>5, <1>9
  <2>2. returned' \subseteq Key /\ twice' \in BOOLEAN /\ walk' \in {"none", "running", "done"}
        /\ disturbed' \subseteq {"insert", "other"}
    BY <1>4, <1>9
  <2>3. WalkTypeOK'
    BY <1>1, <1>2, <2>1, <2>2 DEF WalkTypeOK
  <2>4. Passed' = Used(entries)
    BY <1>1, <1>3, <1>7, <2>1 DEF Passed
  <2>5. ASSUME disturbed' = {} PROVE WalkedSoFar'
    <3>1. CASE reset
      <4>1. \A i \in Used(entries) : i \in 0 .. capacity - 1 /\ i < 0
        BY <1>3, <1>5, <1>9, <3>1
      <4>2. {entries[j].key : j \in Passed}' = {}
        BY <1>3, <2>4, <4>1
      <4> QED  BY <1>7, <1>9, <2>4, <3>1, <4>2 DEF WalkedSoFar
    <3>2. CASE ~reset
      <4>1. WalkedSoFar
        BY <1>4, <1>6, <2>5, <3>2
      <4>2. Passed = Used(entries)
        BY <1>3, <1>4, <1>5, <1>9, <3>2 DEF Passed
      <4>3. {entries[j].key : j \in Passed}' = {entries[j].key : j \in Passed}
        BY <1>1, <2>4, <4>2
      <4> QED  BY <1>7, <1>9, <2>4, <3>2, <4>1, <4>3 DEF WalkedSoFar
    <3> QED  BY <3>1, <3>2
  <2> QED  BY <1>1, <1>2, <2>3, <2>5 DEF WalkInv
<1> QED  BY <1>8, <1>9 DEF Iterate

LEMMA IterateOtherInv ==
  ASSUME WalkInv, IterateOther
  PROVE  WalkInv'
<1>1. HashInv' /\ HashTypeOK'
  <2>1. HashInv'
    BY StutterInv DEF WalkInv, IterateOther
  <2> QED  BY <2>1 DEF HashInv
<1>2. ht_index' \in -1 .. MaxCapacity + IndexBound + 1
  BY WalkAssumption, SizeAssumption DEF IterateOther
<1>3. WalkTypeOK'
  BY <1>1, <1>2 DEF WalkInv, WalkTypeOK, IterateOther
<1>4. pc' = "ready" /\ disturbed' # {}
  BY DEF IterateOther, hashVars
<1> QED  BY <1>1, <1>3, <1>4 DEF WalkInv

(* The table's own steps: while nothing disturbs the walk they put no key  *)
(* into the table.                                                         *)
LEMMA TableStepInv ==
  ASSUME WalkInv, TableStep
  PROVE  WalkInv'
<1>1. HashInv' /\ HashTypeOK'
  <2>1. HashInv'
    BY NextHashInv DEF WalkInv, TableStep
  <2> QED  BY <2>1 DEF HashInv
<1>2. UNCHANGED <<ht_index, returned, twice, walk>>
      /\ disturbed' = IF pc = "ready" /\ pc' \in {"placing", "growing"}
                        THEN disturbed \cup {"insert"} ELSE disturbed
  BY DEF TableStep, NoteStep
<1>3. WalkTypeOK'
  BY <1>1, <1>2 DEF WalkInv, WalkTypeOK
<1>4. pc' \in {"growing", "placing"} => "insert" \in disturbed'
  BY <1>2 DEF WalkInv, TableStep, HashNext, InsertStep, InsertCall, MoveEntry, SwapTables,
              Place, ReplaceData, FindHash, CopyFails, DestroyTable
<1>5. ASSUME disturbed' = {} PROVE WalkedSoFar'
  <2>1. disturbed = {} /\ pc \notin {"growing", "placing"} /\ WalkedSoFar
    BY <1>2, <1>5 DEF WalkInv
  <2>2. ~(pc = "ready" /\ pc' \in {"placing", "growing"})
    BY <1>2, <1>5
  <2>3. ASSUME entries' = entries PROVE WalkedSoFar'
    BY <1>2, <2>1, <2>3, SameKeysWalked
  <2>4. ASSUME NEW k \in Key, NEW d \in Data, ReplaceData(k, d) PROVE WalkedSoFar'
    <3>1. /\ capacity \in Nat \ {0} /\ entries \in Tables(capacity)
          /\ Used(entries) # DOMAIN entries /\ WellFormed(entries, capacity)
      BY RoomToProbe DEF WalkInv, HashInv
    <3>2. FindSlot(entries, k, capacity) \in 0 .. capacity - 1
      BY <3>1, FindSlotStops
    <3>3. CASE entries' = [entries EXCEPT ![FindSlot(entries, k, capacity)].data = d]
      <4>1. entries' \in Tables(capacity)
            /\ \A i \in 0 .. capacity - 1 : entries'[i].key = entries[i].key
        <5>1. d \in Data
          BY <2>4
        <5> QED  BY <3>1, <3>2, <3>3, <5>1 DEF Tables, Slot
      <4>2. Used(entries') = Used(entries)
        BY <3>1, <4>1, SameKeys
      <4>3. \A i \in Used(entries) : entries'[i].key = entries[i].key
        BY <3>1, <4>1, UsedFinite
      <4> QED  BY <1>2, <2>1, <4>2, <4>3, SameKeysWalked
    <3> QED  BY <2>3, <2>4, <3>3 DEF ReplaceData
  <2>5. ASSUME NEW k \in Key, NEW d \in Data, InsertCall(k, d) PROVE entries' = entries
    BY <2>5 DEF InsertCall, tableVars
  <2>6. ASSUME NEW k \in Key, FindHash(k) \/ CopyFails(k) PROVE entries' = entries
    BY <2>6 DEF FindHash, CopyFails, tableVars
  <2>7. ASSUME DestroyTable PROVE entries' = entries
    BY <2>7 DEF DestroyTable, tableVars
  <2>8. ~InsertStep
    BY <2>1 DEF InsertStep, MoveEntry, SwapTables, Place
  <2> QED  BY <2>3, <2>4, <2>5, <2>6, <2>7, <2>8 DEF TableStep, HashNext
<1> QED  BY <1>1, <1>3, <1>4, <1>5 DEF WalkInv

LEMMA WalkStart == WalkInit => WalkInv
<1> SUFFICES ASSUME WalkInit PROVE WalkInv
  OBVIOUS
<1>1. HashInv /\ HashTypeOK
  BY InitHashInv DEF WalkInit, HashInv
<1>2. Used(entries) = {}
  BY EmptyWellFormed DEF WalkInit, HashInit
<1>3. WalkedSoFar
  BY <1>2 DEF WalkInit, WalkedSoFar, Passed
<1>4. -1 \in -1 .. MaxCapacity + IndexBound + 1
  BY SizeAssumption, WalkAssumption
<1>5. WalkTypeOK
  BY <1>1, <1>4 DEF WalkInit, WalkTypeOK
<1> QED  BY <1>1, <1>3, <1>5 DEF WalkInv, WalkInit, HashInit

LEMMA WalkNextInv == WalkInv /\ [WalkNext]_walkVars => WalkInv'
<1> SUFFICES ASSUME WalkInv, [WalkNext]_walkVars PROVE WalkInv'
  OBVIOUS
<1>1. CASE UNCHANGED walkVars
  <2>1. /\ UNCHANGED hashVars /\ UNCHANGED <<ht_index, returned, twice, walk, disturbed>>
        /\ entries' = entries /\ pc' = pc
    BY <1>1 DEF walkVars, walkHistory, hashVars, tableVars
  <2>2. HashInv' /\ HashTypeOK'
    BY <2>1, StutterInv DEF WalkInv, HashInv
  <2>3. WalkTypeOK'
    BY <2>1, <2>2 DEF WalkInv, WalkTypeOK
  <2>4. disturbed' = {} => WalkedSoFar'
    BY <2>1, SameKeysWalked DEF WalkInv
  <2> QED  BY <2>1, <2>2, <2>3, <2>4 DEF WalkInv
<1> QED  BY <1>1, IterateInv, IterateOtherInv, TableStepInv DEF WalkNext, WalkStep

LEMMA WalkInvariance == WalkSpec => []WalkInv
BY WalkStart, WalkNextInv, PTL DEF WalkSpec

(* A walk that nothing disturbs returns each key of the table once, for    *)
(* every table and wherever the index was: it is set back by the call that *)
(* resets it, and data may be replaced on the way.                         *)
THEOREM UndisturbedWalksAreComplete == WalkSpec => []UndisturbedWalkIsComplete
<1>1. WalkInv => UndisturbedWalkIsComplete
  BY DEF WalkInv, UndisturbedWalkIsComplete, WalkedSoFar, KeysIn
<1> QED  BY <1>1, WalkInvariance, PTL
=============================================================================
