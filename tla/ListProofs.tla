----------------------------- MODULE ListProofs ------------------------------
(***************************************************************************)
(* Proofs about the lists that are kept in a buffer, of any length.  The   *)
(* buffer always has a cell to spare, and the cells before nitems hold     *)
(* what was stored, in its order, so that no call returns anything else.   *)
(* First the list of pointers, PtrList; then the list of words, U16List,   *)
(* whose fields have the same names; then the strings of Objects, which    *)
(* the value stack, such a list, holds.                                    *)
(***************************************************************************)
EXTENDS PtrList, Objects, TLAPS

ListInv ==
  /\ ListTypeOK
  /\ \A i \in 0 .. nitems - 1 : buffer[i] \in Item

(* The items of a buffer, as the list that they are. *)
ItemsOf(buf, n) == [i \in 1 .. n |-> buf[i - 1]]

LEMMA ItemsOfFacts ==
  ASSUME NEW buf, NEW n \in Nat, \A i \in 0 .. n - 1 : buf[i] \in Item
  PROVE  /\ ItemsOf(buf, n) \in Seq(Item)
         /\ Len(ItemsOf(buf, n)) = n
         /\ \A i \in 1 .. n : ItemsOf(buf, n)[i] = buf[i - 1]
         /\ ItemsOf(buf, n) = << >> <=> n = 0
<1>1. ItemsOf(buf, n) \in [1 .. n -> Item]
  BY DEF ItemsOf
<1>2. ItemsOf(buf, n) \in Seq(Item) /\ Len(ItemsOf(buf, n)) = n
  BY <1>1
<1>3. \A i \in 1 .. n : ItemsOf(buf, n)[i] = buf[i - 1]
  BY DEF ItemsOf
<1> QED  BY <1>2, <1>3

(* One more item, with the others where they were. *)
LEMMA ItemsOfAppend ==
  ASSUME NEW buf, NEW new, NEW n \in Nat,
         \A i \in 0 .. n - 1 : buf[i] \in Item,
         \A i \in 0 .. n - 1 : new[i] = buf[i],
         new[n] \in Item
  PROVE  ItemsOf(new, n + 1) = Append(ItemsOf(buf, n), new[n])
<1> DEFINE old == ItemsOf(buf, n)
           more == ItemsOf(new, n + 1)
<1>1. \A i \in 0 .. n : new[i] \in Item
  OBVIOUS
<1>2. old \in Seq(Item) /\ Len(old) = n /\ \A i \in 1 .. n : old[i] = buf[i - 1]
  BY ItemsOfFacts
<1>3. /\ more \in Seq(Item) /\ Len(more) = n + 1
      /\ \A i \in 1 .. n + 1 : more[i] = new[i - 1]
  <2>1. n + 1 \in Nat /\ \A i \in 0 .. (n + 1) - 1 : new[i] \in Item
    BY <1>1
  <2> QED  BY <2>1, ItemsOfFacts
<1> HIDE DEF old, more
<1>4. Append(old, new[n]) \in Seq(Item) /\ Len(Append(old, new[n])) = n + 1
      /\ \A i \in 1 .. n : Append(old, new[n])[i] = old[i]
      /\ Append(old, new[n])[n + 1] = new[n]
  BY <1>2
<1>5. \A i \in 1 .. n + 1 : more[i] = Append(old, new[n])[i]
  <2>1. ASSUME NEW i \in 1 .. n  PROVE more[i] = Append(old, new[n])[i]
    <3>1. more[i] = new[i - 1]
      BY <1>3
    <3>2. i - 1 \in 0 .. n - 1
      OBVIOUS
    <3>3. new[i - 1] = buf[i - 1]
      BY <3>2
    <3> QED  BY <3>1, <3>3, <1>2, <1>4
  <2>2. more[n + 1] = new[n]
    BY <1>3
  <2> QED  BY <2>1, <2>2, <1>4
<1> QED  BY <1>3, <1>4, <1>5 DEF old, more

LEMMA ItemsOfPop ==
  ASSUME NEW buf, NEW n \in Nat \ {0}, \A i \in 0 .. n - 1 : buf[i] \in Item
  PROVE  ItemsOf(buf, n - 1) = SubSeq(ItemsOf(buf, n), 1, Len(ItemsOf(buf, n)) - 1)
<1>1. Len(ItemsOf(buf, n)) = n /\ \A i \in 1 .. n : ItemsOf(buf, n)[i] = buf[i - 1]
  BY ItemsOfFacts
<1>2. SubSeq(ItemsOf(buf, n), 1, n - 1) = [i \in 1 .. n - 1 |-> ItemsOf(buf, n)[i]]
  BY ItemsOfFacts
<1>3. ItemsOf(buf, n - 1) = [i \in 1 .. n - 1 |-> buf[i - 1]]
  BY DEF ItemsOf
<1> QED  BY <1>1, <1>2, <1>3

-----------------------------------------------------------------------------
LEMMA InitListInv == ListInit => ListInv
BY DEF ListInit, ListInv, ListTypeOK, Cell

LEMMA AppendStep ==
  ASSUME ListInv, NEW x \in Item, AppendItem(x)
  PROVE  \/ /\ nitems' = nitems + 1 /\ buffer'[nitems] = x
            /\ \A i \in 0 .. nitems - 1 : buffer'[i] = buffer[i]
            /\ buffer' \in [0 .. capacity' - 1 -> Cell]
            /\ capacity' \in Nat /\ capacity' >= 8 /\ nitems' \in 0 .. capacity' - 1
            /\ state' = "live"
         \/ state' = "aborted" /\ UNCHANGED <<nitems, capacity, buffer>>
<1>1. /\ capacity \in Nat /\ capacity >= 8 /\ nitems \in 0 .. capacity - 1
      /\ buffer \in [0 .. capacity - 1 -> Cell] /\ x \in Cell /\ state = "live"
  BY DEF ListInv, ListTypeOK, Cell, AppendItem
<1>2. CASE ~IsFull /\ buffer' = [buffer EXCEPT ![nitems] = x] /\ nitems' = nitems + 1
           /\ UNCHANGED <<capacity, state>>
  BY <1>1, <1>2 DEF IsFull
<1>3. CASE capacity' = 2 * capacity /\ buffer' = [Grown EXCEPT ![nitems] = x]
           /\ nitems' = nitems + 1 /\ UNCHANGED state
  <2>1. /\ Grown \in [0 .. 2 * capacity - 1 -> Cell]
        /\ \A i \in 0 .. nitems - 1 : Grown[i] = buffer[i]
    BY <1>1 DEF Grown, Cell
  <2> QED  BY <1>1, <1>3, <2>1
<1>4. CASE state' = "aborted" /\ UNCHANGED <<nitems, capacity, buffer>>
  BY <1>4
<1> QED  BY <1>2, <1>3, <1>4 DEF AppendItem

LEMMA NextListInv == ListInv /\ [ListNext]_ptrListVars => ListInv'
<1> SUFFICES ASSUME ListInv, [ListNext]_ptrListVars PROVE ListInv'
  OBVIOUS
<1>1. ASSUME NEW x \in Item, AppendItem(x) PROVE ListInv'
  <2>1. UNCHANGED <<index, reply>>
    BY <1>1 DEF AppendItem
  <2>2. nitems \in Nat
    BY DEF ListInv, ListTypeOK
  <2> QED  BY <1>1, <2>1, <2>2, AppendStep DEF ListInv, ListTypeOK
<1>2. CASE PopItem
  BY <1>2 DEF PopItem, ListInv, ListTypeOK
<1>3. CASE PeekItem
  BY <1>3 DEF PeekItem, ListInv, ListTypeOK
<1>4. CASE NextItem
  BY <1>4 DEF NextItem, ListInv, ListTypeOK
<1>5. CASE ResetIndex
  BY <1>5 DEF ResetIndex, ListInv, ListTypeOK
<1>6. CASE DestroyList
  BY <1>6 DEF DestroyList, ListInv, ListTypeOK
<1>7. ASSUME NEW i \in Index, GetItem(i) PROVE ListInv'
  BY <1>7, ListAssumption DEF GetItem, ListInv, ListTypeOK
<1>8. CASE UNCHANGED ptrListVars
  BY <1>8 DEF ptrListVars, ListInv, ListTypeOK
<1> QED
  BY <1>1, <1>2, <1>3, <1>4, <1>5, <1>6, <1>7, <1>8 DEF ListNext

LEMMA ListInvariance == ListSpec => []ListInv
BY InitListInv, NextListInv, PTL DEF ListSpec

(* An item is only ever stored inside the buffer, which always has a cell  *)
(* to spare, and no call returns a cell that nothing was stored in.        *)
THEOREM ListTypeCorrect == ListSpec => []ListTypeOK
<1>1. ListInv => ListTypeOK
  BY DEF ListInv
<1> QED  BY <1>1, ListInvariance, PTL

-----------------------------------------------------------------------------
LEMMA NextImplementsList ==
  ASSUME ListInv, ListInv', [ListNext]_ptrListVars
  PROVE  [Abstract!Next]_(Abstract!listVars)
<1> DEFINE items == [i \in 1 .. nitems |-> buffer[i - 1]]
<1>1. nitems \in Nat /\ index \in Nat /\ \A i \in 0 .. nitems - 1 : buffer[i] \in Item
  BY DEF ListInv, ListTypeOK
<1>2. /\ items = ItemsOf(buffer, nitems) /\ items' = ItemsOf(buffer', nitems')
      /\ Len(items) = nitems /\ \A i \in 1 .. nitems : items[i] = buffer[i - 1]
      /\ items = << >> <=> nitems = 0
  <2>1. items = ItemsOf(buffer, nitems) /\ items' = ItemsOf(buffer', nitems')
    BY DEF ItemsOf
  <2> HIDE DEF items
  <2> QED  BY <1>1, <2>1, ItemsOfFacts
<1>3. ASSUME UNCHANGED <<nitems, buffer>> PROVE items' = items
  BY <1>3
<1> HIDE DEF items
<1> USE DEF Abstract!Next, Abstract!Call, Abstract!listVars
<1>4. ASSUME NEW x \in Item, AppendItem(x) PROVE [Abstract!Next]_(Abstract!listVars)
  <2>1. UNCHANGED <<index, reply>> /\ state = "live"
    BY <1>4 DEF AppendItem
  <2>2. CASE /\ nitems' = nitems + 1 /\ buffer'[nitems] = x /\ state' = "live"
             /\ \A i \in 0 .. nitems - 1 : buffer'[i] = buffer[i]
    <3>1. items' = Append(items, x)
      <4>1. /\ \A i \in 0 .. nitems - 1 : buffer[i] \in Item /\ buffer'[i] = buffer[i]
            /\ buffer'[nitems] \in Item
        BY <1>1, <2>2
      <4>2. ItemsOf(buffer', nitems + 1) = Append(ItemsOf(buffer, nitems), buffer'[nitems])
        BY <1>1, <4>1, ItemsOfAppend
      <4> QED  BY <1>2, <2>2, <4>2
    <3> QED  BY <2>1, <2>2, <3>1 DEF Abstract!Add, items
  <2>3. CASE state' = "aborted" /\ UNCHANGED <<nitems, capacity, buffer>>
    BY <1>3, <2>1, <2>3 DEF Abstract!Close, items
  <2> QED  BY <1>4, <2>2, <2>3, AppendStep
<1>5. CASE PopItem
  <2>1. CASE nitems = 0
    <3>1. items' = items
      BY <1>3, <1>5, <2>1 DEF PopItem
    <3> QED  BY <1>2, <1>5, <2>1, <3>1 DEF PopItem, Abstract!NothingThere, items
  <2>2. CASE nitems # 0
    <3>1. nitems' = nitems - 1 /\ buffer' = buffer /\ reply' = buffer[nitems - 1]
      BY <1>1, <1>5, <2>2 DEF PopItem
    <3>2. items' = SubSeq(items, 1, Len(items) - 1)
      BY <1>1, <1>2, <2>2, <3>1, ItemsOfPop
    <3>3. reply' = items[Len(items)] /\ items # << >>
      BY <1>1, <1>2, <2>2, <3>1
    <3> QED  BY <1>5, <3>2, <3>3 DEF PopItem, Abstract!Pop, items
  <2> QED  BY <2>1, <2>2
<1>6. CASE PeekItem
  <2>1. items' = items
    BY <1>3, <1>6 DEF PeekItem
  <2>2. \/ reply' = items[Len(items)] /\ items # << >>
        \/ reply' = NULL /\ items = << >>
    BY <1>1, <1>2, <1>6 DEF PeekItem
  <2> QED  BY <1>6, <2>1, <2>2 DEF PeekItem, Abstract!Peek, Abstract!NothingThere, items
<1>7. CASE NextItem
  <2>1. items' = items
    BY <1>3, <1>7 DEF NextItem
  <2>2. IF index < Len(items)
          THEN reply' = items[index + 1] /\ index' = index + 1
          ELSE reply' = NULL /\ UNCHANGED index
    BY <1>1, <1>2, <1>7 DEF NextItem
  <2> QED  BY <1>7, <2>1, <2>2 DEF NextItem, Abstract!Step, items
<1>8. CASE ResetIndex
  <2>1. items' = items
    BY <1>3, <1>8 DEF ResetIndex
  <2> QED  BY <1>8, <2>1 DEF ResetIndex, Abstract!Rewind, items
<1>9. CASE DestroyList
  <2>1. items' = items
    BY <1>3, <1>9 DEF DestroyList
  <2> QED  BY <1>9, <2>1 DEF DestroyList, Abstract!Close, items
<1>10. ASSUME NEW i \in Index, GetItem(i) PROVE Abstract!Next
  <2>1. items' = items
    BY <1>3, <1>10 DEF GetItem
  <2>2. reply' = IF i + 1 \in 1 .. Len(items) THEN items[i + 1] ELSE NULL
    BY <1>1, <1>2, <1>10, ListAssumption DEF GetItem
  <2> QED  BY <1>10, <2>1, <2>2 DEF GetItem, Abstract!Get, items
<1>11. CASE UNCHANGED ptrListVars
  <2>1. items' = items
    BY <1>3, <1>11 DEF ptrListVars
  <2> QED  BY <1>11, <2>1 DEF ptrListVars, items
<1> QED
  BY <1>4, <1>5, <1>6, <1>7, <1>8, <1>9, <1>10, <1>11 DEF ListNext

LEMMA InitImplementsList == ListInit => Abstract!Init
<1> SUFFICES ASSUME ListInit PROVE Abstract!Init
  OBVIOUS
<1>1. nitems = 0
  BY DEF ListInit
<1>2. [i \in 1 .. nitems |-> buffer[i - 1]] = << >>
  BY <1>1
<1> QED  BY <1>2 DEF ListInit, Abstract!Init

(* The buffer implements the list, for lists of any length.                *)
THEOREM PtrListImplements == ListSpec => ImplementsList
<1>1. ListInv /\ ListInv' /\ [ListNext]_ptrListVars => [Abstract!Next]_(Abstract!listVars)
  BY NextImplementsList
<1> QED
  BY <1>1, InitImplementsList, ListInvariance, PTL DEF ListSpec, ImplementsList, Abstract!Spec

-----------------------------------------------------------------------------
(* The list of words of the code block. *)
VARIABLES asked, words

Words == INSTANCE U16List WITH Word <- Item, WordIndex <- Index, MaxWords <- MaxItems

WordListInv ==
  /\ Words!WordListTypeOK
  /\ capacity >= 8
  /\ Len(words) = nitems
  /\ \A i \in 0 .. nitems - 1 : buffer[i] = words[i + 1]

LEMMA InitWordListInv == Words!WordListAssumption /\ Words!WordListInit => WordListInv
<1> SUFFICES ASSUME Words!WordListAssumption, Words!WordListInit PROVE WordListInv
  OBVIOUS
<1>1. words \in Seq(Item) /\ Len(words) = 0
  BY DEF Words!WordListInit
<1>2. buffer \in [0 .. capacity - 1 -> Item \cup {0, Junk}]
  BY DEF Words!WordListInit
<1> QED  BY <1>1, <1>2 DEF Words!WordListInit, WordListInv, Words!WordListTypeOK

(* One more word behind the others, in the old block or in the new one.    *)
AppendsTo(block, cap, w) ==
  /\ cap \in Nat /\ cap >= capacity /\ nitems + 1 < cap
  /\ block \in [0 .. cap - 1 -> Item \cup {0, Junk}]
  /\ \A i \in 0 .. nitems - 1 : block[i] = buffer[i]
  /\ buffer' = [block EXCEPT ![nitems] = w]
  /\ capacity' = cap /\ nitems' = nitems + 1 /\ words' = Append(words, w)
  /\ UNCHANGED <<reply, asked, state>>

LEMMA AppendKeeps ==
  ASSUME WordListInv, NEW w \in Item, NEW block, NEW cap, AppendsTo(block, cap, w)
  PROVE  WordListInv'
<1> USE DEF AppendsTo
<1>1. nitems \in Nat /\ words \in Seq(Item) /\ Len(words) = nitems
  BY DEF WordListInv, Words!WordListTypeOK
<1>2. /\ words' \in Seq(Item) /\ Len(words') = nitems + 1
      /\ words'[nitems + 1] = w
      /\ \A i \in 1 .. nitems : words'[i] = words[i]
  BY <1>1
<1>3. buffer' \in [0 .. cap - 1 -> Item \cup {0, Junk}]
  BY <1>1
<1>4. ASSUME NEW i \in 0 .. nitems' - 1 PROVE buffer'[i] = words'[i + 1]
  <2>1. CASE i = nitems
    BY <1>1, <1>2, <2>1
  <2>2. CASE i \in 0 .. nitems - 1
    <3>1. buffer'[i] = buffer[i]
      BY <1>1, <2>2
    <3>2. words'[i + 1] = words[i + 1]
      BY <1>1, <1>2, <2>2
    <3> QED  BY <2>2, <3>1, <3>2 DEF WordListInv
  <2> QED  BY <1>1, <2>1, <2>2
<1> QED  BY <1>1, <1>2, <1>3, <1>4 DEF WordListInv, Words!WordListTypeOK

LEMMA NextWordListInv ==
  Words!WordListAssumption /\ WordListInv /\ [Words!WordListNext]_Words!wordListVars => WordListInv'
<1> SUFFICES ASSUME Words!WordListAssumption, WordListInv, [Words!WordListNext]_Words!wordListVars
             PROVE  WordListInv'
  OBVIOUS
<1>1. ASSUME NEW w \in Item, Words!AppendWord(w) PROVE WordListInv'
  <2>1. /\ capacity \in Nat /\ capacity >= 8 /\ nitems \in 0 .. capacity - 1
        /\ buffer \in [0 .. capacity - 1 -> Item \cup {0, Junk}]
    BY DEF WordListInv, Words!WordListTypeOK
  <2>2. CASE /\ nitems + 2 <= capacity
             /\ buffer' = [buffer EXCEPT ![nitems] = w]
             /\ nitems' = nitems + 1 /\ words' = Append(words, w)
             /\ UNCHANGED <<capacity, state>>
    <3>1. UNCHANGED <<reply, asked, state>> /\ capacity' = capacity
      BY <1>1, <2>2 DEF Words!AppendWord
    <3>2. nitems + 1 < capacity
      BY <2>1, <2>2
    <3>3. AppendsTo(buffer, capacity, w)
      BY <2>1, <2>2, <3>1, <3>2 DEF AppendsTo
    <3> QED  BY <3>3, AppendKeeps
  <2>3. CASE /\ nitems + 2 > capacity
             /\ capacity' = 2 * capacity
             /\ buffer' = [Words!Doubled EXCEPT ![nitems] = w]
             /\ nitems' = nitems + 1 /\ words' = Append(words, w)
             /\ UNCHANGED state
    <3>1. UNCHANGED <<reply, asked, state>>
      BY <1>1, <2>3 DEF Words!AppendWord
    <3>2. /\ Words!Doubled \in [0 .. 2 * capacity - 1 -> Item \cup {0, Junk}]
          /\ \A i \in 0 .. nitems - 1 : Words!Doubled[i] = buffer[i]
      BY <2>1 DEF Words!Doubled
    <3>3. 2 * capacity \in Nat /\ 2 * capacity >= capacity /\ nitems + 1 < 2 * capacity
      BY <2>1
    <3>4. AppendsTo(Words!Doubled, 2 * capacity, w)
      BY <2>3, <3>1, <3>2, <3>3 DEF AppendsTo
    <3> QED  BY <3>4, AppendKeeps
  <2>4. CASE state' = "no_memory" /\ UNCHANGED <<nitems, capacity, buffer, words>>
    BY <1>1, <2>4 DEF Words!AppendWord, WordListInv, Words!WordListTypeOK
  <2> QED  BY <1>1, <2>2, <2>3, <2>4 DEF Words!AppendWord
<1>2. ASSUME NEW i \in Index, Words!GetWord(i) PROVE WordListInv'
  <2>1. i \in Int
    BY DEF Words!WordListAssumption
  <2>2. reply' \in Item \cup {0, Junk}
    BY <1>2, <2>1 DEF Words!GetWord, WordListInv, Words!WordListTypeOK
  <2> QED  BY <1>2, <2>1, <2>2 DEF Words!GetWord, WordListInv, Words!WordListTypeOK
<1>3. CASE Words!DestroyWordList
  BY <1>3 DEF Words!DestroyWordList, WordListInv, Words!WordListTypeOK
<1>4. CASE UNCHANGED Words!wordListVars
  BY <1>4 DEF Words!wordListVars, WordListInv, Words!WordListTypeOK
<1> QED  BY <1>1, <1>2, <1>3, <1>4 DEF Words!WordListNext

(* The list always has a cell behind its last word, inside its block.      *)
THEOREM WordListTypeCorrect ==
  ASSUME Words!WordListAssumption
  PROVE  Words!WordListSpec => []Words!WordListTypeOK
<1>1. Words!WordListInit => WordListInv
  BY InitWordListInv
<1>2. WordListInv /\ [Words!WordListNext]_Words!wordListVars => WordListInv'
  BY NextWordListInv
<1>3. WordListInv => Words!WordListTypeOK
  BY DEF WordListInv
<1> QED  BY <1>1, <1>2, <1>3, PTL DEF Words!WordListSpec

(* What get_u16_list_by_index() returns for an index inside the list is    *)
(* the word that was appended there, however often the block grew since.   *)
THEOREM WordsReadBack ==
  ASSUME Words!WordListAssumption
  PROVE  Words!WordListSpec => Words!WordsAreReadBack
<1> DEFINE Answer ==
      asked' + 1 \in DOMAIN words /\ UNCHANGED <<words, state>> =>
        reply' = words[asked' + 1]
<1>1. Words!WordListInit => WordListInv
  BY InitWordListInv
<1>2. WordListInv /\ [Words!WordListNext]_Words!wordListVars => WordListInv'
  BY NextWordListInv
<1>3. WordListInv /\ [Words!WordListNext]_Words!wordListVars => [Answer]_Words!wordListVars
  <2> SUFFICES ASSUME WordListInv, Words!WordListNext,
                      asked' + 1 \in DOMAIN words, UNCHANGED <<words, state>>
               PROVE  reply' = words[asked' + 1]
    BY DEF Words!wordListVars
  <2>1. /\ words \in Seq(Item) /\ Len(words) = nitems /\ nitems \in Nat
        /\ \A i \in 0 .. nitems - 1 : buffer[i] = words[i + 1]
    BY DEF WordListInv, Words!WordListTypeOK
  <2>2. DOMAIN words = 1 .. nitems
    BY <2>1
  <2>3. ASSUME NEW w \in Item, Words!AppendWord(w) PROVE FALSE
    BY <2>1, <2>3 DEF Words!AppendWord, WordListInv, Words!WordListTypeOK
  <2>4. ASSUME NEW i \in Index, Words!GetWord(i) PROVE reply' = words[asked' + 1]
    <3>1. i \in Int /\ asked' = i
      BY <2>4 DEF Words!GetWord, Words!WordListAssumption
    <3>2. i \in 0 .. nitems - 1
      BY <2>1, <2>2, <3>1
    <3>3. reply' = buffer[i]
      BY <2>4, <3>2 DEF Words!GetWord
    <3> QED  BY <2>1, <3>1, <3>2, <3>3
  <2>5. ~Words!DestroyWordList
    BY DEF Words!DestroyWordList
  <2> QED  BY <2>3, <2>4, <2>5 DEF Words!WordListNext
<1> QED  BY <1>1, <1>2, <1>3, PTL DEF Words!WordListSpec, Words!WordsAreReadBack

-----------------------------------------------------------------------------
(* The strings of the machine: the cached length of a string is that of    *)
(* its text, or of what its text was before something was added to it.     *)
GoodString(X) ==
  {s \in [text : Seq(X), len : Nat, sum : BOOLEAN] :
     s.len <= Len(s.text) /\ (~s.sum => s.len = Len(s.text))}

ObjectInv(X) ==
  /\ strings \in Seq(GoodString(X))
  /\ compared # << >> =>
       \E s1, s2 \in GoodString(X) : compared = <<s1, s2, SameString(s1, s2)>>

LEMMA StringsAreGood ==
  ASSUME NEW X
  PROVE  /\ \A str \in Seq(X) : StringObject(str) \in GoodString(X)
         /\ \A s1, s2 \in GoodString(X) : AddStrings(s1, s2) \in GoodString(X)
<1>1. ASSUME NEW str \in Seq(X) PROVE StringObject(str) \in GoodString(X)
  BY DEF StringObject, GoodString
<1>2. ASSUME NEW s1 \in GoodString(X), NEW s2 \in GoodString(X)
      PROVE  AddStrings(s1, s2) \in GoodString(X)
  <2> DEFINE t1 == s1.text
             t2 == s2.text
  <2>1. t1 \in Seq(X) /\ t2 \in Seq(X)
    BY DEF GoodString
  <2>2. AddStrings(s1, s2) = [text |-> t1 \o t2, len |-> Len(t1), sum |-> TRUE]
    <3> DEFINE n == Len(t1)
               t == t1 \o t2
    <3>1. AddStrings(s1, s2) = [[text |-> t1, len |-> n, sum |-> FALSE] EXCEPT !.text = t, !.sum = TRUE]
      BY DEF AddStrings, StringObject
    <3> HIDE DEF n, t, t1
    <3> QED  BY <3>1 DEF n, t
  <2> HIDE DEF t1, t2
  <2>3. t1 \o t2 \in Seq(X) /\ Len(t1) \in Nat /\ Len(t1) <= Len(t1 \o t2)
    BY <2>1
  <2> QED  BY <2>2, <2>3 DEF GoodString
<1> QED  BY <1>1, <1>2

LEMMA OperandsAreGood ==
  ASSUME NEW G, strings \in Seq(G), Len(strings) >= 2
  PROVE  Op1 \in G /\ Op2 \in G /\ Popped \in Seq(G)
BY DEF Op1, Op2, Popped

LEMMA NextObjectInv ==
  ASSUME NEW X, Texts \subseteq Seq(X), ObjectInv(X), [ObjectNext]_objectVars
  PROVE  ObjectInv(X)'
<1>1. CASE CreateStringObject
  BY <1>1, StringsAreGood DEF CreateStringObject, ObjectInv
<1>2. CASE ArithmeticObjects
  <2>1. Op1 \in GoodString(X) /\ Op2 \in GoodString(X) /\ Popped \in Seq(GoodString(X))
    BY <1>2, OperandsAreGood DEF ArithmeticObjects, ObjectInv
  <2>2. AddStrings(Op1, Op2) \in GoodString(X)
    BY <2>1, StringsAreGood
  <2>3. strings' = Append(Popped, AddStrings(Op1, Op2)) \/ strings' = Popped
    BY <1>2 DEF ArithmeticObjects
  <2>4. Append(Popped, AddStrings(Op1, Op2)) \in Seq(GoodString(X))
    BY <2>1, <2>2
  <2> QED  BY <1>2, <2>1, <2>3, <2>4 DEF ArithmeticObjects, ObjectInv
<1>3. CASE CompareObjects
  <2>1. Op1 \in GoodString(X) /\ Op2 \in GoodString(X) /\ Popped \in Seq(GoodString(X))
    BY <1>3, OperandsAreGood DEF CompareObjects, ObjectInv
  <2>2. compared' = <<Op1, Op2, SameString(Op1, Op2)>> \/ compared' = << >>
    BY <1>3 DEF CompareObjects
  <2>3. strings' = Popped
    BY <1>3 DEF CompareObjects
  <2> QED  BY <2>1, <2>2, <2>3 DEF ObjectInv
<1>4. CASE ResetStrings
  BY <1>4 DEF ResetStrings, ObjectInv
<1>5. CASE UNCHANGED objectVars
  BY <1>5 DEF objectVars, ObjectInv
<1> QED  BY <1>1, <1>2, <1>3, <1>4, <1>5 DEF ObjectNext

LEMMA ObjectInvariance ==
  ASSUME NEW X, Texts \subseteq Seq(X)
  PROVE  ObjectSpec => []ObjectInv(X)
<1>1. ObjectInit => ObjectInv(X)
  BY DEF ObjectInit, ObjectInv
<1>2. ObjectInv(X) /\ [ObjectNext]_objectVars => ObjectInv(X)'
  BY NextObjectInv
<1> QED  BY <1>1, <1>2, PTL DEF ObjectSpec

(* A comparison looks at no byte behind the text of a string, however the  *)
(* string was put together.                                                *)
THEOREM ComparisonsStayInside ==
  ASSUME NEW X, Texts \subseteq Seq(X)
  PROVE  ObjectSpec => []ComparisonStaysInText
<1>1. ObjectInv(X) => ComparisonStaysInText
  BY DEF ObjectInv, GoodString, ComparisonStaysInText
<1> QED  BY <1>1, ObjectInvariance, PTL

(* Strings that were entered, rather than added, are equal when their      *)
(* texts are.                                                              *)
THEOREM EnteredStringsCompare ==
  ASSUME NEW X, Texts \subseteq Seq(X)
  PROVE  ObjectSpec => []EnteredStringsCompareByText
<1>1. ObjectInv(X) => EnteredStringsCompareByText
  <2> SUFFICES ASSUME ObjectInv(X), compared # << >>, ~compared[1].sum, ~compared[2].sum
               PROVE  compared[3] <=> compared[1].text = compared[2].text
    BY DEF EnteredStringsCompareByText
  <2>1. PICK s1, s2 \in GoodString(X) : compared = <<s1, s2, SameString(s1, s2)>>
    BY DEF ObjectInv
  <2>2. ~s1.sum /\ ~s2.sum
    BY <2>1
  <2> DEFINE t1 == s1.text
             t2 == s2.text
  <2>3. t1 \in Seq(X) /\ t2 \in Seq(X) /\ s1.len = Len(t1) /\ s2.len = Len(t2)
    BY <2>2 DEF GoodString
  <2>4. SameString(s1, s2) <=> Len(t1) = Len(t2) /\ \A i \in 1 .. Len(t1) : t1[i] = t2[i]
    BY <2>3 DEF SameString
  <2> HIDE DEF t1, t2
  <2>5. SameString(s1, s2) <=> t1 = t2
    BY <2>3, <2>4
  <2> QED  BY <2>1, <2>5 DEF t1, t2
<1> QED  BY <1>1, ObjectInvariance, PTL
=============================================================================
