------------------------------- MODULE U16List -------------------------------
(***************************************************************************)
(* u16list.c: the words of the code block, in a buffer that is doubled.    *)
(***************************************************************************)
EXTENDS Integers, Sequences

CONSTANTS
  Word,
  Junk,         (* what is in memory that nothing was stored in *)
  WordIndex,    (* the arguments of get_u16_list_by_index() *)
  MaxWords      (* how many words are emitted *)

WordListAssumption ==
  /\ Junk \notin Word
  /\ WordIndex \subseteq Int
  /\ MaxWords \in Nat

VARIABLES
  nitems, capacity, buffer,   (* u16_list_t, whose index nothing uses *)
  reply,                      (* what the last call returned *)
  asked,                      (* history: its argument *)
  words,                      (* history: what was appended *)
  state                       (* "live", "destroyed", "no_memory" *)

wordListVars == <<nitems, capacity, buffer, reply, asked, words, state>>

WordListTypeOK ==
  /\ capacity \in Nat
  /\ nitems \in 0 .. capacity - 1
  /\ buffer \in [0 .. capacity - 1 -> Word \cup {0, Junk}]
  /\ words \in Seq(Word)
  /\ reply \in Word \cup {0, Junk}
  /\ asked \in Int
  /\ state \in {"live", "destroyed", "no_memory"}

(* create_u16_list(), init_u16_list() *)
WordListInit ==
  /\ nitems = 0 /\ capacity = 8
  /\ buffer = [i \in 0 .. 7 |-> 0]
  /\ reply = 0 /\ asked = 0
  /\ words = << >>
  /\ state = "live"

(* Mutant: the block is new, and the words are not copied to it. *)
DoubledFresh == [i \in 0 .. 2 * capacity - 1 |-> Junk]

Doubled == [i \in 0 .. 2 * capacity - 1 |-> IF i < capacity THEN buffer[i] ELSE Junk]

(* append_u16_list() *)
AppendWord(w) ==
  /\ state = "live" /\ nitems < MaxWords
  /\ \/ /\ nitems + 2 <= capacity
        /\ buffer' = [buffer EXCEPT ![nitems] = w]
        /\ nitems' = nitems + 1 /\ words' = Append(words, w)
        /\ UNCHANGED <<capacity, state>>
     \/ /\ nitems + 2 > capacity
        /\ capacity' = 2 * capacity
        /\ buffer' = [Doubled EXCEPT ![nitems] = w]
        /\ nitems' = nitems + 1 /\ words' = Append(words, w)
        /\ UNCHANGED state
     \/ /\ nitems + 2 > capacity
        /\ state' = "no_memory"
        /\ UNCHANGED <<nitems, capacity, buffer, words>>
  /\ UNCHANGED <<reply, asked>>

(* get_u16_list_by_index(): outside the list, the last word, where the     *)
(* comment at u16list.c 67-71 has NULL; the last word of an empty list is  *)
(* the memory before the buffer.                                           *)
GetWord(i) ==
  /\ state = "live"
  /\ \/ i \in 0 .. nitems - 1 /\ reply' = buffer[i]
     \/ i \notin 0 .. nitems - 1 /\ nitems > 0 /\ reply' = buffer[nitems - 1]
     \/ i \notin 0 .. nitems - 1 /\ nitems = 0 /\ reply' = Junk
  /\ asked' = i
  /\ UNCHANGED <<nitems, capacity, buffer, words, state>>

(* destroy_u16_list() *)
DestroyWordList ==
  /\ state = "live"
  /\ state' = "destroyed"
  /\ UNCHANGED <<nitems, capacity, buffer, reply, asked, words>>

WordListNext ==
  \/ \E w \in Word : AppendWord(w)
  \/ \E i \in WordIndex : GetWord(i)
  \/ DestroyWordList

WordListSpec == WordListInit /\ [][WordListNext]_wordListVars

-----------------------------------------------------------------------------
(* The machine reads the words that the compiler emitted: inside the list  *)
(* the one that was appended at the index, in whichever of the blocks the  *)
(* list had then it was stored.  Of an index outside the list nothing is   *)
(* said: the code and its comment disagree there.                          *)
WordsAreReadBack ==
  [][asked' + 1 \in DOMAIN words /\ UNCHANGED <<words, state>> =>
       reply' = words[asked' + 1]]_wordListVars
=============================================================================
