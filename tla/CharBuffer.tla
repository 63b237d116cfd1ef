----------------------------- MODULE CharBuffer ------------------------------
(***************************************************************************)
(* chbuffer.c: a text in a buffer that is doubled, one byte at a time also *)
(* where a string or a number is added.  The scanner keeps the text of a   *)
(* token in one and starts it anew for each; an object keeps its string.   *)
(***************************************************************************)
EXTENDS Integers, Sequences, Memory

CONSTANTS
  Byte, NUL,
  Junk,        (* what is in memory that nothing was stored in *)
  Strings,     (* the strings that are added, without a NUL *)
  Ints,        (* the numbers that are added: four bytes each *)
  Index,       (* where the text is cut *)
  MaxLength    (* how long a text the caller builds *)

BufferAssumption ==
  /\ NUL \in Byte /\ Junk \notin Byte
  /\ Strings \subseteq Seq(Byte \ {NUL})
  /\ Ints \subseteq [1 .. 4 -> Byte]
  /\ Index \subseteq Int
  /\ MaxLength \in Nat

VARIABLES
  length, capacity, buffer,   (* __chbuf_t *)
  pending,                    (* bytes of the current call still to be stored *)
  reply,                      (* what get_char_buffer() showed *)
  state                       (* "live", "destroyed", "no_memory", "refused" *)

bufferVars == <<length, capacity, buffer, pending, reply, state>>

BufferTypeOK ==
  /\ capacity \in Nat
  /\ length \in 0 .. capacity - 2
  /\ buffer \in [0 .. capacity - 1 -> Byte \cup {Junk}]
  /\ \A i \in 0 .. length - 1 : buffer[i] \in Byte
  /\ buffer[length] = NUL
  /\ pending \in Seq(Byte)
  /\ reply \in Seq(Byte)
  /\ state \in {"live", "destroyed", "no_memory", "refused"}

Fresh == [i \in 0 .. 7 |-> IF i = 0 THEN NUL ELSE Junk]

(* create_char_buffer() *)
BufferInit ==
  /\ length = 0 /\ capacity = 8 /\ buffer = Fresh
  /\ pending = << >>
  /\ reply = << >>
  /\ state = "live"

Ready == state = "live" /\ pending = << >>

(* init_char_buffer() of a buffer in use: a new block for the old one.     *)
InitCharBuffer ==
  /\ Ready
  /\ \/ /\ ~Refused(capacity)
        /\ length' = 0 /\ capacity' = 8 /\ buffer' = Fresh
        /\ UNCHANGED state
     \/ /\ Refused(capacity)
        /\ state' = "refused"
        /\ UNCHANGED <<length, capacity, buffer>>
  /\ UNCHANGED <<pending, reply>>

(* The loops of add_char_buffer_str() and add_char_buffer_int(); the bytes *)
(* of a number are those from its first one that is not zero.              *)
StartAdding(s) ==
  /\ length + Len(s) <= MaxLength
  /\ pending' = s

AddChar(c) ==
  /\ Ready
  /\ StartAdding(<<c>>)
  /\ UNCHANGED <<length, capacity, buffer, reply, state>>

AddStr(s) ==
  /\ Ready
  /\ StartAdding(s)
  /\ UNCHANGED <<length, capacity, buffer, reply, state>>

LeadingZeros(number) ==
  CHOOSE n \in 0 .. 4 : /\ \A i \in 1 .. n : number[i] = NUL
                        /\ n = 4 \/ number[n + 1] # NUL

AddInt(number) ==
  /\ Ready
  /\ StartAdding(IF LeadingZeros(number) = 4 THEN <<NUL>>
                 ELSE SubSeq(number, LeadingZeros(number) + 1, 4))
  /\ UNCHANGED <<length, capacity, buffer, reply, state>>

(* Mutant: the zero after the text is not counted. *)
NeedsToGrowLate == length + 1 > capacity

(* grow_buffer() *)
NeedsToGrow == length + 3 > capacity

Grown == [i \in 0 .. 2 * capacity - 1 |-> IF i < capacity THEN buffer[i] ELSE Junk]

(* add_char_buffer() *)
StoreByte ==
  /\ state = "live" /\ pending # << >>
  /\ \/ /\ ~NeedsToGrow
        /\ buffer' = [buffer EXCEPT ![length] = Head(pending), ![length + 1] = NUL]
        /\ length' = length + 1
        /\ pending' = Tail(pending)
        /\ UNCHANGED <<capacity, state>>
     \/ /\ NeedsToGrow
        /\ capacity' = 2 * capacity
        /\ buffer' = [Grown EXCEPT ![length] = Head(pending), ![length + 1] = NUL]
        /\ length' = length + 1
        /\ pending' = Tail(pending)
        /\ UNCHANGED state
     \/ /\ NeedsToGrow
        /\ state' = "no_memory"
        /\ UNCHANGED <<length, capacity, buffer, pending>>
  /\ UNCHANGED reply

(* Mutant: the character at the index stays. *)
TruncatedAfter(index) ==
  IF index >= 0 /\ index < length
    THEN length' = index + 1 /\ buffer' = [buffer EXCEPT ![index + 1] = NUL]
    ELSE UNCHANGED <<length, buffer>>

(* truncate_char_buffer(): a negative index is a large unsigned one.       *)
Truncated(index) ==
  IF index >= 0 /\ index < length
    THEN length' = index /\ buffer' = [buffer EXCEPT ![index] = NUL]
    ELSE UNCHANGED <<length, buffer>>

TruncateCharBuffer(index) ==
  /\ Ready
  /\ Truncated(index)
  /\ UNCHANGED <<capacity, pending, reply, state>>

(* set_char_buffer_index_str() *)
SetIndexStr(index, s) ==
  /\ Ready
  /\ Truncated(index)
  /\ StartAdding(s)
  /\ UNCHANGED <<capacity, reply, state>>

(* get_char_buffer(), read as a string *)
GetCharBuffer ==
  /\ Ready
  /\ \E n \in 0 .. capacity - 1 :
       /\ buffer[n] = NUL
       /\ \A i \in 0 .. n - 1 : buffer[i] # NUL
       /\ reply' = [i \in 1 .. n |-> buffer[i - 1]]
  /\ UNCHANGED <<length, capacity, buffer, pending, state>>

(* destroy_char_buffer() *)
DestroyCharBuffer ==
  /\ Ready
  /\ \/ ~Refused(capacity) /\ state' = "destroyed"
     \/ Refused(capacity) /\ state' = "refused"
  /\ UNCHANGED <<length, capacity, buffer, pending, reply>>

BufferNext ==
  \/ InitCharBuffer \/ StoreByte \/ GetCharBuffer \/ DestroyCharBuffer
  \/ \E c \in Byte : AddChar(c)
  \/ \E s \in Strings : AddStr(s)
  \/ \E number \in Ints : AddInt(number)
  \/ \E index \in Index : TruncateCharBuffer(index)
  \/ \E index \in Index, s \in Strings : SetIndexStr(index, s)

BufferSpec == BufferInit /\ [][BufferNext]_bufferVars

-----------------------------------------------------------------------------
(* The buffer is a text: what is read is what was added and not cut again, *)
(* across doublings, new beginnings and bytes that are zero, and never     *)
(* what memory held before.                                                *)
Abstract == INSTANCE CharText WITH
  text <- [i \in 1 .. length |-> buffer[i - 1]] \o pending,
  usable <- state = "live"

ImplementsText == Abstract!Spec

(* memory.c 71: what memory_free() refuses is a pointer that was not       *)
(* allocated.                                                              *)
AllocatedBlocksAreFreed == state # "refused"
=============================================================================
