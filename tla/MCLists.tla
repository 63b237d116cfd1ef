------------------------------ MODULE MCLists --------------------------------
(***************************************************************************)
(* The three growing buffers, each around the limits of its first blocks,  *)
(* strings, which are kept in one, and the table of the command line,      *)
(* whose lists are ones of pointers.  A behaviour is about one of them.    *)
(***************************************************************************)
EXTENDS PtrList, Objects, MCConfigure

CONSTANTS NUL, x   (* bytes *)

VARIABLES
  subject,            (* what it is about *)
  length, chcapacity, chbuffer, pending, chreply, chstate,
  nwords, wcapacity, wbuffer, wreply, asked, words, wstate

charVars == <<length, chcapacity, chbuffer, pending, chreply, chstate>>
wordVars == <<nwords, wcapacity, wbuffer, wreply, asked, words, wstate>>

MCIndex   == {-1, 0, 6, 8}
MCBytes   == {NUL, x}
MCStrings == {<<x, x, x, x, x>>}
MCInts    == {<<NUL, NUL, NUL, NUL>>, <<NUL, x, NUL, x>>}
MCCuts    == {-1, 3, 20}
MCTexts   == {<< >>, <<"a">>, <<"b">>, <<"a", "b">>}

Chars == INSTANCE CharBuffer WITH
  capacity <- chcapacity, buffer <- chbuffer, reply <- chreply, state <- chstate,
  Byte <- MCBytes, Strings <- MCStrings, Ints <- MCInts, Index <- MCCuts,
  MaxLength <- 8, MappedSize <- 131072

(* The same where even the second block is mapped. *)
Mapped == INSTANCE CharBuffer WITH
  capacity <- chcapacity, buffer <- chbuffer, reply <- chreply, state <- chstate,
  Byte <- MCBytes, Strings <- MCStrings, Ints <- MCInts, Index <- MCCuts,
  MaxLength <- 8, MappedSize <- 16

Words == INSTANCE U16List WITH
  nitems <- nwords, capacity <- wcapacity, buffer <- wbuffer, reply <- wreply, state <- wstate,
  Word <- {7, 8}, WordIndex <- {-1, 0, 6, 7, 9}, MaxWords <- 8

ASSUME MCAssumption ==
  /\ Chars!BufferAssumption /\ Chars!MemoryAssumption
  /\ Mapped!BufferAssumption /\ Mapped!MemoryAssumption
  /\ Words!WordListAssumption /\ ObjectAssumption

MCInit == /\ ListInit /\ Chars!BufferInit /\ Words!WordListInit
          /\ ObjectInit
          /\ subject \in {"pointers", "characters", "mapped", "words", "strings", "configuration"}
          /\ ConfigInit
          /\ subject = "configuration" \/ (argv = << >> /\ ~errno)

MCNext ==
  \/ /\ subject = "pointers" /\ ListNext
     /\ UNCHANGED <<charVars, wordVars, objectVars, configureVars, subject>>
  \/ /\ subject = "mapped" /\ Mapped!BufferNext
     /\ UNCHANGED <<ptrListVars, wordVars, objectVars, configureVars, subject>>
  \/ /\ subject = "characters" /\ Chars!BufferNext
     /\ UNCHANGED <<ptrListVars, wordVars, objectVars, configureVars, subject>>
  \/ /\ subject = "words" /\ Words!WordListNext
     /\ UNCHANGED <<ptrListVars, charVars, objectVars, configureVars, subject>>
  \/ /\ subject = "strings" /\ ObjectNext
     /\ UNCHANGED <<ptrListVars, charVars, wordVars, configureVars, subject>>
  \/ /\ subject = "configuration" /\ WalkedNext
     /\ UNCHANGED <<ptrListVars, charVars, wordVars, objectVars, subject>>

MCSpec ==
  MCInit /\ [][MCNext]_<<ptrListVars, charVars, wordVars, objectVars, configureVars, subject>>

-----------------------------------------------------------------------------
(* Every block is as long as what is stored in it needs: the zero after a  *)
(* text and the cell after the last word are inside.                       *)
BufferTypeOK == Chars!BufferTypeOK /\ Words!WordListTypeOK

(* Reading, adding, cutting and starting anew in any order, a character    *)
(* buffer is a text.                                                       *)
ImplementsText == Chars!ImplementsText

(* Inside the list, the words of the code are read back as they were       *)
(* emitted.                                                                *)
WordsAreReadBack == Words!WordsAreReadBack

(* memory.c 71: what memory_free() refuses was not allocated.              *)
AllocatedBlocksAreFreed == Mapped!AllocatedBlocksAreFreed
=============================================================================
