------------------------------- MODULE Memory --------------------------------
(***************************************************************************)
(* memory.c: what FREE() refuses.  It compares the upper half of an        *)
(* address with that of the first block the program got.  malloc() takes   *)
(* small blocks from the heap, large ones are mapped: elsewhere, in a      *)
(* 64-bit process.                                                         *)
(***************************************************************************)
EXTENDS Naturals

CONSTANT
  MappedSize   (* from how many bytes on malloc() and realloc() map a block *)

(* A block of a few bytes comes from the heap. *)
MemoryAssumption == MappedSize \in Nat /\ MappedSize > 8

GET_SEG(size) == IF size < MappedSize THEN "heap" ELSE "mapped"

(* init_memory() asks for one byte. *)
mem_segment == GET_SEG(1)

(* memory_free() ends the process instead of freeing the block. *)
Refused(size) == GET_SEG(size) # mem_segment
=============================================================================
