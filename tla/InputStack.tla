----------------------------- MODULE InputStack -----------------------------
(***************************************************************************)
(* The scanner's stack of open streams (scanner.c), seen through get_tok().*)
(* A stream is the sequence of tokens its remaining text scans to; the top *)
(* of the linked list is the head of the sequence.  An exhausted stream    *)
(* stays on the stack until the get_char() after its END_OF_FILE: that     *)
(* close is deferred through file_flag.                                    *)
(***************************************************************************)
EXTENDS Tokens, Sequences

CONSTANT
  MAX_FILE_NESTING   (* files open_scanner_file() accepts, 15 in scanner.h *)

ASSUME NestingAssumption == MAX_FILE_NESTING \in Nat

VARIABLES
  streams,      (* the linked list headed by top *)
  file_flag,    (* an END_OF_FILE was returned, its stream is still to close *)
  nest_depth    (* calls of open_scanner_file() so far: it never decreases *)

inputVars == <<streams, file_flag, nest_depth>>

InputTypeOK ==
  /\ streams \in Seq(Seq(TextToken))
  /\ file_flag \in BOOLEAN
  /\ nest_depth \in Nat

InputInit ==
  /\ streams = << >>
  /\ file_flag = FALSE
  /\ nest_depth = 0

(* open_scanner_string() *)
OpenScannerString(text) ==
  /\ streams' = <<text>> \o streams
  /\ UNCHANGED <<file_flag, nest_depth>>

(* open_scanner_file(), within the nesting limit *)
OpenScannerFile(text) ==
  /\ nest_depth < MAX_FILE_NESTING
  /\ nest_depth' = nest_depth + 1
  /\ streams' = <<text>> \o streams
  /\ UNCHANGED file_flag

(* open_scanner_file() when fopen() fails: fatal_error() *)
FileMissing ==
  /\ nest_depth < MAX_FILE_NESTING
  /\ nest_depth' = nest_depth + 1
  /\ UNCHANGED <<streams, file_flag>>

(* open_scanner_file() beyond the limit: fatal_error() *)
NestingExceeded ==
  /\ nest_depth >= MAX_FILE_NESTING
  /\ nest_depth' = nest_depth + 1
  /\ UNCHANGED <<streams, file_flag>>

(* What get_char() reads from: it first does the deferred close, which pops *)
(* whatever stream is on top by then.                                      *)
Readable ==
  IF file_flag /\ streams # << >> THEN Tail(streams) ELSE streams

(* The calls of get_tok() in advance(): `tok' is the first token that is   *)
(* not an ERROR_TOKEN.                                                     *)
GetTok(tok) ==
  /\ UNCHANGED nest_depth
  /\ \/ /\ Readable = << >>
        /\ tok = "END_OF_INPUT"
        /\ streams' = << >>
        /\ file_flag' = FALSE
     \/ /\ Readable # << >>
        /\ \A i \in DOMAIN Head(Readable) : Head(Readable)[i] = "ERROR_TOKEN"
        /\ tok = "END_OF_FILE"
        /\ streams' = <<(<< >>)>> \o Tail(Readable)
        /\ file_flag' = TRUE
     \/ /\ Readable # << >>
        /\ \E i \in DOMAIN Head(Readable) :
             LET text == Head(Readable) IN
             /\ text[i] # "ERROR_TOKEN"
             /\ \A j \in 1 .. i - 1 : text[j] = "ERROR_TOKEN"
             /\ tok = text[i]
             /\ streams' = <<SubSeq(text, i + 1, Len(text))>> \o Tail(Readable)
             /\ file_flag' = FALSE
=============================================================================
