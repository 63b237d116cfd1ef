---------------------------- MODULE MCConfigure -----------------------------
(***************************************************************************)
(* Configure on every command line of a few arguments; walks follow the    *)
(* shorter ones.  MCLists checks it, with the other users of lists.        *)
(***************************************************************************)
EXTENDS Configure

CONSTANTS
  MaxArgs,    (* the longest command line *)
  MaxWalked   (* the longest one whose table is walked over *)

MCWord   == {"", "0", "5", "huge", "f", "f:g", ":f"}
MCPieces == [w \in MCWord |-> CASE w = "f:g" -> <<"f", "0">> [] w = ":f" -> <<"f">>
                                [] OTHER -> <<w>>]

(* "huge" is more than a long, which gives -1, and with a dash before it   *)
(* less, which gives 0.                                                    *)
MCNumber == [t \in Text |->
  CASE t = Plain("5")                        -> 5
    [] t = [option |-> "-?", rest |-> "5"]   -> -5
    [] t = Plain("huge")                     -> -1
    [] OTHER                                 -> 0]
MCOutOfRange == {[option |-> o, rest |-> "huge"] : o \in {"none", "-?"}}

MCPath   == <<[option |-> "none", rest |-> "5"], [option |-> "none", rest |-> "f"]>>
MCOut    == [option |-> "none", rest |-> "5"]

Menu ==
  {[option |-> o, rest |-> ""] : o \in Option \cup {"-?"}}
    \cup {[option |-> "none", rest |-> w] : w \in {"0", "huge", "f:g"}}
    \cup {[option |-> "-?", rest |-> w] : w \in {"5", "huge"}}
    \cup {[option |-> "FPATH", rest |-> w] : w \in {"f:g", ":f"}}
    \cup {[option |-> "VERBOSE", rest |-> "5"], [option |-> "OUTFILE", rest |-> "f"]}

MCArgv == UNION {[1 .. n -> Menu] : n \in 0 .. MaxArgs}

WalkedNext ==
  \/ ParseStep
  \/ /\ Len(argv) <= MaxWalked
     /\ \/ DestroyConfig
        \/ \E e \in Entry : IterateConfig(e) \/ ResetConfigList(e)
=============================================================================
