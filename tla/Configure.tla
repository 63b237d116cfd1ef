------------------------------ MODULE Configure ------------------------------
(***************************************************************************)
(* configure.c with the table of atlang.c: the command line is read into   *)
(* the table, which the program then asks and walks.  A text is a record:  *)
(* the option it begins with, and what follows it.                         *)
(***************************************************************************)
EXTENDS Integers, Sequences, FiniteSets

CONSTANTS
  Word, EMPTY,   (* what may follow an option, or make a whole argument *)
  Number,        (* (int)strtol() of each text *)
  OutOfRange,    (* the texts for which it sets errno *)
  Pieces,        (* the words between the colons of each word, or the word *)
  LeadingColon,  (* the words that begin with one *)
  DefaultOut, DefaultDump, DefaultPath,
  Argv           (* the command lines *)

(* BEGIN_CONFIG ... END_CONFIG *)
Type == [HELP_FLAG |-> "HELP", VERBOSE |-> "NUM", OUTFILE |-> "STR", FPATH |-> "LIST",
         DFILE_ONLY |-> "BOOL", DUMP_FILE |-> "STR", INFILES |-> "LIST"]
Entry    == DOMAIN Type
Once     == {"OUTFILE", "DUMP_FILE"}
Required == {}
Default  == [HELP_FLAG |-> 0, VERBOSE |-> 0, OUTFILE |-> DefaultOut, FPATH |-> DefaultPath,
             DFILE_ONLY |-> 0, DUMP_FILE |-> DefaultDump, INFILES |-> << >>]

(* All entries but the input files have an option; "-?" is any other word  *)
(* that begins with a dash.                                                *)
Option == Entry \ {"INFILES"}
Text   == [option : Option \cup {"-?", "none"}, rest : Word]

ASSUME ConfigureAssumption ==
  /\ EMPTY \in Word
  /\ Number \in [Text -> Int] /\ OutOfRange \subseteq Text
  /\ Pieces \in [Word -> Seq(Word)] /\ LeadingColon \subseteq Word
  /\ \A w \in Word \ LeadingColon : Pieces[w] # << >>
  /\ DefaultOut \in Text /\ DefaultDump \in Text /\ DefaultPath \in Seq(Text)
  /\ Argv \subseteq Seq(Text)

VARIABLES
  argv, idx,
  value, touched, iter_buf,   (* of each entry; iter_buf: whether it is set *)
  cursor,                     (* the index of each list *)
  errno,                      (* it is not 0 *)
  status,      (* "configuring", "configured", "usage", "no_argument", "destroyed" *)
  answer,      (* what iterate_config() returned, a sequence of at most one *)
  walked       (* history: for each entry, the answers since its walk began *)

parseVars     == <<idx, value, touched, errno, status>>
walkVars      == <<iter_buf, cursor, answer, walked>>
configureVars == <<argv, parseVars, walkVars>>

List == {e \in Entry : Type[e] = "LIST"}

ConfigTypeOK ==
  /\ argv \in Seq(Text) /\ idx \in 1 .. Len(argv) + 1
  /\ \A e \in Entry : CASE Type[e] = "LIST" -> value[e] \in Seq(Text)
                        [] Type[e] = "STR"  -> value[e] \in Text
                        [] OTHER            -> value[e] \in Int
  /\ touched \in [Entry -> -128 .. 127]
  /\ iter_buf \in [Entry -> BOOLEAN]
  /\ \A e \in List : cursor[e] \in 0 .. Len(value[e])
  /\ errno \in BOOLEAN
  /\ status \in {"configuring", "configured", "usage", "no_argument", "destroyed"}

(* init_config(); errno is what earlier calls left. *)
ConfigInit ==
  /\ argv \in Argv /\ idx = 1
  /\ value = Default
  /\ touched = [e \in Entry |-> 0]
  /\ errno \in BOOLEAN
  /\ status = "configuring"
  /\ iter_buf = [e \in Entry |-> FALSE] /\ cursor = [e \in List |-> 0]
  /\ answer = << >> /\ walked = [e \in Entry |-> << >>]

Plain(w) == [option |-> "none", rest |-> w]

(* The items that the colons of a value part.  What begins the value       *)
(* belongs to its first piece.                                             *)
ItemsIn(t) ==
  LET plain == [i \in DOMAIN Pieces[t.rest] |-> Plain(Pieces[t.rest][i])] IN
  IF t.option = "none" THEN plain
  ELSE IF t.rest \in LeadingColon THEN <<[t EXCEPT !.rest = EMPTY]>> \o plain
  ELSE [plain EXCEPT ![1].option = t.option]

(* `touched' is a char. *)
Touch(e) == touched' = [touched EXCEPT ![e] = IF @ = 127 THEN -128 ELSE @ + 1]

Set(e, v) == value' = [value EXCEPT ![e] = v]

Reading == status = "configuring" /\ idx <= Len(argv)

Usage == status' = "usage" /\ UNCHANGED <<argv, idx, value, touched, errno, walkVars>>

UnknownParameter == Reading /\ argv[idx].option = "-?" /\ Usage

InputFile ==
  /\ Reading /\ argv[idx].option = "none"
  /\ Set("INFILES", Append(value["INFILES"], argv[idx]))
  /\ Touch("INFILES")
  /\ idx' = idx + 1
  /\ UNCHANGED <<argv, errno, status, walkVars>>

Switch ==
  /\ Reading /\ argv[idx].option \in Option
  /\ LET e == argv[idx].option IN
     /\ Type[e] \in {"HELP", "BOOL"}
     /\ Set(e, 1 - value[e])
     /\ Touch(e)
  /\ idx' = idx + 1
  /\ UNCHANGED <<argv, errno, status, walkVars>>

TakesValue(t) == t.option \in Option /\ Type[t.option] \in {"NUM", "STR", "LIST"}

(* An option that takes a value: the rest of its own argument, or the      *)
(* next argument whatever it is.  `v' is the value, `at' its argument.     *)
Parameter(v, at) ==
  LET e == argv[idx].option IN
  \/ /\ Type[e] \in {"STR", "LIST"}
     /\ Set(e, IF Type[e] = "STR" THEN v ELSE value[e] \o ItemsIn(v))
     /\ Touch(e)
     /\ idx' = at + 1
     /\ UNCHANGED <<argv, errno, status, walkVars>>
  \/ /\ Type[e] = "NUM"
     /\ Number[v] # 0 \/ ~(errno \/ v \in OutOfRange)
     /\ errno' = (errno \/ v \in OutOfRange)
     /\ Set(e, Number[v])
     /\ Touch(e)
     /\ idx' = at + 1
     /\ UNCHANGED <<argv, status, walkVars>>
  \/ /\ Type[e] = "NUM"
     /\ Number[v] = 0 /\ (errno \/ v \in OutOfRange)
     /\ Usage

AttachedParameter ==
  /\ Reading /\ TakesValue(argv[idx]) /\ argv[idx].rest # EMPTY
  /\ Parameter(Plain(argv[idx].rest), idx)

(* Mutant: the value is read again as an argument. *)
SeparateParameterReread ==
  /\ Reading /\ TakesValue(argv[idx]) /\ argv[idx].rest = EMPTY
  /\ \/ idx < Len(argv) /\ Parameter(argv[idx + 1], idx)
     \/ idx = Len(argv)
        /\ status' = "no_argument"
        /\ UNCHANGED <<argv, idx, value, touched, errno, walkVars>>

SeparateParameter ==
  /\ Reading /\ TakesValue(argv[idx]) /\ argv[idx].rest = EMPTY
  /\ \/ idx < Len(argv) /\ Parameter(argv[idx + 1], idx + 1)
     \/ idx = Len(argv)           (* argv[argc] is NULL, and is used *)
        /\ status' = "no_argument"
        /\ UNCHANGED <<argv, idx, value, touched, errno, walkVars>>

(* Mutant: an option may appear twice. *)
MisusedTwice ==
  \/ \E e \in Required : touched[e] = 0
  \/ \E e \in Once : touched[e] > 2
  \/ value["HELP_FLAG"] # 0

Misused ==
  \/ \E e \in Required : touched[e] = 0
  \/ \E e \in Once : touched[e] > 1
  \/ value["HELP_FLAG"] # 0

(* check_required(): it shows the use where something is missing, or       *)
(* repeated, or where that was asked for.                                  *)
CheckRequired ==
  /\ status = "configuring" /\ idx > Len(argv)
  /\ status' = IF Misused THEN "usage" ELSE "configured"
  /\ UNCHANGED <<argv, idx, value, touched, errno, walkVars>>

-----------------------------------------------------------------------------
(* What there is to walk over in an entry; numbers are printed. *)
ValuesIn(e) == CASE Type[e] = "LIST" -> value[e]
                 [] Type[e] = "STR"  -> <<value[e]>>
                 [] OTHER            -> <<[number |-> value[e]]>>

(* get_ptr_list_next() from an index on *)
ItemFrom(e, i) == IF i < Len(value[e]) THEN <<value[e][i + 1]>> ELSE << >>

(* Mutant: the index also counts the call that returns NULL. *)
IterateListPast(e) ==
  LET i == IF iter_buf[e] THEN cursor[e] ELSE 0 IN
  /\ answer' = ItemFrom(e, i)
  /\ cursor' = [cursor EXCEPT ![e] = i + 1]

(* Mutant: a walk goes on where the list was left. *)
IterateListOn(e) ==
  /\ answer' = ItemFrom(e, cursor[e])
  /\ cursor' = [cursor EXCEPT ![e] = IF @ < Len(value[e]) THEN @ + 1 ELSE @]

IterateList(e) ==
  LET i == IF iter_buf[e] THEN cursor[e] ELSE 0 IN
  /\ answer' = ItemFrom(e, i)
  /\ cursor' = [cursor EXCEPT ![e] = IF i < Len(value[e]) THEN i + 1 ELSE i]

(* iterate_config().  A walk ends with NULL, and the next call begins      *)
(* another one.                                                            *)
IterateConfig(e) ==
  /\ status = "configured" /\ Type[e] # "HELP"
  /\ \/ Type[e] = "LIST" /\ IterateList(e)
     \/ Type[e] # "LIST" /\ UNCHANGED cursor
        /\ answer' = IF iter_buf[e] THEN << >> ELSE ValuesIn(e)
  /\ iter_buf' = [iter_buf EXCEPT ![e] = answer' # << >>]
  /\ walked' = [walked EXCEPT ![e] = IF answer' = << >> THEN << >> ELSE @ \o answer']
  /\ UNCHANGED <<argv, parseVars>>

(* reset_config_list(); it leaves iter_buf alone. *)
ResetConfigList(e) ==
  /\ status = "configured"
  /\ \/ Type[e] = "LIST"
        /\ cursor' = [cursor EXCEPT ![e] = 0]
        /\ walked' = [walked EXCEPT ![e] = << >>]
     \/ Type[e] # "LIST" /\ UNCHANGED <<cursor, walked>>
  /\ UNCHANGED <<argv, parseVars, iter_buf, answer>>

(* destroy_config() walks over every list itself. *)
DestroyConfig ==
  /\ status = "configured"
  /\ status' = "destroyed"
  /\ cursor' = [e \in List |-> Len(value[e])]
  /\ UNCHANGED <<argv, idx, value, touched, errno, iter_buf, answer, walked>>

ParseStep ==
  \/ UnknownParameter \/ InputFile \/ Switch
  \/ AttachedParameter \/ SeparateParameter \/ CheckRequired

ConfigNext ==
  \/ ParseStep \/ DestroyConfig
  \/ \E e \in Entry : IterateConfig(e) \/ ResetConfigList(e)

ConfigSpec == ConfigInit /\ [][ConfigNext]_configureVars

-----------------------------------------------------------------------------
(* What a command line says, read as a whole.  An argument is the value of *)
(* the one before when that is an option without one, and not itself a     *)
(* value.                                                                  *)
IsValue[i \in Nat] ==
  i > 1 /\ i - 1 \in DOMAIN argv /\ ~IsValue[i - 1]
  /\ TakesValue(argv[i - 1]) /\ argv[i - 1].rest = EMPTY

Occurrences(o) == {i \in DOMAIN argv : argv[i].option = o /\ ~IsValue[i]}

ValueAt(i) == IF argv[i].rest = EMPTY THEN argv[i + 1] ELSE Plain(argv[i].rest)

LastOf(S) == CHOOSE i \in S : \A j \in S : j <= i

(* What the arguments at some places give, in the order of the places.     *)
ItemsAt(items) ==
  LET upto[n \in 0 .. Len(argv)] ==
        IF n = 0 THEN << >>
        ELSE upto[n - 1] \o IF n \in DOMAIN items THEN items[n] ELSE << >>
  IN  upto[Len(argv)]

Odd(S) == Cardinality(S) % 2 = 1

(* What an entry is after its option, or a file, at each of the places S.  *)
GivenAt(e, S) ==
  CASE e = "INFILES"                      -> ItemsAt([n \in S |-> <<argv[n]>>])
    [] e \in List \ {"INFILES"}           -> Default[e] \o ItemsAt([n \in S |-> ItemsIn(ValueAt(n))])
    [] Type[e] \in {"HELP", "BOOL"}       -> IF Odd(S) THEN 1 ELSE 0
    [] Type[e] = "NUM"                    -> IF S = {} THEN Default[e] ELSE Number[ValueAt(LastOf(S))]
    [] Type[e] = "STR"                    -> IF S = {} THEN Default[e] ELSE ValueAt(LastOf(S))

OptionOf(e) == IF e = "INFILES" THEN "none" ELSE e

Given(e) == GivenAt(e, Occurrences(OptionOf(e)))

(* The table holds what the command line says: for each option its last    *)
(* value or all its values in their order, however values are written and  *)
(* whatever stands around it, also where a value looks like an option; the *)
(* files are the arguments that are neither.                               *)
TableIsCommandLine ==
  status = "configured" => \A e \in Entry : value[e] = Given(e)

(* The program gives up over a command line only where something is wrong  *)
(* with it or help is asked for: an unknown option, one that may be given  *)
(* once given twice, or a zero for a number; it goes on only where neither *)
(* of the first two holds, until `touched' wraps at 128: an option that    *)
(* "can appear only once" (configure.c 60) is accepted then.  It crashes   *)
(* where the last value is missing, and nowhere else.                      *)
RefusedMeansMisuse ==
  LET n        == Len(argv)
      Times(e) == Cardinality(Occurrences(e))
      Missing  == n > 0 /\ IsValue[n + 1]
      Zero     == \E i \in Occurrences("VERBOSE") :
                    (i < n \/ ~Missing) /\ Number[ValueAt(i)] = 0
      Asked    == Occurrences("-?") # {} \/ Odd(Occurrences("HELP_FLAG"))
  IN  /\ status = "usage" => Asked \/ Zero \/ \E e \in Once : Times(e) > 1
      /\ status = "configured" => ~Asked /\ ~Missing /\ \A e \in Once : Times(e) \notin 2 .. 127
      /\ status = "no_argument" => Missing

(* A walk over an entry returns all its values in their order and then     *)
(* NULL, wherever a list was reset and whatever else was walked over in    *)
(* between.                                                                *)
WalksAreComplete ==
  [][\A e \in Entry : IterateConfig(e) =>
       IF answer' = << >> THEN walked[e] = ValuesIn(e)
       ELSE walked'[e] = SubSeq(ValuesIn(e), 1, Len(walked[e]) + 1)]_configureVars
=============================================================================
