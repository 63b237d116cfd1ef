# atlang, verified

TLA+ modules for the atlang interpreter (`src/src/`): a prompt that compiles
one expression at a time with a Pratt parser, appends the code to one code
block, and runs it on a stack machine; and for the containers it is built on.
TLC checks the modules on small instances; TLAPS proves the central facts about
the compiler, the machine, the scanner, the configuration, the buffers and the
hash table for every value of the constants, among them that the compiler accepts
exactly the language of its grammar and that its loops end. Source lines are given as `file.c:line`, all files are in
`src/src/`.

## 1. The system

| component | state | operations | interacts with |
|---|---|---|---|
| session (`atlang.c`) | none of its own | `repl`, the loop over INFILES in `main`, `interpret`, `uninit_things` | opens streams, resets the machine, compiles, runs, prints the top of the stack |
| scanner (`scanner.c`) | stack of open streams `top`, `file_flag`, `nest_depth`, token buffer, keyword table | `open_scanner_file`, `open_scanner_string`, `get_tok` and its readers, `str_to_token`, `close_input_file`, `destroy_scanner` | read by `advance()`; collects text in a character buffer |
| expression compiler (`compiler.c`, `expression.c`) | `parser` (two tokens, two flags), the C call stack | `compile`, `advance`, `consume`, `get_precedence` and the rule functions | calls the scanner, appends to the code block |
| code block (`codeblocks.c`) | list of 16-bit words, list of constants | `emit_*`, `add_constant`, `create_value`, `free_codeblock` | written by the compiler, read by the machine and the disassembler |
| virtual machine (`vmachine.c`) | value stack, `lastIp`, the values themselves | `reset_vmachine`, `run_vmachine`, `destroy_vmachine`, `conv_value`, `normalize_operands` | shares values with the constant list |
| objects (`object.c`) | string objects | creation, comparison, addition, conversion | called by the machine |
| disassembler (`disassembler.c`) | none | listing of the code block and of one instruction | dereferences constants |
| errors (`errors.c`) | counters | messages; `fatal_error` and `runtime_error` exit | called by all |
| containers (`ptrlist.c`, `u16list.c`, `chbuffer.c`, `hashtable.c`) | buffers with capacity and count | append, push, pop, lookup, iterate | used by all but the hash table, which nothing uses |
| configuration, files, memory, log | option values; none; a segment mask; a level | command line parsing; path lookup; `malloc` wrappers; output | used at start, not at all, everywhere, everywhere |

The process is single threaded. What is hard in it is not concurrency but state
that outlives a line: the value stack, the constant list that shares values with
it, the instruction pointer kept from run to run, the tag-and-union cells that
conversions change in place, and the stack of streams whose top is closed one
read late. Every input can be followed by any other, a rejected line leaves
these in states that no example in the repository exercises, and `interpret()`
runs code whether or not it compiled.

What makes each part correct:

* compiler: the code is the translation of the expression, accepted lines are
  exactly the expressions, operands come before operators, it always returns,
  an accepted line has read all its text;
* input stack: the stream that is read is the one that was opened last, only an
  ended stream is closed, the limit is on nesting;
* machine: it starts at the code of the line just compiled, never pops an empty
  stack for an accepted line, ends with one value, reads no freed value, frees
  each value once;
* values: an operation reads each operand through the union member stored last;
* scanner: every text is cut into the lexemes it consists of, with their text, no
  character is lost or read twice but where the code says so, a keyword is
  recognised, every text ends;
* buffers: a list, a text, a sequence of words, whatever the block behind it
  holds; writes stay in it, freeing succeeds;
* strings: the length they cache is not more than their text;
* configuration: the table holds what the command line says, only misuse is
  refused, a walk over an entry returns all of it;
* hash table: a dictionary, through collisions and doublings; a probe ends; a walk
  returns each key once.

## 2. Modules

```
Tokens ── CodeBlock ──┬── Compiler ─────────┬── Session ── MCSession
       ── InputStack ─┘     │   │           │
       ── Values ───────────┼───┼─ VMachine ┘
       ── CompilerReference ┼─ MCCompiler     │
       ── Grammar ──────────┘   │            │
            CompilerProofs (Compiler) ──┬─ CompilerLanguageProofs (with Grammar)
                                        └─ SessionProofs (with Session)

Characters ─┬─ Scanner ──────────┬─ MCScanner (with InputStack)
Keywords ───┘     │              │
   └─ MCKeywords  └─ ScannerProofs
                 ScannerReference ┘

ItemList ── PtrList ──────────┬─ MCLists
Memory ───┬─ CharBuffer ──────┤
CharText ─┘  U16List ─────────┤
             Objects ─────────┤
Configure ── MCConfigure ─────┘
   └─ ConfigureProofs
ListProofs (PtrList, U16List, Objects), CharBufferProofs

Dictionary ── HashTable ── HashWalk ──┬─ MCHashTable
                                      └─ HashTableProofs
```

**Tokens** has the vocabulary: token types, the three columns of `rules[]`
(`expression.c:23-98`) as `PrefixRule`, `InfixRule` and `RulePrec`, opcodes with
their numbers, value types. All tokens whose row is `{NULL, NULL, PREC_NONE}`
behave alike in the parser and are one, `SYMBOL_TOKEN`, except parentheses and
the two end tokens.

**CodeBlock** has the words and the types of the constants. `EmitConstant` is
`emit_*_value()` with `add_constant()`: the index is cut to the word
(`codeblocks.c:90`). The width is the constant `WordSize`.

**InputStack** is the scanner as the parser sees it. A stream is the sequence of
tokens its text scans to, `streams` the linked list from `top`. `GetTok` is
`get_tok()` with the part of `get_char()` that matters: the close that
`file_flag` defers. `advance()` drops `ERROR_TOKEN`s, which `GetTok` includes.
`nest_depth` is kept as the code keeps it.

**Scanner** is the layer below: `get_tok()` on characters. It is taken apart where
`get_char()` is called; `pc` says which loop reads the next character, `buffer` is
`scanner_buffer`, `tbuf` the small buffer of an escape with a number.
**Characters** has the classes of characters the code tells apart, one member for
each ("9" stands for 8 and 9), the tables of operators and of escapes.
`END_FILE` is a byte that a text may contain (`scanner.c:903`) and is a character
of the model; the other such byte, END_INPUT, is left out of the texts. The number
of an escape is the bytes it leaves in the string, each of them zero or not
(`NumberBytes`), because a zero ends the text of the token. Digits that fill `tbuf`
leave no zero behind them, and `strlen()` and `strtol()` read on in the stack frame
(`scanner.c:450-455`, `:480-486`, `:516-521`): the number is then any
(`OverrunBytes`). `Garbage`
is what the uninitialised `ch` of `eat_multi_line()` may be. REALLOC() fails for
texts longer than `MaxText`. `advance()`'s loop over errors is part of the
module, so that a behaviour goes from one token the parser sees to the next.

**Keywords** is `str_to_token()`, one comparison a step, on the table as it is
written in the source. A word is its rank in the order of `strcmp()`: keywords
have the odd ranks, the words between them the even ones.

**ScannerReference** says what a text consists of without scanning: the forms of
lexemes are predicates on strings, and the next lexeme is the longest stretch
that has a form. It is recursive and used by TLC only. `ImplementsInputStack`
closes the gap between the two layers: what `Scanner` returns is a step of
`InputStack!GetTok` on the token streams that the reference makes of the texts.
Where the comments of `scanner.c` contradict its code (section 6: consecutive strings,
and escapes with one digit more than the comment allows), a string of the
reference is `disputed`, and the two properties that compare with it say nothing
of its text.

**Compiler** makes the recursion of `expression.c` explicit. `frames` is the C
call stack; an element says in which function, and where, an activation waits.
One action runs from one call of a parse function to the next: for instance
`Infix` is a turn of the loop in `get_precedence()` with `abinary()` or
`cbinary()` up to the call for the right operand, and `BinaryEnd` is the rest of
that function. `phase` is where `interpret()` is. The variables `start`,
`source` and `depth` are history: no guard reads them.

**CompilerReference** states the language without the algorithm: an expression
is split at its weakest binary operator outside parentheses, the last among
equals, and its translation is that of the left part, of the right part, and the
operator. It is recursive and used by TLC only.

**Grammar** states it once more, without recursion, so that it can be proved about:
one rule for each function of `expression.c` that parses, a rule being what it
makes of sentences already there. A sentence is a level, a text and the words of
its code, and the language is the smallest set that is closed under the rules.
`GrammarIsReference`, an assumption that TLC evaluates in `MCCompiler`, compares
the two on every line of up to five tokens.

**Values** has the cells. A cell is its tag (`type`) and the union member stored
last (`rep`), because `conv_value()` stores `fnum` and `bval` without the tag
(`vmachine.c:140`, `:157`), and overwrites the tag before `conv_obj_to_val()`
tests it (`vmachine.c:103`, `object.c:264`). One operator per type on the left
gives `normalize_operands()`.

**VMachine** has one action per opcode. Values are identified by the order of
allocation, and freed ones stay known as freed, so a late use or second free is
seen whatever the allocator does. `TraceFaults` is there because the build
defines `DEBUG_TRACE_EXECUTION` (`common.h:4-5`): each instruction first prints
the stack and its constant.

**Session** composes compiler and machine as `atlang.c` does. Actions: `ReadInput`
(a line, or the next of INFILES), `Interpret` (`reset_vmachine()` and the start of
`compile()`), `CompileStep`, `ListingFaults` (the disassembly at the end of
`compile()` may crash on a freed constant), `Run`, `PrintAnswer`, `Quit`.

**ItemList** and **PtrList** are what `ptrlist.h` promises and what `ptrlist.c`
does. The buffer is a function on its indices; a doubled one has undefined cells
(`Junk`), a popped item stays where it was. The list is the cells before `nitems`
(the refinement mapping), the cursor is `index`. It is the value stack and the
constant list of the modules above, which use it as a sequence.

**CharText** and **CharBuffer** do the same for `chbuffer.c`. A string or a number is
added byte by byte: `pending` is what a call has still to store, `StoreByte` is
`add_char_buffer()`. The text maps to the bytes before `length` and those
pending, so a call that is under way is complete for the abstraction.
**Memory** has what `FREE()` refuses: a block of `MappedSize` bytes or more is
mapped away from the heap. **U16List** is `u16list.c` with a history of what was
appended.

**Objects** is the strings of `object.c`: a text and the length cached with it.
Literals, and values turned into strings, come onto a stack of their own, are
added and compared. `sum` is history.

**Configure** is `configure.c` with the table of `atlang.c:16-23`, whose entries it
names. A text is the option it begins with and what follows; what number it is, whether
that is in the range of a long, and which pieces its colons make of it are
constants (`Number`, `OutOfRange`, `Pieces`, `LeadingColon`). A value is split at its colons and
read as a number whatever it begins with. One action is a
turn of the loop over `argv`; `Parameter` is the part common to the value behind an
option and the value in the next argument. `errno` is whether it is set, from
whatever call. `touched` is a char, as in `configure.h:26`. `IterateConfig`, `ResetConfigList` and `DestroyConfig` follow.

**Dictionary** and **HashTable** are what `hashtable.h` promises and what
`hashtable.c` does. `insert_hash()` is four actions, because the invariants must
hold inside `grow_table()` too: `InsertCall` decides about growth, `MoveEntry` is one
turn of the copying loop, `SwapTables` ends it, `Place` stores the entry.
`FindSlot` is the slot after the fewest steps at which the loop of `find_slot()`
can return. `count` is not assigned by `create_hash_table()` (`hashtable.c:112-121`)
and starts as any element of `Garbage`. The entries map to the dictionary; the
doubling is invisible in it. `CopyFails` and one alternative of `InsertCall` are
the ends of the process for lack of memory.

**HashWalk** extends HashTable by `iterate_hash_table()`: its static index, calls for other tables,
and as history the keys returned and what else was called since the last reset.

The modules with **MC** before the name define the inputs for TLC.

Definitions that begin with the comment "Mutant" are deliberately wrong variants
of the definition that follows them. No specification uses them; each shows that
a property can fail if the code had that error.

## 3. Runs

| run | instance | shows |
|---|---|---|
| `compiler` | one line: every sequence of up to 5 of 6 tokens, every sequence of up to 3 of all tokens, operator chains of 4 operands, nested operands; three inputs of 9, prompt or files, word size 18, nesting limit 2 | accepts exactly the reference language, emits its translation until the index wraps, balances operands, an accepted line drained its input whatever earlier lines left, returns |
| `session` | three inputs of 21, prompt or files, then the end; every operation on operands of every pair of types, also on results and negations | stack, `lastIp`, ownership of values, what each operand's union holds, answer to every input |
| `scanner` | every text of up to 3 to 5 characters over the alphabets of each kind of token, every keyword in order, escapes with numbers up to one digit more than fit; up to 3 streams opened one above the other | tokens are the reference's lexemes with their text, the buffer is a stretch of the input, only the stream on top is read, streams close as `InputStack` says, returns |
| `hash_map` | 4 keys that collide and wrap around, 2 data; 9 keys; walks over 3 keys, up to 16 slots, other tables that leave the index at 2 places; 5 starting counts, up to 64 slots | answers are those of a dictionary, a probed table has a slot without a key, insertions return, an undisturbed walk returns each key once |
| `lists` | 2 pointers, up to 9 of them; 2 bytes, strings of 5, numbers, up to 8 bytes; 2 words, up to 8 of them; strings of up to 2 letters, up to 3 on the stack; every command line of up to 4 arguments of 16, walks after those of up to 2 | the buffers answer as a list, a text, a sequence of words; comparing strings stays in their text; the configuration table is the command line, only misuse is refused, walks over its lists are complete |
| `double_free`, `stale_close`, `nesting`, `normalize`, `keywords`, `strings`, `free_refused` | smallest instances | disagreements with the repository's own statements, section 6 |

Why the bounds are enough:

* five tokens over a constant, a prefix-and-infix operator, one operator of each
  neighbouring precedence and both parentheses make every sequence of two
  actions of the parser possible at each place of the call stack; chains of four
  operands over four precedence levels show all associativity and precedence
  decisions between three operators; all tokens appear in all lines of three;
* three inputs: one that leaves something behind, one that meets it, and one that
  meets what that leaves. The closed-unread behaviour needs exactly three;
* `WordSize` is 65536 in `session` and 18 in `compiler`: 18, the least the opcodes permit,
  makes two lines of nine constants fill the index range exactly and a third
  line pass it. `CompilesToReference` is stated up to the last index that fits.
  Beyond it an instruction names an old constant; that the word is still one is all
  the type invariant says of it;
* the nesting limit is 2 in `compiler`, so that it is met with three files, and the
  real 15 in the session runs;
* in `hash_map` three keys have their home in the last slot of a table of 8 and run
  over its end into the home of the fourth; in a table of 16 they part. `count` starts
  at zero, at values just below a doubling, at one that doubles at every insertion,
  and at the last ones before it wraps (`SizeModulus` is 64, not 2^64). The nine
  other keys are more than the first table has slots, so that growth is
  what keeps a slot free. `MaxCapacity` is where `CALLOC()` fails. A behaviour is about
  the first keys, the many keys, or walks (`menu`);
* nine items in `lists` pass the first doubling of the pointers, at seven, by two;
  the eight bytes and words pass those of the other buffers, a string of five
  while it is being added. In `free_refused` the second block of a character
  buffer is already mapped (`MappedSize` 16 in place of 131072). Three strings make
  sums on either side of a comparison, and sums of sums, of texts that are
  beginnings of one another;
* in `scanner`, three characters after an opening one reach each loop, its end at
  another character and its end at the end of the text; `MaxText` 18 is more than
  the longest text collects, so that only a loop that does not end meets it. The
  four keywords whose entries are out of order are left to `keywords`;
* of command lines, four arguments hold two options with separate values, one
  option that swallows another, and repetitions. The arguments are the options alone
  and with an attached value, among these a list with a colon between its items and
  one that begins with a colon, and, alone and behind a dash, a number and one
  out of range: an option may take each of them for its value;
* the counter bounds are `MaxInputs` (inputs), `MaxItems`, `MaxLength` and `MaxWords`
  (contents of the buffers), `MaxStrings` and `MaxText` of Objects (strings on the
  stack, length of a sum), `MaxStreams` (streams opened above each other) and
  `IndexBound` (calls past the end of a walk). `CHECK_DEADLOCK FALSE` stands in every
  configuration because the program stops when the user quits, the prompt may
  wait for ever, a container is destroyed, and a command line is read once.

Fairness. `Fairness` and `SessionFairness` are weak fairness of the actions of the
program between two inputs. The process is sequential and these actions wait for
nothing, so as long as one is enabled it is taken. Nothing is assumed about the
user: `Open` and `Quit` have no fairness. `CompileReturns` says that every compile
ends, `EveryInputIsAnswered` that every input ends in a printed value or in the
end of the process. `HashFairness` is weak fairness of the steps inside
`insert_hash()`, which wait for nothing either; calls have none. `InsertReturns`
says that every insertion returns or ends the process. In `Scanner` the fairness is
that of `ScanStep`, the steps inside a call: reading from a file or a line does
not wait. `GetTokReturns` says that a call returns, or ends the process for a
string that nothing closes, or is in a comment that nothing closes, where the
code reads for ever. `Configure` has no liveness property: each turn of its loop
consumes an argument.

## 4. Properties

Compiler: `TypeOK`, `AcceptedCodeYieldsOneValue`, `OperatorsFindOperands`,
`AcceptedDrainsInput`, `CompilesToReference`, `CompileReturns`.

Session: `SessionTypeOK`, `UnderflowOnlyAfterSyntaxError`, `AnswerIsWholeStack`,
`RunStartsAtNewCode`, `RunUsesLiveValues`, `OnlyBareConstantsAreShared`,
`EveryInputIsAnswered`, `ObjectOperationsGetObjects`, `LeftOperandIsNormalized`.

Scanner: `ScanTypeOK`, `ImplementsInputStack`, `TokensCarryTheirText`,
`EndsOnlyForOpenString`, `SearchIsRight`, `OnlyTopIsRead`, `BufferIsInput`,
`GetTokReturns`.

Configuration: `ConfigTypeOK`, `TableIsCommandLine`, `RefusedMeansMisuse`,
`WalksAreComplete`.

Strings: `ComparisonStaysInText`, `EnteredStringsCompareByText`.

Containers: `ListTypeOK`, `ImplementsList`, `BufferTypeOK`, `ImplementsText`,
`WordsAreReadBack`, `HashTypeOK`, `ProbingEnds`,
`ImplementsDictionary`, `InsertReturns`, `UndisturbedWalkIsComplete`.

Each is stated in words where it is defined. `UnderflowOnlyAfterSyntaxError` and
`AnswerIsWholeStack` tie the two halves together: the count that the compiler
keeps as history (`depth`) is what the machine finds on its stack.

## 5. Proofs

`CompilerProofs` holds, for every set of lines, word size
above the opcodes, nesting limit and number of inputs (the named assumptions of
the modules):

* `TypeCorrect`: `Spec => []TypeOK`;
* `StackDiscipline`: `Spec => []AcceptedCodeYieldsOneValue`;
* `OperandsThere`: `Spec => OperatorsFindOperands`;
* `InputDrained`: `Spec => []AcceptedDrainsInput`;
* `ParsingTerminates`: `Spec => ParseAdvances`, every step of the parser lowers the number
  `StepsLeft`;
* `InfixAlwaysThere`: `Spec => []InfixIsThere`, the loop of `get_precedence()` never calls an
  empty entry of the infix column (`expression.c:210` does not test for one).

The first three rest on `IndInv == TypeOK /\ StackInv`. That an accepted line
leaves one value says nothing about the middle of a compilation, so it is not
inductive. `StackInv` counts: each activation of `binary` on the call stack waits
with its left operand on the value stack, and an activation on top that is not an
entry of `get_precedence()` has just been returned to, so one more value is
there. The lemmas `OperandsAppend`, `OperandsReturn`, `CallStackCall` and
`CallStackReturn` say what a call and a return do to that count, and
`NextIndInv` has one step per action. The count holds only while no error was
met, since `PrefixMissing` returns without an operand.

`InputDrained` needs a second invariant, `DrainInv`: before `compile()` asks for
END_OF_FILE, and without an error, only tokens that have a rule were passed, so
the parser is still in the stream it started in, and `file_flag` is set exactly
when it is at its end. `consume()` then closes that stream, and END_OF_INPUT
follows only if there was no other.

`StepsLeft` is the number of tokens still unread in all open streams, six times,
and of the calls still to return, twice: passing a token pushes two frames at
most, and every step that passes none, as where `consume()` fails, ends a function.
`InfixAlwaysThere` rests on the call stack alone: every activation of
`get_precedence()` on it has a level of at least PREC_ASSIGNMENT (`Preceded`), and the
rows of `rules[]` with such a level have an infix rule.

`CompilerLanguageProofs` proves `CompiledIsTranslation`: an accepted line is an
expression of `Grammar`, and the words appended are the ones that the grammar
gives for its whole text, for every set of lines and every depth of nesting, up
to the last index of a constant that fits. The invariant, `LanguageInv`, says what
each activation on the call stack has read and emitted: there is a way to cut the
text read so far, and the code of the line, into one piece per activation, such that
a `binary` frame has the derived left operand and its operator, a `grouping` the
parenthesis, a `unary` its operator, and the loop of `get_precedence()` a sentence
of at least its level. Each action extends the top piece or joins it to the
one below by a rule of the grammar. `DrainInv` is needed for the end: that what
was read then is the whole line.

The other direction is `SentencesAccepted`: a line that is a sentence of the grammar
gets no error, if no earlier line left its stream open below it. Its invariant,
`AcceptInv`, looks forward where `LanguageInv` looks back: from the call stack and what is
still to be read, `compile()` gets through without an error (`Passes`: the pair is in a
set of pairs, each of which is at the end or has a move to another of the set). That
the sentences pass is shown rule by rule of the grammar, for a sentence of any level
before any rest (`Parsable`); the least set closed under the rules is within those.
There the levels matter: an operator at which the loop of `get_precedence()` stops is
one that the loop of a caller takes. `CompilerAcceptsLanguage` puts
the two together: while the constants fit in a code word, `hadError` is false exactly
for a line that is a sentence, with no stream open below it.

`HashTableProofs`, for every set of keys and data, every hash function, every
`size_t` and every memory limit:

* `HashTypeCorrect`: `HashSpec => []HashTypeOK`;
* `ProbingAlwaysEnds`: `HashSpec => []ProbingEnds`;
* `HashTableImplements`: `HashSpec => ImplementsDictionary`.

The invariant `HashInv` has three parts besides the types. `WellFormed`: no key is
stored twice, and on the way from the home of a stored key to its slot no slot is
empty. This is what makes `find_slot()` find a stored key (`FindSlotStored`), and
it is not visible in any single answer. `LoadInv`: how many slots are used,
whatever `count` started as. `count` is too large until it wraps around,
and doubles the table early; from then on it is too small, by at most a quarter of
the capacity, because the table has been doubled at each insertion before. The
test for growth at three quarters, which looks two ahead, then still leaves a
slot. `GrowInv`: the new table holds exactly the entries
that were passed. `PutWellFormed` is the lemma that storing at the slot found keeps
a table well-formed; `PlaceInv` and `MoveEntryInv` both use it. The refinement
follows with `ContentsOf` of a well-formed table (`LookUp`, `SameContents`).

In the same module, for every table and wherever other walks leave the index:
`UndisturbedWalksAreComplete` (`WalkSpec => []UndisturbedWalkIsComplete`). The
invariant, `WalkInv`, adds to `HashInv` the type of the walk (`WalkTypeOK`) and that the keys returned are those of the slots up to `ht_index`, unless
something was called that disturbs the walk. That a new key was not returned
before follows from `WellFormed`: no key is in two slots.

`ListProofs`, for every set of items and lists of any length: `ListTypeCorrect`
(`ListSpec => []ListTypeOK`) and `PtrListImplements` (`ListSpec => ImplementsList`).
The invariant adds to the types that the cells before `nitems` hold items. For the
list of words `WordListTypeCorrect` and `WordsReadBack`; there it adds that the words
before `nitems` are those appended, which `WordsReadBack` turns into: a lookup inside the
list returns the word that was appended there. For the strings of Objects, over any set of
characters, `ComparisonsStayInside` and `EnteredStringsCompare`: a cached length
is never more than the length of the text, and for a string that is no sum it is
that length.

`ScannerProofs`, for every table of keywords, sorted or not: `SearchAlwaysRight`
(`KeywordSpec => []SearchIsRight`) and `SearchTypeCorrect`. The invariant says of an
entry that is in order (all entries before it less, all after it greater, or the
same) that while its word is searched it stays between `first` and `last`.
So two misplaced entries cost these two words and no other. For every set of texts,
any number of streams and every `MaxText`, of `ScannerSpec`:

* `ScannerTypeCorrect`: `[]ScanTypeOK`, which bounds the digits of an escape by the size
  of the buffer of its base on the C stack, 9, 4 or 11: none is stored behind it.
  That the last one leaves no zero, and what that means for the functions
  that read the digits, is in the model and no part of this;
* `WordSearchIsRight`: `[]SearchIsRight`, for the calls that `read_word()` makes;
* `ReadsOnlyTop`: `[]OnlyTopIsRead`, the deferred close is done once in a call and
  nothing below the stream on top is touched;
* `LexemesAreInput`: `[]BufferIsInput`, the text of a word or number is a stretch of
  the input, with no character lost or taken twice.

* `ScanningComesToItsEnd`: `ScanningAdvances`, every step of a call lowers the number
  `Effort`, but in a comment that nothing closes;
* `MemoryLastsForTheText`: `MemoryIsEnough`, the process ends in the scanner only for a
  text longer than `MaxText` or a string that nothing closes;
* `TokensHaveTheirForm`: `[]TokensAreWhatTheySay`, the text of an integer, hexadecimal,
  octal or float token, or of a symbol, has the form of its type, and a symbol is no
  keyword whose entry is in order;
* `LexemesEndWhereTheyMust`: `LexemesAreLongest`, the character behind a number would make
  it no number of any kind, the one behind a symbol is in no word.

The scanner has some forty steps, but all of them read a character, put one
back or touch neither stream nor flag (`TouchesTop`), and treat the buffer in one of
five ways (`Shape`); the invariants are preserved by those few, and each action is
shown to be one of them. `BufferIsInput` alone is not inductive: `LexemeInv` adds that
the buffer is empty where no lexeme was begun.

The other four look at the steps in three more ways. `Course`: a step takes a character,
falls to a place of a lower rank without one, or fills the buffer with the same
character again at the end of a text, which is how an open string uses up the
memory. `Effort` counts the characters left, then the room for an open string,
then the rank and what the search has left; `Within` bounds the buffer, and the bytes
that an escape may still add to it (`Due`), by what was read of the text. `Treatment`: a step passes over, adds one character to a lexeme, asks for
the search, or yields a token; `FormInv` says for every place what form the
buffer has there, for instance that "exponent" is reached with digits, a point,
digits and an "e". `AfterWord` keeps, while the search goes on, that the character behind
the word was not one of a word.

The one hypothesis of these theorems is `RankIsNumber`: the place of a word among the
keywords, in the order of `strcmp()`, is a number, whatever the word is. `Rank` is an
operator and the words are infinitely many, so that TLC could not evaluate this as
an ASSUME. The last two also need `KeywordsAreWords`, that the table has no entry for a
number or SYMBOL_TOKEN; `MCScanner` has TLC evaluate it for the table of the source.

`ConfigureProofs`, for command lines of any length, any words, and any defaults of the
right types (`ConfigureAssumption`, which TLC evaluates): `ConfigurationTypeCorrect`,
`TableSaysCommandLine`, `RefusalsAreRight` and `WalksReturnEverything`, the four
properties of the run `lists` about it. The properties read the command line as a whole, the code
one argument after the other. `ReadInv` joins them: before each turn, the table is what
the arguments before `idx` say (`TableAt`), and `argv[idx]` is not a value of the argument
before it. Whether an argument is a value is defined by recursion along the
line, and so are the items of a list; the module therefore has an induction over
the numbers for a set of them (`SetInduction`, from the well-foundedness of `<`), and
what it needs to know of the two recursive functions follows from that
(`IsValueFacts`, `ItemsAtIsGathered`). `WalkInv` says where each walk is: it has returned
what the list holds before its index. The proof of `RefusalsAreRight` failed at first: a
repeated option need not be refused, because `touched` wraps. The property now
states the limit.

`CharBufferProofs`: `BufferTypeCorrect` and `CharBufferImplements` (`BufferSpec =>
ImplementsText`), for every set of bytes, strings and numbers and every length. The type invariant is already inductive
in what matters, that a cell for the zero is left; the refinement needs one
lemma per operation about the bytes before `length` after it. The assumptions
about the constants of U16List and CharBuffer are hypotheses of the theorems, and
`MCLists` has TLC check them for its instances.

`SessionProofs`, for every set of lines, any number of inputs and the same assumptions
as `CompilerProofs`:

* `SessionTypeCorrect`: `SessionSpec => []SessionTypeOK`;
* `RunsNewCode`: `SessionSpec => []RunStartsAtNewCode`;
* `NoUnderflow`: `SessionSpec => []UnderflowOnlyAfterSyntaxError`;
* `AnswerIsAll`: `SessionSpec => []AnswerIsWholeStack`;
* `SharedMeansBare`: `SessionSpec => []OnlyBareConstantsAreShared`;
* `LiveValuesOnly`, `ObjectsForObjects`, `LeftIsNormalized`: `RunUsesLiveValues`,
  `ObjectOperationsGetObjects` and `LeftOperandIsNormalized` in every state with
  `Len(constants) <= WordSize`. Beyond that the index of a constant wraps
  (`codeblocks.c:90`), an instruction names a constant of an earlier line, which may
  have been freed, and the three are not true any more;
* `FetchesStayInside`: `SessionSpec => []FetchesInside`, every word that is fetched is code
  of the current line, every index in it that of a constant, also after a syntax
  error; `run_vmachine()` compares neither with anything;
* `AnswersComeCloser`: `SessionSpec => LinesAdvance`, every step on a line leaves it in a
  later stage, or in the same one with less to do (`StepsLeft` in the compiler, the
  code behind `ip` in the machine), until it is answered.

What the machine does depends on the code, and `StackInv` says nothing about the
code. The invariant reads it back: there is a set `B` of offsets at which an
instruction of the current line begins, and a function `D` that gives how many values
are on the stack before each (`Decoded`). `ParseStepEffect` says what a step of
`expression.c` appends, `DecodedExtends` that `B` and `D` can be extended by it. While
the machine runs, `ip` is in `B` and the stack has `D[ip]` values, as long as no
error was met (`RunPart`); an instruction that needs operands is at an offset with
enough of them. Without an error no offset after the first has less than one,
which is why a constant that is pushed on an empty stack is the first instruction
(`BarePart`). `LivePart` follows the values: constants still to be pushed and
values on the stack are different cells that were not freed, so that converting an
operand in its cell changes no other. `B` and `D` are no variables: the invariant
is `\E B, D : ...`, and each lemma names the ones of the next state.

Only model-checked:

* `CompilesToReference`, `TokensCarryTheirText`, `EndsOnlyForOpenString` and
  `ImplementsInputStack`: they compare with a reference that is written with RECURSIVE
  operators, of which the provers have no definition. `CompiledIsTranslation` and
  `CompilerAcceptsLanguage` prove of the grammar what `CompilesToReference` says of the
  reference. Of what `TokensCarryTheirText` says, the theorems about forms and longest
  lexemes have the numbers and symbols, `MemoryLastsForTheText` has the half of
  `EndsOnlyForOpenString` that needs no reference;
* the liveness properties `CompileReturns`, `EveryInputIsAnswered`, `InsertReturns`
  and `GetTokReturns`: TLAPS does not prove liveness under fairness. For three of them
  the hard part is proved, that the steps cannot go on for ever (`ParsingTerminates`,
  `AnswersComeCloser`, `ScanningComesToItsEnd`); that one of them is always
  enabled until then, and is taken, is what TLC checks.

`BufferTypeOK` of `MCLists` is the type invariants of CharBuffer and of U16List at the
instances of that module; `BufferTypeCorrect` and `WordListTypeCorrect` prove them
for every value of the constants.

## 6. Disagreements found

* `double_free`: a session whose last line is a bare number frees its value twice
  (`vmachine.c:47-53`). `docs/todo.txt:23-24` calls this done; line 28 lists it as
  open.
* `stale_close`: after an input with unread text the deferred close
  (`scanner.c:130-133`) can hit a stream that was just opened, which is then never
  read, contrary to `scanner.c:97-98` and `:1011-1013`.
* `nesting`: `nest_depth` is never decremented (`scanner.c:1019`), so the sixteenth
  file ends the program with "Maximum file nesting depth exceeded." although none
  is nested.
* `keywords`: `gt` and `lt` are not found, because `gte` and `lte` stand before them in
  a table that "must be in sorted order" (`scanner.c:39`, `:65-66`, `:72-73`), and
  become symbols.
* `free_refused`: `memory_free()` (`memory.c:70`) takes a block that `malloc()` mapped
  away from the heap for one "that was not allocated" and ends the process. With
  the GNU C library's threshold of 131072 bytes it takes a token of 65534 characters.
* `strings`: two strings with only blanks between them are two tokens, where
  `scanner.c:557-560` and `:595-598` say they are one string.
* `normalize`: operands are not always converted to the same type
  (`vmachine.c:260-292`, `:245-258`) as `vmachine.c:189-193` says.

More things show in the modules, and no run singles them out. The comment of
`get_u16_list_by_index()` promises NULL outside the list (`u16list.c:67-71`), the code
returns the last word; `GetWord` does that, and `WordsAreReadBack` is about lookups
inside the list. The comments give an escape a number of at most 8, 3 or 10 digits
(`scanner.c:438`, `:468`, `:497`), the loops take 9, 4 and 11 characters (`:442`, `:472`,
`:508`), after which nothing in `tbuf` ends the number; `NumberEscape` goes on with any
number, and the properties about the text of tokens leave such strings out. Escapes with
a number lose the character behind it (`scanner.c:442-448`) and decimal ones their
first digit (`:501-514`); the reference has both. An option that "can appear only
once" (`configure.c:60`) is accepted when it is given 128 to 257 times, because `touched` is a
char (`configure.h:26`) and less than 2 then (`configure.c:59`); `RefusedMeansMisuse` names the
limit, which takes a longer command line than the run has. `-v` with a zero is refused if
`errno` was set before (`configure.c:182`), `-h` twice cancels itself (`:229`), and an
option without its value as the last argument uses `argv[argc]` (`:177-178`). The `count` of a new
hash table is undefined (`hashtable.c:116`), so a table can be doubled without
needing it (`hashtable.c:69`); `HashInit` has every start, and `ProbingEnds` and
`ImplementsDictionary` hold for all of them. The index of `iterate_hash_table()` is
static (`hashtable.c:239`), so walks over two tables disturb each other;
`IterateOther` does that, and `UndisturbedWalkIsComplete` is about walks without it.
A sum of strings keeps the length of its left operand (`object.c:136-137`), so that
`"a" + "b" == "a"` is true and `"a" + "b" == "ab"` is false;
`EnteredStringsCompareByText` is about strings that are no sums.

## 7. What is not modelled

* Numbers: which of two values is larger decides nothing about control. Division by
  zero is a possible crash of every integer division.
* The text of strings outside Objects, and the regular expressions that validate a
  text before it becomes a number: a text is valid or it is not (Values).
* Characters above the scanner: in the compiler and session modules a stream is given
  as tokens. A stream that can never end in the
  scanner (unterminated string or comment) is not a line of these modules.
* Line and column numbers; `expect_tok()` and `expect_tok_array()`, which nothing
  calls and which change no state but through `get_tok()`. Of
  the value of a numeric escape, which of its bytes are zero is told apart, and no more.
* The text of `show_use()`, `get_config()`, which only reads, and which program name
  is shown.
* The line buffer that `repl()` frees while a stream over it may still be open:
  the C library has read lines shorter than its own buffer by then.
* The content of a printed cell, and messages. Leaks: tokens, operands popped by
  the machine and objects of overwritten cells are never freed, which the
  repository accepts (`memory.c:7-11`).
* The disassembly as text; what it dereferences is `ListingFaults`.
* Hash tables of more than 2^31 - 1 slots: the loops over a table count in an int and
  cast its capacity to one (`hashtable.c:85`, `:134`, `:244`). `SizeAssumption` says that `CALLOC()`
  refuses them, so that the cast changes nothing; a table that large would take
  tens of gigabytes.
* The size of data in a hash table and the copying of keys: an entry holds a value.
  Two keys that are equal strings are one key.
* Components marked `not_modelled` in PROJECT.json, with the reasons.

## 8. Plan

Done: Tokens, CodeBlock, InputStack, Compiler with two references, Values, VMachine,
Session; ItemList, PtrList, Dictionary, HashTable, HashWalk; Scanner with Keywords,
Characters and reference, CharBuffer, U16List and Memory, Configure, Objects; proofs
about all of them but Memory and the recursive references. What could follow:

1. A lexical grammar in place of ScannerReference, closed under rules like
   Grammar, so that all tokens of the scanner can be proved and not only
   checked. Numbers and symbols are; strings, operators and what is skipped
   between two tokens are left.
2. `Prompt`: the promise to the user (each line is answered, diagnosed, or ends
   the program) as an abstract specification that `Session` implements.
