# A formal model of minsc

minsc is a calculator with variables that reads lines from a terminal: a lexer, a
parser, a binder and an evaluator in C, and a loop around them. This directory
holds TLA+ modules for all of these parts, TLC configurations that check them on
small instances, and proofs that TLAPS checks for instances of any size.

`L` below stands for `src/modules/minsc-language/src/code_analysis`.

## 1. The system

One process, one thread, no callbacks. The parts call each other in one order and
hand data on by pointer:

    linenoise -> main.c --text--> source_text.c --lines--.
                   |                                     |
                   |            lexer.c --tokens--> parser.c --SyntaxTree-->
                   |                                     |   compilation.c
                   |                                     |     binder.c --BoundExpression-->
                   |                                     |     evaluator.c <--> VariableMap
                   '<--- value or reports ---------------'

| Part | State it keeps | Operations |
| --- | --- | --- |
| source text (`L/text/source_text.c`) | text, `TextLineBuf` | split into lines; line of a position |
| lexer (`L/syntax/lexer.c`, `deps/str/src/strtox.c`) | position, diagnostics | next token, digits to `int64_t` |
| parser (`L/syntax/parser.c`) | tokens, position, diagnostics, the C stack, the nodes | one `parse_*` per production, `match_token` |
| syntax facts (`L/syntax/syntax_facts.c`) | none | precedences, spellings, keywords |
| binder (`L/binding/`) | scope, diagnostics, the C stack, the bound nodes | one `bind_*` per node kind, declare, look up |
| evaluator (`L/evaluator.c`, `runtime/`) | the C stack, live Objects, `VariableMap` | one `evaluate_*` per bound node, define, get |
| compilation (`L/compilation.c`) | the syntax tree | bind, concatenate reports, evaluate or not |
| REPL (`minsc-compiler/src/main.c`) | text builder, `show_tree`, the `VariableMap` | read a line, meta-commands, continue, answer, exit |
| report printing (`main.c`) | none | line, column, prefix, error and suffix of a report |
| tree printing (`L/syntax/syntax_node.c`) | the C stack | draw a tree with its branches |
| buf (`deps/buf`) | pointer, length, capacity, whether it is a view | push, pop, view, hand on, concatenate, free |
| arena (`deps/arena`) | the regions, the backend's heap | new, alloc, free |
| varycase, file (`deps/varycase`, `deps/file`) | the disk, shared by the commands of a build | slurp, make directories, parse, write |
| minsc-test | the stack of `flatten` | texts for the lexer and the parser, and what they must give |

Every part above keeps its lists in a `buf`. `arena` is a library of its own that no other part links.
`varycase` is a program that `cmake/VaryCase.cmake` runs once for each `.inc` file, and a parallel
build runs several at once: the one place where processes meet.

What is hard about minsc itself is not concurrency. It is

* **manual memory along recursive descent**: every node, symbol and Object has one
  owner, and every error path has to free or hand on what it holds;
* **error recovery that goes on**: the parser makes tokens up, the binder makes types
  up, and one test of one bag (`compilation.c:36`) keeps all of it from the evaluator;
* **two lives of a variable**: scopes last for a submission, values for a session;
* **boundaries**: unsigned arithmetic that wraps around in the search for a line, `int64_t`
  overflow, divisions without a quotient, the end of the token buffer;
* **addresses that move**: `realloc` moves an array that is being viewed, handed on or copied from;
* **the sequence of lines**: complete, unfinished, wrong and blank lines and commands come
  in any order, and the input may end at any of them.

`PROJECT.json` lists these as hazards, each at its line with the properties that cover it.

## 2. The modules

| Module | Models | State and actions |
| --- | --- | --- |
| `SyntaxFacts` | `syntax_facts.c`, `syntax_kind.inc` | operators only |
| `Objects` | `object.c`, arithmetic of `evaluator.c` | operators only: values of `IntWidth` bits, wrap-around, traps |
| `Parser` | `parser.c` | `stack` is the C call stack, one frame per `parse_*` call that waits; `nodes` is the heap, a pointer is an index; one action per production up to its first recursive call, and one per return |
| `ParserProperties` | | what its trees must be, with the language as a grammar, and the invariant of the trees |
| `SequenceOperators` | | the library of sequences, under the name `Seqs` |
| `SequenceLemmas` | | lemmas on sequences that all the proofs use |
| `ParserProofs` | | theorems about `Parser` and its trees |
| `BoundTree` | `bound_*.c`, `variable_symbol.c` | `heap` of bound nodes and symbols, `freed`; the operator tables |
| `Binder` | `binder.c`, `bound_scope.c` | as `Parser`: `binder` runs, `binder_stack` waits |
| `Evaluator` | `evaluator.c`, `variable_map.c`, `object.c` | `objects` are the live Objects by pointer, `variables` the map; every dup, unwrap and free is in the action of its caller |
| `Compilation` | `compilation.c`, the printing of `main.c` | composes `Binder` and `Evaluator` over a session of submissions |
| `CompilationProperties` | | ownership, typing rules, meaning of a submission, the mapping to `Session` |
| `Session` | | the abstract specification: a submission is refused or carried out in one step; no code in it |
| `Repl` | `main.c`, `string_builder.c`, `syntax_tree.c` | composes `Parser` (by INSTANCE, over variables of its own) and `Compilation` |
| `SourceText` | `source_text.c`, `text_line.h` | one action per turn of each loop |
| `Lexer` | `lexer.c`, `strtox.c` | one action per branch of `lexer_next_token` |
| `Reporting` | reports in `main.c` | composes `SourceText` and `Lexer`; prints any report there could be |
| `ReportingProofs` | | theorems about `SourceText`, `Lexer` and `Reporting` |
| `LexerTests` | `minsc-test`'s `lexer.c` | operators only: the tests' tokens, pairs and separators, on the texts `Lexer` has read |
| `TreePrinting` | `syntax_node_pretty_print`, `flatten` of `asserting_iterator.c` | operators only: the two walks over a finished tree of `Parser` |
| `ParserTests` | `minsc-test`'s `parser.c` | operators only: what the tests assert of the trees of `Parser` |
| `List` | | the abstract specification of `Buf`: names that stand for lists which never touch each other |
| `Buf` | `buf.h`, `diagnostic_bag.c`, `string_builder_clear` | `bufs` are the C structs, `memory` the blocks by address; one action per macro, and one per turn of the loop of `BUF_CONCAT` |
| `BufProofs` | | theorems about `Buf`, with its refinement of `List` |
| `Arena` | `arena.c` | `heap` is what the backend gave out, `regions` the headers in it; one action per region that is taken, walked to or freed |
| `ArenaProofs` | | theorems about `Arena` |
| `VaryCase` | `varycase.c`, `file.c` | for each process `at` is its place in `main`, `level` the depth of `file_mkdir_rec`; one action per call into the operating system, on the one `disk` |
| `VaryCaseProofs` | | theorems about `VaryCase` |
| `CompilationProofs` | | theorems about a session of compilations: the invariants of `Binder`, `Evaluator` and `Compilation` |
| `SessionProofs` | | theorems about what is answered and about `Repl`: it extends `CompilationProofs` and instances `ParserProofs` and `Session` |
| `MC*` | | token alphabets, submissions, lines and texts for TLC |

Conventions. A record `[fn |-> ..., ...]` is a running C call and a stack its waiting
callers. A pointer is the index of a cell that is never reused, so that a use after
free is visible. Operators whose comment begins with "Mutant" are slips one could make
in the code; each is used in no action and is there to show that the property named in
`PROJECT.json` notices it.

### Abstractions

* **Tokens and names.** `Parser` and `Compilation` see a token as its kind, with a name or
  a value when it has one. `Lexer` sees characters.
* **Integers** have `IntWidth` bits: `Wrap`, `DivisionTraps` and the overflow test of
  `str2u64` are written for any width. Signed overflow is undefined in C. The builds of
  `CMakePresets.json` wrap around (the sanitizer, when on, prints and goes on), and so does
  `Wrap`. A trap, or a failed `MINSC_ASSERT`, which is never compiled out, ends in the
  phase "dead".
* **`malloc` never fails** (the code asserts that it does not), but in `Buf` and `Arena`, where every request for memory may be refused.
* **Addresses** in `Buf` and `Arena` are numbers and are used again once freed; a new block, and a grown one, may be put
  wherever there is room.
* **Paths** are sequences of names. The disk is a function from paths; nobody but the processes writes to it.
* **Hash tables** are functions; nothing depends on their order but the order of
  `BoundGlobalScope.variables`, which nothing reads: `declared` is a set.
* **Output** is left out but for what `Reporting` models, which is where in the text a
  report is shown, and `TreePrinting`, which is what the columns of a drawn line hold. Colours, wording and history file are output.
* **External code.** linenoise returns a line, without a NUL in it, or NULL.

## 3. What is checked

Deadlock is switched off where the program may stop: the parser and a submission end,
the process may trap or exit. `source_text` and `reporting` can always look up another
position, and check for deadlock.

**`parser`** — every sequence of up to four of ten tokens: one for each way the parser
branches, a bad token and a number out of range; and chains of two operators, of all pairs of binary operators, between
operands of four sorts, three between names, with and without an assignment in front, and a signed name before each operator.
`TreeSpellsConsumedTokens`: at every moment the
nodes under construction read back as exactly the tokens consumed. `EachNodeOwnedOnce`:
freeing the root frees each node once. `HolesAreReported`: made-up tokens and reports
of unexpected tokens come in equal numbers. `ReportsIffNotSentence`: reports are raised for exactly the
texts that the grammar, stated as a table of spans, does not derive.
`PrecedenceShapesTree`: tighter operators are below looser ones, equal ones associate to the left.
`DrawingTellsTheTree`: what `#showTree` draws can be read back as the tree, for trees with holes too.
`ParserMeetsItsTests`: the suite of `minsc-test`, for all its pairs of operators.
`CleanParseIsWhole`, `PositionInBounds`, `StackBounded` and `TypeOK` are the parts of the
inductive invariant. `ParserTerminates`: error recovery never loops. Four tokens are
enough for every pair of mismatches and for each production inside each other one; three
operators in a row show every case of the loop: go deeper, stay, return.

**`compilation`** — submissions of some two hundred trees in any order, over two variables that change
their types between submissions, and two-bit integers (-2 .. 1), where -2 / -1, -2 * -2 and x / 0 come up. Because the state
after an answer is only the contents of the variables, sessions of any length are covered.
`ObjectsOwnedOnce` counts the owners of every Object in every state of the evaluation, `CellsOwnedOnce`
those of the bound tree, on the error paths and after the answer too. `ReportsIffIllTyped` and `AnswerIsMeaning`
compare with a typing relation and a semantics written by recursion over the tree, without scopes,
stacks or ownership; the meaning starts from no variables, so the run also shows that no value of an earlier
submission is ever read. `TypeSoundness`: whatever types earlier submissions left in the map, no assertion of `object.c`
can fail, and the value of an expression has the type it was bound with.

**`session`** — `ImplementsSession`: `Compilation` implements `Session`, over two variables and
ten trees, whole, refused in the middle and ended by a trap. `OpenSession` is `INSTANCE Session` with a refinement
mapping. The submission stands for its meaning, by the same recursion as in `AnswerIsMeaning`. It is carried out at
the step that starts the evaluator: from there on the store is `variables` overlaid with what the submission is
going to assign, and the reply is its value, so every step of the evaluator has to be a stutter, which it is only if what
is left to do always leads to just these values. A submission with a report goes to a refusal that changes nothing. The store
survives the answer, which no invariant about one submission can say. `Session` asks for two leads-to
properties, so that the run checks liveness too.

**`repl`** — the loop over nine lines (blank, both commands, an open parenthesis, its
rest, assignments of both types, a division by zero, a number out of range), up to
three lines and a blank one in a submission. Text is parsed from the start on each line, as in the
code. `OnlySentencesAreEvaluated`, `KeptTextIsUnfinished` (text that waits for more
is never text that could be answered, so that the user is never left at a `|` prompt
with a complete sentence), `BlankLineAnswers` (a blank line gets him out of it), `ExitFreesEverything`. `ReplImplementsSession`: with the loop
around it the program still implements `Session`; reading and keeping lines, commands and trees parsed
in vain are stutters, and the end of the input closes the session and empties the store.
The bound on pending lines limits only how long a submission may be put off; a line is always
one of the nine.

**`source_text`** — every text of up to five characters over CR, LF and another one, and every
position. `LinesTile`, `LinesHoldNoBreak`, `SearchInBounds`, `AnswerIsTheLine`, `SearchEnds`. Five characters
are enough for every order of the breaks and for three turns of the search; all but the last
property are proved for any length.

**`reporting`** — every text of up to three characters over ten, four-digit numbers around
the limits of five-bit integers (15 and 16, with the digits of both the cutoff and of a wrap-around), words around the keywords, texts of several lines.
`TokensTileText`, `TokensAreLongest`, `NumbersHaveTheirValue`; then any report there could be is printed:
`PrintsTheWholeLine` (the three pieces are one whole line, and no length wraps around) and `PrintsThePosition`.
A report of the binder or the parser is about a kept token, or is empty where one starts. The model lets
it be about any of them.
`LexerMeetsItsTests`: the suite of `minsc-test`, for every token, every pair of tokens and every pair with a separator, texts which
are all among those read; and its `requires_separator` keeps no two tokens apart that would be read back without a separator, but for
digits after a word, which it need not.

**`buf`** — three variables, as many blocks and a static array, lists of up to three items: an array, another one joined with it,
and a view, in every order of the operations. A `realloc` moves a block or does not, and may fail in the middle of a concatenation.
`BlocksOwnedOnce`; `BufImplementsList`: seen through the pointers, every step changes the lists it names and no other one, a
concatenation all at once at its last item. Who may write is taken from the code: nobody pushes to a
view, or to an array that somebody has a view of (`Mine`): `diagnostic_bag_iter` is called by `main` and by `minsc-test`, and neither pushes while it reads. That a new caller
would keep to it is not checked. Three items take three reallocations; both properties are proved for any number.

**`arena`** — up to three allocations of zero to three units, in a memory of twelve, with a default region of one:
all of "fits", "just fits", "doubled" and "larger than doubled" come up, on each backend, and so does
the end of the memory. `AllocationsApart` and `ArenaGivesBackAll` are proved for any sizes.

**`varycase`** — two processes on five disks and any two of eighteen commands whose outputs are not the same or one below the other: the same directories wanted at the
same time, files in the way, macros without an end, unknown cases, relative paths. Any call may be refused, and
the disk may be full when a file is flushed, by `fclose` or by `exit`. `OutputIsWholeOrKept`: a success leaves every line of the input in its case, which a definition without a
scan says, and a failure leaves the output as it was, but for an unknown case, which is found out after `fopen` (`varycase.c:79`).
`FailsForItsCause` goes both ways: that the other process is there is never the reason of a failure, and who succeeds had no reason to fail; of a relative path whose first directory
is missing (`file.c:228`) only if a command with an absolute path has made it. Two processes meet at a directory in every way more
could, as `mkdir` has only two outcomes for those that come second.

### Fairness

Weak fairness is on the steps of the program and never on its user. In `Parser`,
`Compilation` and `Repl` these are the steps of a call that runs; nothing can disable
them. `ReplStep` does not hold the reading of lines: linenoise may wait for ever, and `BlankLineAnswers` promises
an answer only when a blank line has come. `SourceFairness` is on the turns of the two loops.

### Three disagreements with what the repository says

* `reference_later`: README.md:16-17 says variables "can be referenced later".
  `binder_new(NULL)` at `binder.c:173` gives each submission an empty scope, so that `a` after
  `a = 1` is reported as a name that doesn't exist. It can be referenced later only in the same submission.
* `reuse_declared`: the comment at `binder.c:54` says variables are not freed. `bound_scope_free`,
  called on the line above, frees the symbols that `BoundGlobalScope.variables` lists.
* `arena_wasm`: arena.c:71 and 153 assert that the WASM heap is given back from its top, as a stack.
  `arena_free` frees the region first that was taken first, so any arena with two regions throws there.

Smaller ones, which the properties take as they are. `file_mkdir_rec` takes a path without a slash for made (`file.c:228`), so it never
makes the first directory of a relative path; the build only passes absolute ones. `varycase` does not look at what `fclose`
returns, and on a full disk succeeds with a part of its output. And the copy of a symbol that
`bound_scope_try_declare` refuses (`binder.c:161`) is never freed. `CellsOwnedOnce` says
that this is the only cell lost, one per report "already declared", and it is a theorem.

## 4. What is proved

TLAPS checks these for every value of the constants: any alphabet of tokens, any
length of text.

**`ParserProofs`.** `ParserInvariant` is `Spec => []IInv`. `IInv` is
`TypeOK /\ EndedByEOF /\ PositionInBounds /\ StackShape /\ StackBounded /\ CleanParseIsWhole`. That the cursor stays in
the tokens is not inductive alone: `next_token` has no bound check, and what stops it is
that every caller but the last has seen a kind that is not the end of file. So the
invariant needs that the end of file is the last token and no other is (`EndedByEOF`), and that
`parse_compilation_unit` is the outermost frame and only that (`StackShape`), as it alone consumes the end of
file. From it: `ParserTypeCorrect`, `PositionStaysInBounds`, `RecursionIsBounded` (the depth of the
C stack is at most one more than the tokens consumed) and `SilenceMeansWhole`, which is what
`compilation.c:36` relies on. One lemma per action; what `match_token` does is one lemma
(`MatchTokenBounds`), what a push and a pop do to the stack are two. Assumptions: the
lexer returns one end of file, last (`LexingsAssumption`; `TokensTileText` says it of the lexer, and is proved below).

`TreeInvariant` is `Spec => []TreeInv`, about the heap of nodes. `TreeInv` is
`IInv /\ TreeShape /\ TreeCasts /\ HolesAreReported /\ EachNodeOwnedOnce /\ TreeSpellsConsumedTokens`.
`PrecedenceShapesTree` says nothing of an operand that waits in a C frame for its operator, so `TreeShape` says it of the three places
where a tree under construction is. What is in the heap is well built (`HeapShape`: as many kids as the node's `*_new` takes, all older).
Each suspended call holds a left operand that binds at least as tightly as the operator it holds, which binds tighter than its own
`parent_precedence` (`Operands`), and is the parent precedence of the call inside (`Called`). What runs on top returns something that binds
tighter than that precedence, or as tightly in the one case of a unary operator, and the operator that comes next binds no tighter than what was read
(`CallShape`). The last is what makes "equal ones to the left" inductive: it is why `<=` in the test of the loop and `>=` in that of the
unary operators fit together, also when a made-up operand was returned. From it `PrecedenceShapesEveryTree`.
`EachNodeOwnedOnce` is stated as an injective map from the slots of parents, frames and the result onto the nodes. Every action either makes one node and gives it to
the one that runs, hands the result to a frame or frames over to a new node, and a lemma for each of these (`PickOwned`, `SuspendOwned`, `BuildOwned`, `ResumeOwned`) is enough for all.
The same four say what the tree reads back as (`PickReads`, `SuspendReads`, `BuildReads`, `ResumeReads`): a leaf adds the next token at the end, or none if it is made up; the others only move
between the list of what the calls hold, the result and the kids of a node, and the concatenation of what these spell stays the same. `Spelling` is a recursive function on the heap;
that a node spells the same over a larger heap is shown by a least counterexample, since kids are older. From it `TreesSpellTheTokens`: with `PrecedenceShapesEveryTree` it determines the tree for every text.
`EveryHoleIsReported` counts: only a leaf with no token adds a hole, in the same step as the report.
`BinderCastsWhatIsThere` says that `TreeCasts` holds: below each node are the kinds of nodes that `binder.c` casts without looking at them, whatever `match_token` made up. Only a name to be read may be a
made-up token: `parse_assignment_expression` has seen both its tokens, and a literal is built on the token that was dispatched on.

`ParserReadsSentences` and `ParserAcceptsTheLanguage` are about the language. `ParserProperties` has the grammar twice: as a table of the spans that derive each symbol
(`Derivations`, with precedence nowhere in it), and as a reader from left to right that looks one token ahead (`Advance`, `Scan`, `Complete`). `ReadsSentence` is the inductive invariant that compares the parser with the reader:
the function that runs is at what the reader says may come next, the calls that wait for a `)` are as many as are open, and where something was reported, the first report is about a token
that no sentence with this beginning goes on with. The two forms of the grammar are shown equal by lemmas alone. What is derived is read, since a reader
that gets from one end of a span to the other does so whatever comes before; what is read is derived, since the parser itself builds a tree of it without holes, and by least counterexample
each node of a tree derives its span. Hence `ReportsIffNotSentence`: no report on a sentence, and at least one on everything else.

**`ReportingProofs`, the lines.** `SourceTextInvariant` is `SourceSpec => []SourceInv`. The search is
only right because of the lines: they tile the text (`LinesTile`), so the first starts at 0 and
later ones later (`StartsIncrease`); hence a position before the line in the middle means that this is not the
first one, and `index - 1` does not wrap around. `SearchBrackets` says that all lines up to `lower` start before the
position and all after `upper` start behind it. From it: `LinesTileEveryText`, `SearchStaysInBounds`,
`SearchFindsTheLine`. `LinesOfEveryTextHoldNoBreak` needs more while `parse_lines` runs: that between two lines is exactly one break, and none
between the start of the next line and the position (`BreaksEndLines`). Assumptions: texts are sequences (`TextsAssumption`), `SizeMax` is a natural number.

**`BufProofs`.** `InvHolds` is `Spec => []Inv`, where `Inv` is `Heap /\ CopyOK /\ aborted \in BOOLEAN`. `Heap`
is `BlocksOwnedOnce` in parts (who owns, of what size, alone, nothing lost, only items to be seen), with what makes it
inductive: a NULL pointer has no capacity, so that the first push asks for a block, and nobody ever writes to the static array. `CopyOK` says of a running concatenation
that its two ends are apart and that the first items of one are the last ones of the other. From it `BlocksOwnedOnceHolds`, and
`BufImplementsListHolds`, which is `Spec => TheLists!Spec`: one lemma per action says which operation on lists it is, on top of a lemma about
what a push does to the rows of everybody else, wherever the block goes. Assumptions: those of `Buf` on its constants.

**`ArenaProofs`.** `InvHolds`: regions are blocks of the heap, of the size their capacity says, and lie apart; the chain from
`begin` is injective and leads through all of them to a `next` of NULL; allocations fill a region one behind the other. While `arena_free` runs,
the chain from its cursor leads through exactly the regions that are left, which is why
`ArenaGivesBackAllHolds`. Assumption: `RequestsFit`, that no sum of sizes wraps around.

**`ReportingProofs`, the tokens and the reports.** `ReportingInvariant` is `Spec => []ReportingInv`: the invariant of the lines, that of the lexer (`LexerInv`) and what `main` has looked up. From it
`TokensTileEveryText` and `TokensOfEveryTextAreLongest`: where one branch of `lexer_next_token` ends a run of characters no character follows that could go on with it, which needs
that the classes of characters do not overlap (`ClassesAreDisjoint`). That `main` prints a whole line (`EveryReportPrintsItsLine`) rests on all three parts: every report is about a
token or about an empty span where one starts, no token but white space has a line break in it (`WithinLine`), so that a report ends in the line it starts in, and
the search finds this line. Hence none of the subtractions of `size_t` wraps around. The number of the line is that of the breaks before it (`LinesCountBreaks`), and with it
`EveryReportPrintsItsPosition`. `NumbersOfEveryTextHaveTheirValue` goes by the digits of a numeral: while the numeral so far is in range, the sum of `str2i64` is equal to it, and
from the first digit that takes it out of range every further sum has overflowed (`SumsAgree`); that the overflow test is right needs `MaxInt < 2 ^ IntWidth`, which comes from the number of subsets of a
set of that size. That the sums exist at all is a lemma about recursive functions (`Recursion`), by a least counterexample. Assumptions: those on texts and on `IntWidth`.

**`VaryCaseProofs`.** `VaryCaseInvariant` is `Spec => []VaryCaseInv`, for any number of processes and any directories. A process on the way down or up its path relies on what it saw or made
before, while others write to the same disk. That holds since the disk only grows (`Kept`), what is new was made by somebody on the way to his output (`Made`), and no output is another one or on the way
to one (`Typed`): so what was seen to be a directory stays one, and what the others make where a directory is needed is a directory. `OnItsWay` says how far each process has prepared its path (`Prepared`), with
the exception of relative paths that `file_mkdir_rec` makes. `ParsedInv` adds that an unknown case is found out before a whole line is written, and `WritingInv` what is written:
the names between `X(` and `)` in order (`XMacros`), of which a process has written a beginning, each as `varycase_camel_internal` scans it, character by character, and the definition `InCase` has it without a scan; who succeeded closed a file that nobody else
opens, and before `fopen` the output is what the build found. From it `WhatIsLeftBehind`. `NoOneFailsForAnother` follows in one direction from `OnItsWay`, and in the other from `RootedInvariant`, that
whatever is on the disk lies in directories: the way to an output that was written is free, and its first directory, if it is new, was made by a command that could make it (`Made`).
Assumptions: every command names an output, a path that is absolute or not, and an input that is a text (`JobsAssumption`), and the disk the build finds is rooted (`DisksAssumption`).

**`CompilationProofs`.** `CompilationInvariant` is `Spec => []CompilationInv`, for any names, any width of the integers and any syntax trees, over all sessions. What the evaluator
needs of the bound tree cannot be said of a tree that is only being built, so `CompilationInv` says it of the order of the cells. As long as nothing was reported, the cells of an expression lie together in the order they will
be evaluated in (`Ordered`), each on older ones (`Typed`) and behind those of the calls of the binder that wait (`Edges`); a variable stands behind an assignment to it of its type, and a name
is assigned once. Hence, when the evaluator arrives at a cell, all assignments before it were carried out (`Assigned`), also when an earlier submission left a variable of that name with another type: this is why the binder may
forget the scope while the values stay. What was reported is not evaluated (`Clean`). In the evaluator each call waits for the next one (`Chained`), and holds a left operand of the type its operator unwraps it to (`Suspends`).
`Owned` says who points to which Object: the calls that wait, the value in hand and the map. From the invariant: `WhatIsBoundIsSound` (no assertion of `object.c` fails) and `EveryObjectIsOwnedOnce`.
One lemma per action of the binder and the evaluator; `IntWidth` enters with the range of `Wrap` and of a quotient that does not trap.
`CompilationInv` has an existential over functions that TLC does not enumerate; with the two functions computed from the heap and the stack, TLC found it true on all 1.2 million states of the run `compilation`. Assumptions: a tree has the shape the parser gives it
(`TreesAssumption`: kids are older than their parent, an expression has the kids `binder.c` casts it to, names and numbers have texts and values where nothing was reported), which TLC evaluates for the trees of
`MCTreeLayout` and `SessionProofs` shows of all that the parser builds; `IntWidth` is positive, no name is the missing one.

`TheRulesDecideWhatIsReported` is `ReportsIffIllTyped`: binding reports something exactly if the typing rules, read off the tree by recursion (`Typing`), give no type. That a
recursive function over the nodes is what it says it is (`TypingIs`) is shown by a least counterexample, since kids are older; for the provers it is else any value. `RulesInv` says the rest. Each
suspended call of a `bind_*` function has been asked about one node with the names declared so far (`Asked`), and asks the call inside about a kid with the names declared by then (`Asks`); the
outermost is about the whole tree in the scope of the compilation. The running call is about to answer with the type and the names that the rules give (`Answers`). Whatever has no type leaves the expression around it
without one (`IllTyped`), as `bind_unary_expression` and its siblings go on after a report with an expression that stands in for the right one: so after the first report the whole is ill typed, and what is bound later need not be right.

`EveryCellIsOwnedOnce` is `CellsOwnedOnce`, by `CellsInv`: one slot at most points to each cell, none to one that was freed, and those without a slot are symbols, as many as there are reports of a refused declaration.
`Owners` collects the slots of all cells, all waiting calls, the scope and the running call, each with its kind (`OwnersAgree`). A step of the binder adds cells at the end of the heap, which nobody points to yet, and hands each
pointer that it takes from somebody on to one of them or to the caller; where it gives an operand up (`RejectOperands`) the cells below it go, and no others. What `bound_node_free` reaches (`Below`) is therefore the hard part: it is a recursive function, shown by a least counterexample to be closed (what
hangs from a cell below a root is below it, `BelowHangs`), live (`BelowIsLive`) and, since a cell below it hangs only from one that is below it too, apart from whatever the others hold, so that a tree is freed together with every owner in it (`FreedTogether`). At the end of a submission everything that
is live hangs from the root, by following owners upwards, which ends as parents are younger than kids; so the answer leaves only the lost symbols (`TreeGivenBack`). There is one lemma for each way cells change hands (`VariableOwned`, `UnaryOwned`, `LeftOwned`, `BinaryOwned`, `AssignmentOwned`, `GlobalScopeOwned`).
`EveryCellTypedIsOwnedOnce` says the same of what is typed at the prompt.

**`SessionProofs`, the answers.** `TheAnswerIsTheMeaning` is `AnswerIsMeaning`: what is answered is what the syntax tree means (`Meaning`, by recursion, in one stroke), although it is computed in two passes, over cells that are not the
nodes of the tree and by calls that read and write the variables on their way. The argument has three parts. That meaning goes with typing (`MeaningIsSound`): a node the rules accept has a value of its type or traps, and declares what the rules say it declares; what an
operator means is what `object.c` computes, with `Wrap` and a quotient that is cut off. That each cell was bound to a node (`Made`): there is a function from the cells to the nodes such that each cell has the kind, operator, name and
value of its node and its kids stem from the kids of that node, or from what stands in parentheses there and means the same; each suspended call of the binder knows what it was asked for. That the evaluator computes the meaning (`Meant`): each of its calls was asked for one cell with the
variables as they would then be (`asked`), what it hands back is what its node means with them, a call that holds a left operand holds the value of that operand, and its second kid is asked with the variables that the first one left. These variables are the ones that the submission
has assigned; the map of the evaluator has the same values for them, and may have other names of earlier submissions (`Given`), which no accepted tree reads first. Whoever traps makes the whole trap (`Leads`).

`EveryStepIsOneOfTheSession` is the refinement of `Session` step by step, under the mapping of `ImplementsSession`: the session accepts or refuses where `Submit` is done, by what
`TheRulesDecideWhatIsReported` says will be reported; what it promises to answer is what was meant, so the answer fits at the end, and the store of the session is the variables with what the running submission has yet to assign.
`TheLoopAnswersTheMeaning` and `EveryStepOfTheLoopIsOneOfTheSession` are the same two of what is typed (`ReplImplementsSession`). That a submission is answered at all, which is the rest of `Session!Spec`, is liveness and stays with TLC.

**`SessionProofs`, the loop.** `ReplInvariant` is `ReplSpec => []ReplInv`, for any lines, of any number and in any order. `ReplInv` holds the two machines together: while the text is being parsed the parser is in
`IInv`, `TreeShape` and `TreeCasts`, and `CompilationInv` holds all along. Whatever the lexer makes of some lines with the newlines of `main` is a lexing (`LexingOfLines`), so `ParserProofs` is instanced over these without an assumption about the parser's input;
what its lemmas say of the steps holds of the parser in `Repl`, which is the same (`SameSteps`). The tree of a parser that is done is an `IsSyntaxTree` (`ParsedTreeIsSyntaxTree`): what
`CompilationProofs` assumes of `Trees` the parser keeps. So `WhatIsTypedIsSound` and `EverySessionOwnsOnce` are about what is typed, and no longer about trees. `EveryExitFreesEverything`: at the prompt the
variables own whatever Objects there are, by `Owned` with nobody running. `EverythingEvaluatedIsASentence` and `EveryTextKeptIsUnfinished` compare what `main` does with the grammar: what is evaluated had no report, so it is a sentence; and
`KeepsUnfinished` says that the lines kept at the prompt hold no blank one and are no sentence, since they are kept only after a report. `KeepsTokens` ties what the parser holds to the lexing of these lines. `TheRulesDecideWhatIsTyped` is
`TheRulesDecideWhatIsReported` for what is typed, along the names that the session has declared (`LoopSteps`: each step of the loop is one of the parser, one of the session or neither). Assumption: a line is a sequence of tokens without an end of file, where names are names and a number has a value of the width or none (`LineAssumption`, which the theorems on `Lexer` say of it).

**Only model-checked**: liveness (`ParserTerminates`, `BlankLineAnswers`, `SearchEnds`, the leads-to parts of `ImplementsSession` and `ReplImplementsSession`); `DrawingTellsTheTree`, which is stated by recursion over a drawing;
the suites of `minsc-test` (`ParserMeetsItsTests`, `LexerMeetsItsTests`), which are about fixed texts. Every other invariant that a run checks is a theorem.

## 5. What is not modelled

The wording of diagnostics; `println`, `styler`, `sum` (output, escapes, macros); of `str` all but the conversion of digits; of
`varycase` the parsing of its arguments and the default name of its output, which the build always gives; `file.c` on Windows; of `minsc-test` the framework and
the tests of the evaluator (fixed texts, each an instance of `AnswerIsMeaning`), of `syntax_facts` and `source_text`; third-party code. `TextLine.source` points to a local
that is gone (`source_text.c:15`); its only reader, `text_line_to_string`, has no caller. `variable_map_remove`, `variable_map_find`, `BUF_FIND` and `BUF_OWNER`
have no user. A parent scope never exists. A NUL inside a text would end lexing early (`lexer.c:121`), and no line from linenoise has one.
A request of nearly `SIZE_MAX` bytes would wrap around in `arena_alloc` (`arena.c:117`); nothing in the repository makes one, and `RequestsFit` assumes it away.

## 6. The plan from here

Done: all modules above, in the order parser, binder and evaluator, REPL, source text, lexer and reports, abstract session, arena, buf,
build commands, tests and tree printing.

1. **Spans of reports**: carry them through `Parser` and `Binder`, so that `Reporting` need not over-approximate.
