---------------------------------- MODULE Repl ----------------------------------
(***************************************************************************)
(* The loop of main.c: lines are collected until they parse, then compiled *)
(* and answered.  Parser and compilation are the machines of their own     *)
(* modules; this one feeds the one and hands its tree to the other.        *)
(***************************************************************************)
EXTENDS CompilationProperties

CONSTANTS Line,            \* the lines that may be typed: their text and its tokens
          MaxPending       \* bound: lines of one submission, before a blank one

\* What the lexer makes of a line: only identifiers have a name, and a number has the
\* value it is spelled with unless that is too large (module Lexer).
ASSUME LineAssumption == \A line \in Line :
    /\ line.tokens \in Seq({ line.tokens[i] : i \in 1..Len(line.tokens) })
    /\ \A i \in 1..Len(line.tokens) : LET token == line.tokens[i] IN
        /\ token.kind \in (TokenKinds \cup TriviaKinds) \ { "END_OF_FILE_TOKEN" }
        /\ token.kind = "IDENTIFIER_TOKEN" => token.text \in Name
        /\ token.kind = "NUMBER_TOKEN" => token.value \in Int64s \cup { NullObject }
ASSUME MaxPendingAssumption == MaxPending \in Nat \ {0}

VARIABLES repl,            \* where the loop is
          text_builder,    \* the lines of the submission so far
          show_tree,
          is_blank,        \* of the last line
          lexed, read, tokens, position, diagnostics, nodes, stack, control   \* the parser

parser_vars == << lexed, read, tokens, position, diagnostics, nodes, stack, control >>
compilation_vars == vars
repl_vars == << repl, text_builder, show_tree, is_blank, parser_vars, compilation_vars >>

EndOfFile  == [ kind |-> "END_OF_FILE_TOKEN", text |-> NoName, value |-> NullObject ]
Newline    == [ kind |-> "WHITESPACE_TOKEN", text |-> NoName, value |-> NullObject ]
LineTokens == (UNION { { line.tokens[i] : i \in 1..Len(line.tokens) } : line \in Line })
                \cup { EndOfFile, Newline }

\* What the lexer makes of the text of some lines: main ends each with a newline.
Lexing(lines) ==
    Append(Seqs!FlattenSeq([ i \in 1..Len(lines) |-> Append(lines[i].tokens, Newline) ]), EndOfFile)

Parse == INSTANCE ParserProperties WITH Token <- LineTokens, Lexings <- {}

--------------------------------------------------------------------------------

ParserAt(fn) == [ fn |-> fn, parent |-> 0, node |-> 0 ]

ReplInit ==
    /\ repl = "prompt"
    /\ text_builder = <<>>
    /\ show_tree = FALSE
    /\ is_blank = FALSE
    /\ lexed = <<>> /\ read = 0 /\ tokens = <<>> /\ position = 0 /\ diagnostics = <<>>
    /\ nodes = <<>> /\ stack = <<>> /\ control = ParserAt("done")
    /\ CompilationInit

Prompted == repl = "prompt"

\* syntax_tree_parse up to the loop of parser_new, and syntax_tree_free.
ParserOver(lexing, fn) ==
    /\ lexed' = lexing
    /\ read' = 0 /\ tokens' = <<>> /\ position' = 0 /\ diagnostics' = <<>>
    /\ nodes' = <<>> /\ stack' = <<>> /\ control' = ParserAt(fn)
StartParser(lines) == ParserOver(Lexing(lines), "parser_new")
FreeTree           == ParserOver(<<>>, "done")

\* The meta-commands are commands on the first line of a submission only.
IsCommand(line) == text_builder = <<>> /\ line.text \in { "#showTree", "#cls" }

ReadCommand(line) ==
    /\ Prompted
    /\ IsCommand(line)
    /\ show_tree' = IF line.text = "#showTree" THEN ~show_tree ELSE show_tree
    /\ UNCHANGED << repl, text_builder, is_blank, parser_vars, compilation_vars >>

\* Any other line is added to the builder, and all of it is parsed again.
ReadText(line) ==
    /\ Prompted
    /\ ~IsCommand(line)
    /\ Len(text_builder) < MaxPending \/ line.text = ""
    /\ text_builder' = Append(text_builder, line)
    /\ is_blank' = (line.text = "")
    /\ repl' = "parsing"
    /\ StartParser(text_builder')
    /\ UNCHANGED << show_tree, compilation_vars >>

\* linenoise returns NULL at the end of the input: the loop ends and the variables
\* are freed, whatever is in the builder.
EndOfInput ==
    /\ Prompted
    /\ repl' = "exited"
    /\ objects' = Release(objects, { variables[name].value : name \in DOMAIN variables })
    /\ variables' = [ name \in {} |-> NullObject ]
    /\ text_builder' = <<>>
    /\ UNCHANGED << show_tree, is_blank, parser_vars, binder_vars, evaluator, evaluator_stack,
                    phase, result >>

ParserStep ==
    /\ repl = "parsing"
    /\ Parse!Next
    /\ UNCHANGED << repl, text_builder, show_tree, is_blank, compilation_vars >>

Parsed == repl = "parsing" /\ control.fn = "done"

\* Mutants: a blank line does not end the submission, or only a blank line does.
KeepsReadingAlways == diagnostics # <<>>
KeepsReadingEver   == ~is_blank

\* A text with a report is taken for an unfinished one, until a blank line.
KeepsReading == ~is_blank /\ diagnostics # <<>>

ReadOn ==
    /\ Parsed
    /\ KeepsReading
    /\ repl' = "prompt"
    /\ FreeTree
    /\ UNCHANGED << text_builder, show_tree, is_blank, compilation_vars >>

Compile ==
    /\ Parsed
    /\ ~KeepsReading
    /\ repl' = "compiling"
    /\ Submit([ nodes |-> nodes, tokens |-> tokens, root |-> control.node,
                diagnostics |-> diagnostics ])
    /\ UNCHANGED << text_builder, show_tree, is_blank, parser_vars >>

\* The answer is printed, the tree freed and the builder cleared.
CompileStep ==
    /\ repl = "compiling"
    /\ CompilationStep
    /\ IF phase' = "ready"
       THEN repl' = "prompt" /\ text_builder' = <<>> /\ FreeTree
       ELSE UNCHANGED << repl, text_builder, parser_vars >>
    /\ UNCHANGED << show_tree, is_blank >>

ReplStep == ParserStep \/ ReadOn \/ Compile \/ CompileStep
ReplNext ==
    \/ \E line \in Line : ReadCommand(line) \/ ReadText(line)
    \/ EndOfInput
    \/ ReplStep

\* Only linenoise waits for somebody.
ReplFairness == WF_repl_vars(ReplStep)
ReplSpec == ReplInit /\ [][ReplNext]_repl_vars /\ ReplFairness

--------------------------------------------------------------------------------

\* The texts that may be answered with a value: sentences of the language (module
\* ParserProperties) whose tokens the lexer has nothing to say about.
IsSentence(lines) ==
    /\ \A i \in 1..Len(Lexing(lines)) : ~Parse!LexicalError(Lexing(lines)[i])
    /\ Parse!IsSentence(Parse!Kept(Lexing(lines)))

\* The evaluator only ever runs for a sentence, and for all the lines of it: a blank
\* line forces unfinished text through the parser and the binder, and the reports
\* are then all that keeps a tree with holes from being evaluated.
OnlySentencesAreEvaluated == phase = "evaluating" => IsSentence(text_builder)

\* Text that waits for another line is never text that could have been answered, and
\* no blank line is ever left behind in it.
KeptTextIsUnfinished ==
    (repl = "prompt" /\ text_builder # <<>>) =>
        /\ ~IsSentence(text_builder)
        /\ \A i \in 1..Len(text_builder) : text_builder[i].text # ""

\* A blank line gets the user out of any unfinished text: the submission is answered
\* and the next line starts a new one, unless the process dies of it.
BlankLineAnswers ==
    (repl = "parsing" /\ is_blank) ~>
        \/ repl = "prompt" /\ text_builder = <<>>
        \/ phase = "dead"

\* After the end of the input no Object is left, whatever the session assigned.
ExitFreesEverything == repl = "exited" => DOMAIN objects = {}

\* The loop around it changes nothing of this: lines that wait for more of a text, the
\* commands and the trees that were parsed in vain are no part of the session, and the
\* end of the input closes it, whatever was typed before.
TheSession ==
    INSTANCE Session WITH Value <- Objects, submission <- SessionSubmission,
                          store <- SessionStore, reply <- SessionReply, open <- (repl # "exited")

ReplImplementsSession == TheSession!Spec
================================================================================
