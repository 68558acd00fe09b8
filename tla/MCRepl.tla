--------------------------------- MODULE MCRepl ---------------------------------
(* Sessions of any length over lines that are sentences, parts of sentences, or     *)
(* neither, the way the lexer reads each.                                          *)
EXTENDS Repl

MCTok(kind)   == [ kind |-> kind, text |-> NoName, value |-> NullObject ]
MCNumber(i)   == [ MCTok("NUMBER_TOKEN") EXCEPT !.value = Int64(i) ]
MCName        == [ MCTok("IDENTIFIER_TOKEN") EXCEPT !.text = "a" ]
MCTyped(text, these) == [ text |-> text, tokens |-> these ]

MCLine ==
    { MCTyped("", <<>>),
      MCTyped("#showTree", << MCTok("BAD_TOKEN"), MCName >>),
      MCTyped("#cls", << MCTok("BAD_TOKEN"), MCName >>),
      MCTyped("(", << MCTok("OPEN_PARENTHESIS_TOKEN") >>),
      MCTyped("a = 1", << MCName, MCTok("WHITESPACE_TOKEN"), MCTok("EQUALS_TOKEN"),
                          MCTok("WHITESPACE_TOKEN"), MCNumber(1) >>),
      MCTyped("a=!false", << MCName, MCTok("EQUALS_TOKEN"), MCTok("BANG_TOKEN"),
                             MCTok("FALSE_KEYWORD") >>),
      MCTyped(")+a", << MCTok("CLOSE_PARENTHESIS_TOKEN"), MCTok("PLUS_TOKEN"), MCName >>),
      MCTyped("-1/0", << MCTok("MINUS_TOKEN"), MCNumber(1), MCTok("SLASH_TOKEN"), MCNumber(0) >>),
      MCTyped("9", << MCTok("NUMBER_TOKEN") >>) }       \* too large
================================================================================
