------------------------------- MODULE LexerTests -------------------------------
(***************************************************************************)
(* The tests of minsc-test's lexer.c, which put a text together from       *)
(* tokens, with a separator where they think the lexer needs one, and      *)
(* expect the tokens back.                                                 *)
(***************************************************************************)
EXTENDS Reporting

LOCAL INSTANCE SequencesExt

\* syntax_facts_get_text.
GetText(kind) ==
    CASE kind = "PLUS_TOKEN"  -> << "+" >>  [] kind = "MINUS_TOKEN" -> << "-" >>
      [] kind = "STAR_TOKEN"  -> << "*" >>  [] kind = "SLASH_TOKEN" -> << "/" >>
      [] kind = "BANG_TOKEN"  -> << "!" >>  [] kind = "EQUALS_TOKEN" -> << "=" >>
      [] kind = "EQUALS_EQUALS_TOKEN"       -> << "=", "=" >>
      [] kind = "BANG_EQUALS_TOKEN"         -> << "!", "=" >>
      [] kind = "AMPERSAND_AMPERSAND_TOKEN" -> << "&", "&" >>
      [] kind = "PIPE_PIPE_TOKEN"           -> << "|", "|" >>
      [] kind = "OPEN_PARENTHESIS_TOKEN"    -> << "(" >>
      [] kind = "CLOSE_PARENTHESIS_TOKEN"   -> << ")" >>
      [] kind = "FALSE_KEYWORD" -> << "f", "a", "l", "s", "e" >>
      [] kind = "TRUE_KEYWORD"  -> << "t", "r", "u", "e" >>

TestToken(kind, characters) == [ kind |-> kind, text |-> characters ]

\* get_tokens, get_separators and get_all_tokens.
Tokens ==
    { TestToken(kind, GetText(kind)) : kind \in FixedTextKinds }
      \cup { TestToken("IDENTIFIER_TOKEN", word) : word \in { << "a" >>, << "a", "b", "c" >> } }
      \cup { TestToken("NUMBER_TOKEN", digits) : digits \in { << "1" >>, << "1", "2", "3" >> } }
Separators ==
    { TestToken("WHITESPACE_TOKEN", space) :
        space \in { << " " >>, << " ", " " >>, << CR >>, << LF >>, << CR, LF >> } }
AllTokens == Tokens \cup Separators

WordKinds == KeywordKinds \cup { "IDENTIFIER_TOKEN" }

\* requires_separator.
RequiresSeparator(t0, t1) ==
    \/ t0.kind = "NUMBER_TOKEN" /\ t1.kind = "NUMBER_TOKEN"
    \/ t0.kind \in WordKinds /\ t1.kind \in WordKinds \cup { "NUMBER_TOKEN" }
    \/ /\ t0.kind \in { "EQUALS_TOKEN", "BANG_TOKEN" }
       /\ t1.kind \in { "EQUALS_TOKEN", "EQUALS_EQUALS_TOKEN" }

\* syntax_tree_parse_tokens, for a text that was read to its end: the tokens before the
\* end-of-file token.
ParseTokens ==
    [ i \in 1..Len(tokens) - 1 |->
        TestToken(tokens[i].kind, Slice(tokens[i].start, TokenEnd(tokens[i]))) ]

\* lexer_tests_all_tokens: no kind of token goes untested, but for these two.
TestsAllTokens ==
    (TokenKinds \cup TriviaKinds) \ { token.kind : token \in AllTokens }
        \subseteq { "END_OF_FILE_TOKEN", "BAD_TOKEN" }

\* get_token_pairs and get_token_pairs_with_separators.
TokenPairs == { pair \in Tokens \X Tokens : ~RequiresSeparator(pair[1], pair[2]) }
PairsToSeparate == (Tokens \X Tokens) \ TokenPairs
TokenPairsWithSeparators ==
    { << pair[1], separator, pair[2] >> : pair \in PairsToSeparate, separator \in Separators }

\* The tests, each of which passes if its text is not the one that was read.
LexesToken(token)    == text = token.text => ParseTokens = << token >>
LexesTokenPair(pair) == text = pair[1].text \o pair[2].text => ParseTokens = pair
LexesTokenPairWithSeparator(triple) ==
    text = triple[1].text \o triple[2].text \o triple[3].text => ParseTokens = triple

\* The suite passes, and requires_separator is right about the pairs it keeps apart:
\* without a separator they are read as something else.  Only digits after a word are
\* kept apart without need: the lexer takes no digit into a word.
LexerMeetsItsTests ==
    Lexed /\ printed = NoneSoFar =>
        /\ TestsAllTokens
        /\ \A token \in AllTokens : LexesToken(token)
        /\ \A pair \in TokenPairs : LexesTokenPair(pair)
        /\ \A triple \in TokenPairsWithSeparators : LexesTokenPairWithSeparator(triple)
        /\ \A pair \in PairsToSeparate :
              text = pair[1].text \o pair[2].text =>
                  (ParseTokens = pair <=> pair[1].kind \in WordKinds /\ pair[2].kind = "NUMBER_TOKEN")
================================================================================
