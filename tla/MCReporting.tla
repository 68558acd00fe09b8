------------------------------- MODULE MCReporting -------------------------------
(* Every short text over characters of each sort, longer ones of some lines, every  *)
(* number of four digits, words around the keywords, and the texts of the lexer's   *)
(* tests, of every pair of tokens without a separator and with each.               *)
EXTENDS LexerTests

LOCAL INSTANCE SequencesExt

CONSTANT MaxLength

Alphabet == { "a", "1", "9", " ", "=", "!", "&", "#", CR, LF }

True  == << "t", "r", "u", "e" >>
False == << "f", "a", "l", "s", "e" >>
Words == { True, False, True \o False, << "t", "r", "u" >>, << "a" >> \o True, False \o << "s" >> }
Around == { <<>>, << "!" >>, << " " >>, << "1" >>, << "#" >>, << "=", "=" >>, << LF >> }

Tested ==
    { token.text : token \in AllTokens }
      \cup { pair[1].text \o pair[2].text : pair \in TokenPairs \cup PairsToSeparate }
      \cup { triple[1].text \o triple[2].text \o triple[3].text : triple \in TokenPairsWithSeparators }

MCTexts ==
    BoundedSeq(Alphabet, MaxLength)
      \cup { s \o << d >> : s \in [ 1..4 -> { "a", CR, LF } ], d \in { "&", LF, "9" } }
      \cup { before \o word \o after : before \in Around, word \in Words, after \in Around }
      \cup [ 1..4 -> { "0", "1", "5", "6", "9" } ]
      \cup { << c >> \o << d >> \o << CR, LF >> : c \in DOMAIN Single, d \in Alphabet }
      \cup Tested

MCCharacter == Letter \cup Digit \cup Space \cup DOMAIN Single \cup DOMAIN Paired \cup { "#" }
================================================================================
