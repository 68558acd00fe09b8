------------------------------ MODULE ParserProofs ------------------------------
(***************************************************************************)
(* Theorems about the parser, for every set of tokens and of token         *)
(* sequences a lexer may produce: first that it stays inside the text and  *)
(* on its stack, then what the trees it builds look like.                  *)
(***************************************************************************)
EXTENDS ParserProperties, FiniteSetTheorems, SequenceLemmas, TLAPS

\* The precedences are among those a call may be given.
LEMMA PrecedenceBounds ==
    \A kind : /\ BinaryOperatorPrecedence(kind) \in Precedences
              /\ UnaryOperatorPrecedence(kind) \in Precedences
BY DEF BinaryOperatorPrecedence, UnaryOperatorPrecedence, Precedences

\* A record built by the helpers has the type of its heap or stack.
LEMMA Constructors ==
    /\ \A fn \in Functions, parent \in Precedences, node \in Nat : Run(fn, parent, node) \in Call
    /\ \A building \in NodeKinds, held \in Seq(Nat), parent \in Precedences :
          Suspend(building, held, parent) \in Frame
    /\ \A kind \in LeafKinds : Hole(kind) \in Node
    /\ \A kind \in NodeKinds, kids \in Seq(Nat) : Inner(kind, kids) \in Node
BY DEF Run, Call, Suspend, Frame, Hole, Inner, Node

LEMMA InitInvariant == Init => IInv
<1> SUFFICES ASSUME Init PROVE IInv
  OBVIOUS
<1>1. lexed \in Seq(Token) /\ IsLexing(lexed)
  BY LexingsAssumption DEF Init
<1>2. Len(lexed) > 0
  BY <1>1 DEF IsLexing
<1>3. control \in Call
  BY Constructors DEF Init, Functions, Precedences, NoNode
<1> QED
  BY <1>1, <1>2, <1>3
  DEF Init, IInv, TypeOK, EndedByEOF, PositionInBounds, StackShape, StackBounded,
      CleanParseIsWhole, Whole, Run, NoNode

--------------------------------------------------------------------------------
(* While a parse function runs, the current token is a real one: the clamp of    *)
(* peek(0) is never met, and the token is the end of file only at the end.       *)

LEMMA CurrentIsReal ==
  ASSUME IInv, control.fn \notin { "parser_new", "done" }
  PROVE  /\ Len(tokens) \in Nat
         /\ position < Len(tokens)
         /\ Current = tokens[position + 1]
         /\ Current.kind \in LeafKinds
         /\ Current.kind = EOF <=> position + 1 = Len(tokens)
<1>1. /\ Len(tokens) \in Nat
      /\ position \in Nat
      /\ position < Len(tokens)
  BY DEF IInv, TypeOK, PositionInBounds
<1>2. Current = tokens[position + 1]
  BY <1>1 DEF Current, Peek
<1>3. position + 1 \in 1..Len(tokens)
  BY <1>1
<1>4. tokens[position + 1] \in KeptToken
  BY <1>3, ElementOfSeq DEF IInv, TypeOK
<1>5. Current.kind \in LeafKinds
  BY <1>2, <1>4, TokenAssumption DEF KeptToken, LeafKinds
<1>6. Current.kind = EOF <=> position + 1 = Len(tokens)
  BY <1>2, <1>3 DEF IInv, EndedByEOF
<1> QED
  BY <1>1, <1>2, <1>5, <1>6

\* What match_token returns is a node, and its effect keeps the parser in bounds:
\* nothing but the end of file of parse_compilation_unit takes it to the end.
LEMMA MatchTokenBounds ==
  ASSUME IInv, control.fn \notin { "parser_new", "done" },
         NEW kind \in LeafKinds, MatchToken(kind)
  PROVE  /\ Matched(kind) \in Node
         /\ Matched(kind).kind \in LeafKinds
         /\ position' \in Nat /\ position' <= Len(tokens) /\ position <= position'
         /\ kind # EOF => position' < Len(tokens)
         /\ diagnostics' \in Seq({ "lexical_error", "unexpected_token" })
         /\ diagnostics' = <<>> =>
               /\ diagnostics = <<>>
               /\ Matched(kind).token # 0
               /\ kind = EOF => position' = Len(tokens)
<1>1. /\ position \in Nat
      /\ diagnostics \in Seq({ "lexical_error", "unexpected_token" })
      /\ Len(tokens) \in Nat
      /\ position < Len(tokens)
      /\ Current = tokens[position + 1]
      /\ Current.kind = EOF <=> position + 1 = Len(tokens)
  BY CurrentIsReal DEF IInv, TypeOK
<1>2. CASE Matches(kind)
  <2>1. /\ position' = position + 1
        /\ diagnostics' = diagnostics
        /\ Matched(kind) = Leaf(position + 1)
        /\ Current.kind = kind
    BY <1>2 DEF MatchToken, Matched, Matches
  <2>2. /\ Leaf(position + 1) \in Node
        /\ Leaf(position + 1).kind = kind
        /\ Leaf(position + 1).token = position + 1
    BY <1>1, <2>1 DEF Leaf, Node
  <2> QED
    BY <1>1, <2>1, <2>2
<1>3. CASE ~Matches(kind)
  <2>1. /\ position' = position
        /\ diagnostics' = Append(diagnostics, "unexpected_token")
        /\ Matched(kind) = Hole(kind)
    BY <1>3 DEF MatchToken, Matched
  <2>2. /\ diagnostics' \in Seq({ "lexical_error", "unexpected_token" })
        /\ diagnostics' # <<>>
    BY <1>1, <2>1, AppendProperties
  <2>3. Hole(kind) \in Node /\ Hole(kind).kind = kind
    BY DEF Hole, Node
  <2> QED
    BY <1>1, <2>1, <2>2, <2>3
<1> QED
  BY <1>2, <1>3

--------------------------------------------------------------------------------
(* The heap stays well typed, and whole unless a hole is added to it.            *)

LEMMA HeapOne ==
  ASSUME NEW heap \in Seq(Node), NEW a \in Node
  PROVE  /\ Append(heap, a) \in Seq(Node)
         /\ Len(Append(heap, a)) = Len(heap) + 1
         /\ Whole(heap) /\ (a.kind \in LeafKinds => a.token # 0) => Whole(Append(heap, a))
<1>1. Len(heap) \in Nat
  OBVIOUS
<1>2. /\ Append(heap, a) \in Seq(Node)
      /\ Len(Append(heap, a)) = Len(heap) + 1
      /\ \A i \in 1..Len(heap) : Append(heap, a)[i] = heap[i]
      /\ Append(heap, a)[Len(heap) + 1] = a
  BY PushOne
<1> QED
  BY <1>1, <1>2 DEF Whole

LEMMA HeapTwo ==
  ASSUME NEW heap \in Seq(Node), NEW a \in Node, NEW b \in Node
  PROVE  /\ heap \o << a, b >> \in Seq(Node)
         /\ Len(heap \o << a, b >>) = Len(heap) + 2
         /\ (/\ Whole(heap)
             /\ a.kind \in LeafKinds => a.token # 0
             /\ b.kind \in LeafKinds => b.token # 0) => Whole(heap \o << a, b >>)
<1>1. Len(heap) \in Nat
  OBVIOUS
<1> DEFINE grown == heap \o << a, b >>
<1>2. /\ grown \in Seq(Node)
      /\ Len(grown) = Len(heap) + 2
      /\ \A i \in 1..Len(heap) : grown[i] = heap[i]
      /\ grown[Len(heap) + 1] = a
      /\ grown[Len(heap) + 2] = b
  BY PushTwo
<1> HIDE DEF grown
<1> QED
  BY <1>1, <1>2 DEF Whole, grown

LEMMA InnerIsNoLeaf ==
  \A kind \in NodeKinds : \A kids : Inner(kind, kids).kind \notin LeafKinds
BY DEF Inner, NodeKinds, ExpressionKinds, LeafKinds, TokenKinds, FixedTextKinds, OperatorKinds,
       ParenthesisKinds, KeywordKinds

--------------------------------------------------------------------------------
(* The stack of suspended calls.                                                 *)

\* Suspending a call other than the outermost one.
LEMMA PushFrame ==
  ASSUME IInv, control.fn \notin { "parser_new", "done" },
         NEW building \in NodeKinds \ { "COMPILATION_UNIT" },
         NEW held \in Seq(Nat),
         stack' = Append(stack, Suspend(building, held, control.parent))
                  \/ stack' = Append(stack, Suspend(building, held, 0)),
         control'.fn \in Functions \ { "parser_new", "done" }
  PROVE  /\ stack' \in Seq(Frame)
         /\ Len(stack') = Len(stack) + 1
         /\ StackShape'
<1>1. PICK parent \in Precedences : stack' = Append(stack, Suspend(building, held, parent))
  BY SMTT(30) DEF IInv, TypeOK, Call, Precedences
<1>2. Suspend(building, held, parent) \in Frame
  BY Constructors
<1>3. Suspend(building, held, parent).building # "COMPILATION_UNIT"
  BY DEF Suspend
<1>4. stack \in Seq(Frame) /\ stack # <<>> /\ Len(stack) \in Nat \ {0}
  BY EmptySeq DEF IInv, TypeOK, StackShape
<1> DEFINE top == Suspend(building, held, parent)
<1> HIDE DEF top
<1>5. /\ Append(stack, top) \in Seq(Frame)
      /\ Len(Append(stack, top)) = Len(stack) + 1
      /\ \A i \in 1..Len(stack) : Append(stack, top)[i] = stack[i]
      /\ Append(stack, top)[Len(stack) + 1] = top
  BY <1>2, <1>4, PushOne DEF top
<1>6. stack' = Append(stack, top)
  BY <1>1 DEF top
<1>7. stack' # <<>>
  BY <1>4, <1>5, <1>6
<1>8. \A i \in 1..Len(stack') : stack'[i].building = "COMPILATION_UNIT" <=> i = 1
  BY <1>3, <1>4, <1>5, <1>6 DEF IInv, StackShape, top
<1> QED
  BY <1>5, <1>6, <1>7, <1>8 DEF StackShape

\* Returning to the innermost suspended call: it is a frame, and it is the outermost
\* one exactly when it builds the compilation unit.
LEMMA PopFrame ==
  ASSUME IInv, control.fn = "return"
  PROVE  /\ Top \in Frame
         /\ Pop \in Seq(Frame)
         /\ Len(Pop) = Len(stack) - 1
         /\ Len(stack) \in Nat \ {0}
         /\ \A i \in 1..Len(Pop) : Pop[i].building = "COMPILATION_UNIT" <=> i = 1
         /\ Pop = <<>> <=> Top.building = "COMPILATION_UNIT"
<1>1. stack \in Seq(Frame) /\ stack # <<>>
  BY DEF IInv, TypeOK, StackShape
<1>2. /\ Pop \in Seq(Frame)
      /\ Len(Pop) = Len(stack) - 1
      /\ \A i \in 1..Len(stack) - 1 : Pop[i] = stack[i]
      /\ Top \in Frame
      /\ Len(stack) \in Nat \ {0}
  BY <1>1, PopOne DEF Pop, Top
<1>3. \A i \in 1..Len(stack) : stack[i].building = "COMPILATION_UNIT" <=> i = 1
  BY DEF IInv, StackShape
<1>4. Pop = <<>> <=> Len(stack) = 1
  BY <1>2, EmptySeq
<1>5. Top.building = "COMPILATION_UNIT" <=> Len(stack) = 1
  BY <1>2, <1>3 DEF Top
<1> QED
  BY <1>2, <1>3, <1>4, <1>5

--------------------------------------------------------------------------------
(* One step.                                                                     *)

\* What is left to show of a step of a parse function.
LEMMA ParseStep ==
  ASSUME IInv, InputUnchanged, control.fn \notin { "parser_new", "done" },
         control' \in Call, control'.fn # "parser_new",
         nodes' \in Seq(Node),
         diagnostics' \in Seq({ "lexical_error", "unexpected_token" }),
         position' \in Nat, position' <= Len(tokens),
         position' = Len(tokens) => control'.fn = "done",
         stack' \in Seq(Frame), StackShape', Len(stack') <= position' + 1,
         diagnostics' = <<>> => Whole(nodes'),
         diagnostics' = <<>> /\ control'.fn = "done" => position' = Len(tokens)
  PROVE  IInv'
<1>1. TypeOK'
  BY DEF IInv, TypeOK, InputUnchanged
<1>2. EndedByEOF' /\ PositionInBounds'
  BY DEF IInv, EndedByEOF, PositionInBounds, InputUnchanged
<1>3. StackBounded'
  BY DEF StackBounded
<1>4. CleanParseIsWhole'
  BY DEF CleanParseIsWhole, InputUnchanged
<1> QED
  BY <1>1, <1>2, <1>3, <1>4 DEF IInv

LEMMA LexTokenStep == IInv /\ LexToken => IInv'
<1> SUFFICES ASSUME IInv, LexToken PROVE IInv'
  OBVIOUS
<1> DEFINE token == lexed[read + 1]
<1>1. /\ lexed \in Seq(Token) /\ IsLexing(lexed)
      /\ read \in Nat /\ read < Len(lexed) /\ Len(lexed) \in Nat
      /\ tokens \in Seq(KeptToken)
      /\ \A n \in 1..Len(tokens) : tokens[n].kind # EOF
      /\ stack = <<>> /\ position = 0
  BY DEF IInv, TypeOK, EndedByEOF, PositionInBounds, StackShape, LexToken
<1>2. token \in Token /\ (token.kind = EOF <=> read + 1 = Len(lexed))
  BY <1>1, ElementOfSeq DEF IsLexing
<1> HIDE DEF token
<1>3. /\ read' = read + 1
      /\ tokens' = IF token.kind \in TriviaKinds THEN tokens ELSE Append(tokens, token)
      /\ UNCHANGED <<lexed, position, nodes>>
  BY DEF LexToken, token
<1>4. tokens' \in Seq(KeptToken)
  BY <1>1, <1>2, <1>3, AppendProperties DEF KeptToken
<1>5. diagnostics' \in Seq({ "lexical_error", "unexpected_token" })
      /\ (diagnostics' = <<>> => diagnostics = <<>>)
  <2>1. diagnostics \in Seq({ "lexical_error", "unexpected_token" })
    BY DEF IInv, TypeOK
  <2>2. /\ Append(diagnostics, "lexical_error") \in Seq({ "lexical_error", "unexpected_token" })
        /\ Append(diagnostics, "lexical_error") # <<>>
    BY <2>1, AppendProperties
  <2>3. diagnostics' = diagnostics \/ diagnostics' = Append(diagnostics, "lexical_error")
    BY DEF LexToken
  <2> QED
    BY <2>1, <2>2, <2>3
<1>6. CASE token.kind = EOF
  <2>1. /\ stack' = << Suspend("COMPILATION_UNIT", <<>>, 0) >>
        /\ control' = Run("parse_assignment_expression", 0, NoNode)
    BY <1>6 DEF LexToken, token
  <2>2. /\ Suspend("COMPILATION_UNIT", <<>>, 0) \in Frame
        /\ Suspend("COMPILATION_UNIT", <<>>, 0).building = "COMPILATION_UNIT"
        /\ control' \in Call
        /\ control'.fn = "parse_assignment_expression"
    <3>1. <<>> \in Seq(Nat) /\ 0 \in Precedences /\ "COMPILATION_UNIT" \in NodeKinds
      BY DEF NodeKinds, Precedences
    <3>2. control' \in Call /\ control'.fn = "parse_assignment_expression"
      BY <2>1, <3>1, Constructors DEF Run, Functions, NoNode
    <3> QED
      BY <3>1, <3>2, Constructors DEF Suspend
  <2>3. tokens' = Append(tokens, token)
    BY <1>3, <1>6 DEF TriviaKinds, EOF
  <2>4. /\ Len(tokens') = Len(tokens) + 1 /\ Len(tokens) \in Nat
        /\ \A n \in 1..Len(tokens) : tokens'[n] = tokens[n]
        /\ tokens'[Len(tokens) + 1] = token
    BY <1>1, <1>2, <1>6, <2>3, PushOne DEF KeptToken, TriviaKinds, EOF
  <2>5. stack' \in Seq(Frame) /\ Len(stack') = 1 /\ StackShape'
    <3> DEFINE frame == Suspend("COMPILATION_UNIT", <<>>, 0)
    <3> HIDE DEF frame
    <3>1. frame \in Frame /\ frame.building = "COMPILATION_UNIT" /\ stack' = << frame >>
      BY <2>1, <2>2 DEF frame
    <3> QED
      BY <2>2, <3>1 DEF StackShape
  <2>6. TypeOK'
    BY <1>1, <1>3, <1>4, <1>5, <2>2, <2>5 DEF IInv, TypeOK
  <2>7. tokens' # <<>> /\ \A n \in 1..Len(tokens') : tokens'[n].kind = EOF <=> n = Len(tokens')
    BY <1>1, <1>6, <2>4
  <2>8. EndedByEOF' /\ PositionInBounds'
    BY <1>1, <1>3, <2>2, <2>4, <2>7 DEF EndedByEOF, PositionInBounds
  <2>9. StackBounded' /\ CleanParseIsWhole'
    BY <1>1, <1>3, <1>5, <2>2, <2>5 DEF IInv, StackBounded, CleanParseIsWhole
  <2> QED
    BY <2>5, <2>6, <2>9, <2>8 DEF IInv
<1>7. CASE token.kind # EOF
  <2>1. UNCHANGED <<stack, control>>
    BY <1>7 DEF LexToken, token
  <2>2. TypeOK'
    BY <1>1, <1>3, <1>4, <1>5, <2>1 DEF IInv, TypeOK
  <2>3. /\ read' < Len(lexed')
        /\ \A n \in 1..Len(tokens') : tokens'[n].kind # EOF
    <3>1. read' < Len(lexed')
      BY <1>1, <1>2, <1>3, <1>7
    <3>2. CASE token.kind \in TriviaKinds
      BY <1>1, <1>3, <3>1, <3>2
    <3>3. CASE token.kind \notin TriviaKinds
      <4>1. token \in KeptToken /\ tokens' = Append(tokens, token) /\ Len(tokens) \in Nat
        BY <1>1, <1>2, <1>3, <3>3 DEF KeptToken
      <4>2. /\ Len(tokens') = Len(tokens) + 1
            /\ \A n \in 1..Len(tokens) : tokens'[n] = tokens[n]
            /\ tokens'[Len(tokens) + 1] = token
        BY <1>1, <4>1, PushOne
      <4> QED
        BY <1>1, <1>7, <3>1, <4>1, <4>2
    <3> QED
      BY <3>2, <3>3
  <2>4. EndedByEOF' /\ PositionInBounds'
    BY <1>1, <1>3, <2>1, <2>3 DEF EndedByEOF, PositionInBounds, LexToken
  <2>5. StackShape' /\ StackBounded' /\ CleanParseIsWhole'
    BY <1>3, <1>5, <2>1 DEF IInv, StackShape, StackBounded, CleanParseIsWhole, LexToken
  <2> QED
    BY <2>2, <2>4, <2>5 DEF IInv
<1> QED
  BY <1>6, <1>7

\* The facts about the current token that a parse function starts from.
LEMMA Reading ==
  ASSUME IInv, control.fn \notin { "parser_new", "done" }
  PROVE  /\ position \in Nat /\ Len(tokens) \in Nat /\ position < Len(tokens)
         /\ nodes \in Seq(Node) /\ Len(nodes) \in Nat
         /\ control.parent \in Precedences /\ control.node \in Nat
         /\ Len(stack) \in Nat /\ Len(stack) <= position + 1
         /\ diagnostics \in Seq({ "lexical_error", "unexpected_token" })
         /\ diagnostics = <<>> => Whole(nodes)
         /\ \A i \in 1..Len(tokens) : Leaf(i) \in Node /\ Leaf(i).token # 0
<1>1. \A i \in 1..Len(tokens) : tokens[i].kind \in LeafKinds
  BY TokenAssumption, ElementOfSeq DEF IInv, TypeOK, KeptToken, LeafKinds
<1>2. \A i \in 1..Len(tokens) : Leaf(i) \in Node /\ Leaf(i).token # 0
  BY <1>1 DEF Leaf, Node
<1> QED
  BY <1>2, CurrentIsReal DEF IInv, TypeOK, Call, StackBounded, CleanParseIsWhole

\* The name and the "=" of an assignment are not the last of the tokens.
LEMMA AssignmentIsInText ==
  ASSUME IInv, control.fn = "parse_assignment_expression", StartsAssignment
  PROVE  position + 2 < Len(tokens)
<1>1. position + 1 < Len(tokens)
  BY CurrentIsReal, Reading DEF StartsAssignment, Current, EOF
<1>2. tokens[position + 2].kind # EOF
  BY <1>1, Reading DEF StartsAssignment, Peek, EOF
<1>3. position + 2 \in 1..Len(tokens)
  BY <1>1, Reading
<1> QED
  BY <1>2, <1>3, Reading DEF IInv, EndedByEOF

LEMMA AssignmentTokens ==
  ASSUME IInv, control.fn = "parse_assignment_expression", StartsAssignment
  PROVE  tokens[position + 1].kind = "IDENTIFIER_TOKEN" /\ tokens[position + 2].kind = "EQUALS_TOKEN"
<1>1. position + 2 < Len(tokens) /\ position \in Nat /\ Len(tokens) \in Nat
  BY AssignmentIsInText, Reading
<1> QED
  BY <1>1 DEF StartsAssignment, Peek

LEMMA ParseAssignmentStep == IInv /\ ParseAssignment => IInv'
<1> SUFFICES ASSUME IInv, ParseAssignment PROVE IInv'
  OBVIOUS
<1>1. control.fn = "parse_assignment_expression" /\ control' = control /\ InputUnchanged
  BY DEF ParseAssignment
<1>2. position + 2 < Len(tokens)
  BY <1>1, AssignmentIsInText DEF ParseAssignment
<1>3. /\ nodes' \in Seq(Node)
      /\ diagnostics' = diagnostics
      /\ diagnostics = <<>> => Whole(nodes')
  <2>1. /\ nodes' = nodes \o << Leaf(position + 1), Leaf(position + 2) >>
        /\ diagnostics' = diagnostics
    BY DEF ParseAssignment
  <2>2. position + 1 \in 1..Len(tokens) /\ position + 2 \in 1..Len(tokens)
    BY <1>1, <1>2, Reading
  <2>3. /\ Leaf(position + 1) \in Node /\ Leaf(position + 1).token # 0
        /\ Leaf(position + 2) \in Node /\ Leaf(position + 2).token # 0
    BY <1>1, <2>2, Reading
  <2> QED
    BY <1>1, <2>1, <2>3, Reading, HeapTwo
<1>4. /\ stack' \in Seq(Frame)
      /\ Len(stack') = Len(stack) + 1
      /\ StackShape'
  <2>1. << Len(nodes) + 1, Len(nodes) + 2 >> \in Seq(Nat)
    BY <1>1, Reading
  <2>2. "ASSIGNMENT_EXPRESSION" \in NodeKinds \ { "COMPILATION_UNIT" }
    BY DEF NodeKinds, ExpressionKinds
  <2> QED
    BY <1>1, <2>1, <2>2, PushFrame DEF ParseAssignment, Functions
<1>5. position' = position + 2
  BY DEF ParseAssignment
<1> QED
  BY SMTT(30), <1>1, <1>2, <1>3, <1>4, <1>5, Reading, ParseStep DEF IInv, TypeOK

LEMMA ParseNoAssignmentStep == IInv /\ ParseNoAssignment => IInv'
<1> SUFFICES ASSUME IInv, ParseNoAssignment PROVE IInv'
  OBVIOUS
<1>1. /\ control.fn = "parse_assignment_expression"
      /\ control' = Run("parse_binary_expression", 0, NoNode)
      /\ UNCHANGED <<position, diagnostics, nodes, stack>>
      /\ InputUnchanged
  BY DEF ParseNoAssignment
<1>2. control' \in Call /\ control'.fn = "parse_binary_expression"
  BY <1>1, Constructors DEF Run, Functions, Precedences, NoNode
<1>3. StackShape'
  BY <1>1, <1>2 DEF IInv, StackShape
<1> QED
  BY <1>1, <1>2, <1>3, Reading, ParseStep DEF IInv, TypeOK

LEMMA ParseUnaryStep == IInv /\ ParseUnary => IInv'
<1> SUFFICES ASSUME IInv, ParseUnary PROVE IInv'
  OBVIOUS
<1>1. /\ control.fn = "parse_binary_expression" /\ InputUnchanged
      /\ position' = position + 1 /\ diagnostics' = diagnostics
  BY DEF ParseUnary
<1>2. position + 1 < Len(tokens)
  <2>1. Current.kind # EOF
    BY DEF ParseUnary, StartsUnary, UnaryOperatorPrecedence, EOF
  <2> QED
    BY <1>1, <2>1, CurrentIsReal, Reading
<1>3. control' \in Call /\ control'.fn = "parse_binary_expression"
  BY PrecedenceBounds, Constructors DEF ParseUnary, Run, Functions, NoNode
<1>4. nodes' \in Seq(Node) /\ (diagnostics = <<>> => Whole(nodes'))
  BY <1>1, <1>2, Reading, HeapOne DEF ParseUnary
<1>5. /\ stack' \in Seq(Frame)
      /\ Len(stack') = Len(stack) + 1
      /\ StackShape'
  <2>1. << Len(nodes) + 1 >> \in Seq(Nat)
    BY <1>1, Reading
  <2>2. "UNARY_EXPRESSION" \in NodeKinds \ { "COMPILATION_UNIT" }
    BY DEF NodeKinds, ExpressionKinds
  <2> QED
    BY <1>1, <1>3, <2>1, <2>2, PushFrame DEF ParseUnary, Functions
<1> QED
  BY <1>1, <1>2, <1>3, <1>4, <1>5, Reading, ParseStep

LEMMA ParseParenthesizedStep == IInv /\ ParseParenthesized => IInv'
<1> SUFFICES ASSUME IInv, ParseParenthesized PROVE IInv'
  OBVIOUS
<1> DEFINE open == "OPEN_PARENTHESIS_TOKEN"
<1>1. /\ control.fn = "parse_binary_expression" /\ InputUnchanged
      /\ MatchToken(open) /\ Matches(open)
      /\ nodes' = Append(nodes, Matched(open))
  BY DEF ParseParenthesized, ParsesPrimary, Matches
<1>2. open \in LeafKinds /\ open # EOF
  BY DEF LeafKinds, TokenKinds, FixedTextKinds, ParenthesisKinds, EOF
<1>3. /\ position' = position + 1 /\ position' < Len(tokens)
      /\ diagnostics' = diagnostics
      /\ Matched(open) \in Node
      /\ diagnostics = <<>> => Matched(open).token # 0
  BY <1>1, <1>2, MatchTokenBounds DEF MatchToken
<1>4. control' \in Call /\ control'.fn = "parse_assignment_expression"
  BY Constructors DEF ParseParenthesized, Run, Functions, Precedences, NoNode
<1>5. nodes' \in Seq(Node) /\ (diagnostics = <<>> => Whole(nodes'))
  BY <1>1, <1>3, Reading, HeapOne
<1>6. /\ stack' \in Seq(Frame)
      /\ Len(stack') = Len(stack) + 1
      /\ StackShape'
  <2>1. << Len(nodes) + 1 >> \in Seq(Nat)
    BY <1>1, Reading
  <2>2. "PARENTHESIZED_EXPRESSION" \in NodeKinds \ { "COMPILATION_UNIT" }
    BY DEF NodeKinds, ExpressionKinds
  <2> QED
    BY <1>1, <1>4, <2>1, <2>2, PushFrame DEF ParseParenthesized, Functions
<1> QED
  BY <1>1, <1>3, <1>4, <1>5, <1>6, Reading, ParseStep

\* The literals and the names differ in the token they match only.
LEMMA ParseSingleStep ==
  ASSUME IInv, ParsesPrimary, NEW expression \in ExpressionKinds,
         NEW kind \in LeafKinds \ { EOF }, ParseSingle(expression, kind)
  PROVE  IInv'
<1>1. /\ control.fn = "parse_binary_expression" /\ InputUnchanged
      /\ MatchToken(kind) /\ stack' = stack
      /\ nodes' = nodes \o << Matched(kind), Inner(expression, << Len(nodes) + 1 >>) >>
      /\ control' = Run("parse_binary_expression_loop", control.parent, Len(nodes) + 2)
  BY DEF ParseSingle, ParsesPrimary
<1>2. /\ position' \in Nat /\ position' < Len(tokens) /\ position <= position'
      /\ diagnostics' \in Seq({ "lexical_error", "unexpected_token" })
      /\ Matched(kind) \in Node
      /\ diagnostics' = <<>> => diagnostics = <<>> /\ Matched(kind).token # 0
  BY <1>1, MatchTokenBounds, Reading
<1>3. control' \in Call /\ control'.fn = "parse_binary_expression_loop"
  BY <1>1, Constructors, Reading DEF Run, Functions
<1>4. nodes' \in Seq(Node) /\ (diagnostics' = <<>> => Whole(nodes'))
  <2>1. << Len(nodes) + 1 >> \in Seq(Nat) /\ expression \in NodeKinds
    BY <1>1, Reading DEF NodeKinds
  <2>2. /\ Inner(expression, << Len(nodes) + 1 >>) \in Node
        /\ Inner(expression, << Len(nodes) + 1 >>).kind \notin LeafKinds
    BY <2>1, Constructors, InnerIsNoLeaf
  <2> QED
    BY <1>1, <1>2, <2>2, Reading, HeapTwo
<1>5. StackShape' /\ stack' \in Seq(Frame)
  BY <1>1, <1>3 DEF IInv, TypeOK, StackShape
<1> QED
  BY <1>1, <1>2, <1>3, <1>4, <1>5, Reading, ParseStep

LEMMA PrimaryStep ==
  IInv /\ (ParseBooleanLiteral \/ ParseNumberLiteral \/ ParseName) => IInv'
<1> SUFFICES ASSUME IInv, ParseBooleanLiteral \/ ParseNumberLiteral \/ ParseName PROVE IInv'
  OBVIOUS
<1>1. /\ {"LITERAL_EXPRESSION", "NAME_EXPRESSION"} \subseteq ExpressionKinds
      /\ {"NUMBER_TOKEN", "IDENTIFIER_TOKEN"} \cup KeywordKinds \subseteq LeafKinds \ { EOF }
  BY DEF ExpressionKinds, LeafKinds, TokenKinds, FixedTextKinds, KeywordKinds, EOF
<1>2. CASE ParseBooleanLiteral
  BY <1>1, <1>2, ParseSingleStep DEF ParseBooleanLiteral
<1>3. CASE ParseNumberLiteral
  BY <1>1, <1>3, ParseSingleStep DEF ParseNumberLiteral
<1>4. CASE ParseName
  BY <1>1, <1>4, ParseSingleStep DEF ParseName
<1> QED
  BY <1>2, <1>3, <1>4

LEMMA ParseBinaryRightStep == IInv /\ ParseBinaryRight => IInv'
<1> SUFFICES ASSUME IInv, ParseBinaryRight PROVE IInv'
  OBVIOUS
<1>1. /\ control.fn = "parse_binary_expression_loop" /\ InputUnchanged
      /\ position' = position + 1 /\ diagnostics' = diagnostics
      /\ nodes' = Append(nodes, Leaf(position + 1))
  BY DEF ParseBinaryRight
<1>2. position + 1 < Len(tokens)
  <2>1. Current.kind # EOF
    BY DEF ParseBinaryRight, Extends, BinaryOperatorPrecedence, EOF
  <2> QED
    BY <1>1, <2>1, CurrentIsReal, Reading
<1>3. control' \in Call /\ control'.fn = "parse_binary_expression"
  BY PrecedenceBounds, Constructors DEF ParseBinaryRight, Run, Functions, NoNode
<1>4. nodes' \in Seq(Node) /\ (diagnostics = <<>> => Whole(nodes'))
  BY <1>1, <1>2, Reading, HeapOne
<1>5. /\ stack' \in Seq(Frame)
      /\ Len(stack') = Len(stack) + 1
      /\ StackShape'
  <2>1. << control.node, Len(nodes) + 1 >> \in Seq(Nat)
    BY <1>1, Reading
  <2>2. "BINARY_EXPRESSION" \in NodeKinds \ { "COMPILATION_UNIT" }
    BY DEF NodeKinds, ExpressionKinds
  <2> QED
    BY <1>1, <1>3, <2>1, <2>2, PushFrame DEF ParseBinaryRight, Functions
<1> QED
  BY <1>1, <1>2, <1>3, <1>4, <1>5, Reading, ParseStep

LEMMA ReturnLeftStep == IInv /\ ReturnLeft => IInv'
<1> SUFFICES ASSUME IInv, ReturnLeft PROVE IInv'
  OBVIOUS
<1>1. /\ control.fn = "parse_binary_expression_loop"
      /\ control' = Run("return", 0, control.node)
      /\ UNCHANGED <<position, diagnostics, nodes, stack>>
      /\ InputUnchanged
  BY DEF ReturnLeft
<1>2. control' \in Call /\ control'.fn = "return"
  BY <1>1, Constructors, Reading DEF Run, Functions, Precedences
<1>3. StackShape'
  BY <1>1, <1>2 DEF IInv, StackShape
<1> QED
  BY <1>1, <1>2, <1>3, Reading, ParseStep DEF IInv, TypeOK

\* Going back to the innermost suspended call, when it is not the outermost one.
LEMMA ReturnFrame ==
  ASSUME IInv, control.fn = "return", Top.building # "COMPILATION_UNIT",
         stack' = Pop, control'.fn \in Functions \ { "parser_new", "done" }
  PROVE  /\ stack' \in Seq(Frame)
         /\ Len(stack') + 1 = Len(stack)
         /\ StackShape'
BY PopFrame DEF StackShape

\* The kids of a node built over what the suspended call held and what it got.
LEMMA HeldKids ==
  ASSUME IInv, control.fn = "return"
  PROVE  /\ Top.held \in Seq(Nat) /\ Top.parent \in Precedences /\ Top.building \in NodeKinds
         /\ Append(Top.held, control.node) \in Seq(Nat)
         /\ Top.held \o << control.node, Len(nodes) + 1 >> \in Seq(Nat)
<1>1. Top.held \in Seq(Nat) /\ Top.parent \in Precedences /\ Top.building \in NodeKinds
  BY PopFrame DEF Frame
<1>2. control.node \in Nat /\ Len(nodes) + 1 \in Nat
  BY Reading
<1> QED
  BY <1>1, <1>2, PushOne, PushTwo

\* An expression node over the finished operands; the call above it goes on at next.
LEMMA FinishNodeStep ==
  ASSUME IInv, InputUnchanged, NEW building \in ExpressionKinds, Returning(building),
         NEW next \in { "parse_binary_expression_loop", "return" }, NEW parent \in Precedences,
         nodes' = Append(nodes, Inner(building, Append(Top.held, control.node))),
         control' = Run(next, parent, Len(nodes) + 1),
         stack' = Pop, UNCHANGED <<position, diagnostics>>
  PROVE  IInv'
<1>1. control.fn = "return" /\ Top.building # "COMPILATION_UNIT" /\ building \in NodeKinds
  BY DEF Returning, ExpressionKinds, NodeKinds
<1>2. control' \in Call /\ control'.fn = next /\ next \in Functions \ { "parser_new", "done" }
  BY <1>1, Constructors, Reading DEF Run, Functions
<1>3. nodes' \in Seq(Node) /\ (diagnostics = <<>> => Whole(nodes'))
  <2> DEFINE node == Inner(building, Append(Top.held, control.node))
  <2>1. node \in Node /\ node.kind \notin LeafKinds
    BY <1>1, HeldKids, Constructors, InnerIsNoLeaf
  <2> HIDE DEF node
  <2>2. nodes' = Append(nodes, node)
    BY DEF node
  <2> QED
    BY <1>1, <2>1, <2>2, Reading, HeapOne
<1>4. stack' \in Seq(Frame) /\ Len(stack') + 1 = Len(stack) /\ StackShape'
  BY <1>1, <1>2, ReturnFrame
<1>5. Len(stack') \in Nat
  BY <1>4
<1> QED
  BY <1>1, <1>2, <1>3, <1>4, <1>5, Reading, ParseStep

LEMMA FinishOperatorStep == IInv /\ FinishOperator => IInv'
<1> SUFFICES ASSUME IInv, FinishOperator PROVE IInv'
  OBVIOUS
<1>1. PICK building \in { "UNARY_EXPRESSION", "BINARY_EXPRESSION" } :
        /\ Returning(building)
        /\ nodes' = Append(nodes, Inner(building, Append(Top.held, control.node)))
  BY DEF FinishOperator
<1>2. building \in ExpressionKinds
  BY DEF ExpressionKinds
<1>3. Top.parent \in Precedences
  BY <1>1, HeldKids DEF Returning
<1>4. /\ control' = Run("parse_binary_expression_loop", Top.parent, Len(nodes) + 1)
      /\ stack' = Pop /\ UNCHANGED <<position, diagnostics>> /\ InputUnchanged
  BY DEF FinishOperator
<1> QED
  BY <1>1, <1>2, <1>3, <1>4, FinishNodeStep

LEMMA FinishAssignmentStep == IInv /\ FinishAssignment => IInv'
<1> SUFFICES ASSUME IInv, FinishAssignment PROVE IInv'
  OBVIOUS
<1> DEFINE building == "ASSIGNMENT_EXPRESSION"
<1>1. building \in ExpressionKinds /\ 0 \in Precedences
  BY DEF ExpressionKinds, Precedences
<1>2. /\ Returning(building)
      /\ nodes' = Append(nodes, Inner(building, Append(Top.held, control.node)))
      /\ control' = Run("return", 0, Len(nodes) + 1)
      /\ stack' = Pop /\ UNCHANGED <<position, diagnostics>> /\ InputUnchanged
  BY DEF FinishAssignment
<1> QED
  BY <1>1, <1>2, FinishNodeStep

\* Both ways to finish with a closing token: what the heap and the position become.
LEMMA FinishWithEffect ==
  ASSUME IInv, NEW building \in NodeKinds, NEW closing \in LeafKinds, NEW next \in Functions,
         FinishWith(building, closing, next)
  PROVE  /\ control.fn = "return" /\ Top.building = building /\ InputUnchanged
         /\ control' \in Call /\ control'.fn = next
         /\ nodes' \in Seq(Node)
         /\ position' \in Nat /\ position' <= Len(tokens) /\ position <= position'
         /\ closing # EOF => position' < Len(tokens)
         /\ diagnostics' \in Seq({ "lexical_error", "unexpected_token" })
         /\ diagnostics' = <<>> => Whole(nodes')
         /\ diagnostics' = <<>> /\ closing = EOF => position' = Len(tokens)
         /\ stack' = Pop
<1> DEFINE kids == Top.held \o << control.node, Len(nodes) + 1 >>
           node == Inner(building, kids)
           leaf == Matched(closing)
<1>1. /\ control.fn = "return" /\ Top.building = building /\ InputUnchanged
      /\ MatchToken(closing) /\ stack' = Pop
      /\ nodes' = nodes \o << leaf, node >>
      /\ control' = Run(next, Top.parent, Len(nodes) + 2)
  BY DEF FinishWith, Returning
<1>2. control' \in Call /\ control'.fn = next
  <2>1. Top.parent \in Precedences /\ Len(nodes) + 2 \in Nat
    BY <1>1, HeldKids, Reading
  <2> QED
    BY <1>1, <2>1, Constructors DEF Run
<1>3. node \in Node /\ node.kind \notin LeafKinds
  <2>1. kids \in Seq(Nat)
    BY <1>1, HeldKids
  <2> HIDE DEF kids
  <2> QED
    BY <2>1, Constructors, InnerIsNoLeaf
<1>4. /\ position' \in Nat /\ position' <= Len(tokens) /\ position <= position'
      /\ closing # EOF => position' < Len(tokens)
      /\ diagnostics' \in Seq({ "lexical_error", "unexpected_token" })
      /\ leaf \in Node
      /\ diagnostics' = <<>> =>
            diagnostics = <<>> /\ leaf.token # 0 /\ (closing = EOF => position' = Len(tokens))
  BY <1>1, MatchTokenBounds
<1>5. nodes' \in Seq(Node) /\ (diagnostics' = <<>> => Whole(nodes'))
  <2> HIDE DEF leaf, node
  <2> QED
    BY <1>1, <1>3, <1>4, Reading, HeapTwo
<1> QED
  BY <1>1, <1>2, <1>4, <1>5

LEMMA FinishParenthesizedStep == IInv /\ FinishParenthesized => IInv'
<1> SUFFICES ASSUME IInv, FinishParenthesized PROVE IInv'
  OBVIOUS
<1> DEFINE building == "PARENTHESIZED_EXPRESSION"
           closing  == "CLOSE_PARENTHESIS_TOKEN"
           next     == "parse_binary_expression_loop"
<1>1. /\ building \in NodeKinds \ { "COMPILATION_UNIT" }
      /\ closing \in LeafKinds \ { EOF }
      /\ next \in Functions \ { "parser_new", "done" }
  BY DEF NodeKinds, ExpressionKinds, LeafKinds, TokenKinds, FixedTextKinds, ParenthesisKinds,
         EOF, Functions
<1>2. FinishWith(building, closing, next)
  BY DEF FinishParenthesized
<1>3. /\ control.fn = "return" /\ Top.building # "COMPILATION_UNIT" /\ InputUnchanged
      /\ control' \in Call /\ control'.fn = next
      /\ nodes' \in Seq(Node)
      /\ position' \in Nat /\ position' < Len(tokens) /\ position <= position'
      /\ diagnostics' \in Seq({ "lexical_error", "unexpected_token" })
      /\ diagnostics' = <<>> => Whole(nodes')
      /\ stack' = Pop
  BY <1>1, <1>2, FinishWithEffect
<1>4. stack' \in Seq(Frame) /\ Len(stack') + 1 = Len(stack) /\ StackShape'
  BY <1>1, <1>3, ReturnFrame
<1>5. Len(stack') \in Nat
  BY <1>4
<1> QED
  BY <1>1, <1>3, <1>4, <1>5, Reading, ParseStep

LEMMA FinishCompilationUnitStep == IInv /\ FinishCompilationUnit => IInv'
<1> SUFFICES ASSUME IInv, FinishCompilationUnit PROVE IInv'
  OBVIOUS
<1>1. "COMPILATION_UNIT" \in NodeKinds /\ EOF \in LeafKinds /\ "done" \in Functions
  BY DEF NodeKinds, LeafKinds, TokenKinds, EOF, Functions
<1>2. FinishWith("COMPILATION_UNIT", EOF, "done")
  BY DEF FinishCompilationUnit
<1>3. /\ control.fn = "return" /\ Top.building = "COMPILATION_UNIT" /\ InputUnchanged
      /\ control' \in Call /\ control'.fn = "done"
      /\ nodes' \in Seq(Node)
      /\ position' \in Nat /\ position' <= Len(tokens)
      /\ diagnostics' \in Seq({ "lexical_error", "unexpected_token" })
      /\ diagnostics' = <<>> => Whole(nodes') /\ position' = Len(tokens)
      /\ stack' = Pop
  BY <1>1, <1>2, FinishWithEffect
<1>4. stack' \in Seq(Frame) /\ stack' = <<>>
  BY <1>3, PopFrame
<1>5. StackShape'
  BY <1>3, <1>4 DEF StackShape
<1>6. Len(stack') <= position' + 1
  <2>1. \A n \in Nat : 0 <= n + 1
    OBVIOUS
  <2> QED
    BY <1>3, <1>4, <2>1
<1>7. /\ diagnostics' = <<>> => Whole(nodes')
      /\ diagnostics' = <<>> /\ control'.fn = "done" => position' = Len(tokens)
      /\ position' = Len(tokens) => control'.fn = "done"
  BY <1>3
<1>8. control.fn \notin { "parser_new", "done" } /\ control'.fn # "parser_new"
  BY <1>3
<1> QED
  BY <1>3, <1>4, <1>5, <1>7, <1>8, <1>6, ParseStep

--------------------------------------------------------------------------------
(* The theorems.                                                                 *)

LEMMA StepInvariant == IInv /\ [Next]_vars => IInv'
<1> SUFFICES ASSUME IInv, [Next]_vars PROVE IInv'
  OBVIOUS
<1>1. CASE Next
  BY <1>1, LexTokenStep, ParseAssignmentStep, ParseNoAssignmentStep, ParseUnaryStep,
     ParseParenthesizedStep, PrimaryStep, ParseBinaryRightStep, ReturnLeftStep,
     FinishOperatorStep, FinishAssignmentStep, FinishParenthesizedStep,
     FinishCompilationUnitStep
  DEF Next
<1>2. CASE UNCHANGED vars
  BY <1>2
  DEF vars, IInv, TypeOK, EndedByEOF, PositionInBounds, StackShape, StackBounded,
      CleanParseIsWhole, Whole, IsLexing
<1> QED
  BY <1>1, <1>2

\* The inductive invariant of the parser: it holds in every state of every parse,
\* whatever the lexer read.
THEOREM ParserInvariant == Spec => []IInv
<1>1. Init => IInv
  BY InitInvariant
<1>2. IInv /\ [Next]_vars => IInv'
  BY StepInvariant
<1> QED
  BY <1>1, <1>2, PTL DEF Spec

\* parser_new and the parse_* functions of parser.c only ever build well-formed
\* tokens, nodes and calls, and only ever ask for a precedence the tables have.
THEOREM ParserTypeCorrect == Spec => []TypeOK
<1>1. IInv => TypeOK
  BY DEF IInv
<1> QED
  BY <1>1, ParserInvariant, PTL

\* The unchecked parser->position++ of next_token stays inside parser->tokens for
\* every text: only parse_compilation_unit consumes the end of file.
THEOREM PositionStaysInBounds == Spec => []PositionInBounds
<1>1. IInv => PositionInBounds
  BY DEF IInv
<1> QED
  BY <1>1, ParserInvariant, PTL

\* The recursion of the parse_* functions is no deeper than the tokens consumed.
THEOREM RecursionIsBounded == Spec => []StackBounded
<1>1. IInv => StackBounded
  BY DEF IInv
<1> QED
  BY <1>1, ParserInvariant, PTL

\* An empty bag of diagnostics, all that main.c looks at before it evaluates, means
\* that the whole text was consumed and that no token of the tree is manufactured.
THEOREM SilenceMeansWhole == Spec => []CleanParseIsWhole
<1>1. IInv => CleanParseIsWhole
  BY DEF IInv
<1> QED
  BY <1>1, ParserInvariant, PTL

--------------------------------------------------------------------------------
(* The shape of the trees.                                                       *)

LEMMA OperatorLevels ==
    \A kind : BinaryOperatorPrecedence(kind) \in 0..5 /\ UnaryOperatorPrecedence(kind) \in { 0, 6 }
BY DEF BinaryOperatorPrecedence, UnaryOperatorPrecedence

LEMMA TopLevels == \A heap, n : TopPrecedence(heap, n) \in 0..7
BY OperatorLevels DEF TopPrecedence

\* A heap is never changed, only added to.
Grows(old, new) ==
    /\ Len(old) \in Nat /\ Len(new) \in Nat /\ Len(old) <= Len(new)
    /\ \A n \in 1..Len(old) : new[n] = old[n]

LEMMA NodeKept ==
  ASSUME NEW old, NEW new, Grows(old, new), NEW n \in 1..Len(old), WellBuilt(old, n)
  PROVE  TopPrecedence(new, n) = TopPrecedence(old, n) /\ WellBuilt(new, n)
<1>1. new[n] = old[n]
  BY DEF Grows
<1>2. WellBuilt(new, n)
  BY <1>1 DEF WellBuilt
<1>3. \A k \in 1..Arity(old[n].kind) : new[old[n].kids[k]] = old[old[n].kids[k]]
  BY DEF WellBuilt, Grows
<1>4. CASE old[n].kind = "BINARY_EXPRESSION"
  <2>1. 2 \in 1..Arity(old[n].kind)
    BY <1>4 DEF Arity
  <2>2. new[old[n].kids[2]] = old[old[n].kids[2]]
    BY <1>3, <2>1
  <2> QED
    BY <1>1, <1>2, <1>4, <2>2 DEF TopPrecedence
<1>5. CASE old[n].kind = "UNARY_EXPRESSION"
  <2>1. 1 \in 1..Arity(old[n].kind)
    BY <1>5 DEF Arity
  <2>2. new[old[n].kids[1]] = old[old[n].kids[1]]
    BY <1>3, <2>1
  <2> QED
    BY <1>1, <1>2, <1>5, <2>2 DEF TopPrecedence
<1>6. CASE old[n].kind \notin Operators
  BY <1>1, <1>2, <1>6 DEF TopPrecedence, Operators
<1> QED
  BY <1>4, <1>5, <1>6 DEF Operators

LEMMA ShapedKept ==
  ASSUME NEW old, NEW new, Grows(old, new), HeapShape(old), NEW n \in 1..Len(old)
  PROVE  WellBuilt(new, n) /\ Shaped(new, n)
<1>1. WellBuilt(old, n) /\ Shaped(old, n) /\ \A m \in 1..Len(old) : WellBuilt(old, m)
  BY DEF HeapShape
<1>2. new[n] = old[n]
  BY DEF Grows
<1>3. WellBuilt(new, n) /\ TopPrecedence(new, n) = TopPrecedence(old, n)
  BY <1>1, NodeKept
<1>4. \A k \in 1..Arity(old[n].kind) :
         TopPrecedence(new, old[n].kids[k]) = TopPrecedence(old, old[n].kids[k])
  <2> SUFFICES ASSUME NEW k \in 1..Arity(old[n].kind)
               PROVE  TopPrecedence(new, old[n].kids[k]) = TopPrecedence(old, old[n].kids[k])
    OBVIOUS
  <2>1. PICK m \in 1..Len(old) : m = old[n].kids[k]
    BY <1>1 DEF WellBuilt, Grows
  <2> QED
    BY <1>1, <2>1, NodeKept
<1>5. CASE old[n].kind = "BINARY_EXPRESSION"
  <2>1. 1 \in 1..Arity(old[n].kind) /\ 3 \in 1..Arity(old[n].kind)
    BY <1>5 DEF Arity
  <2> QED
    BY <1>1, <1>2, <1>3, <1>4, <1>5, <2>1 DEF Shaped
<1>6. CASE old[n].kind = "UNARY_EXPRESSION"
  <2>1. 2 \in 1..Arity(old[n].kind)
    BY <1>6 DEF Arity
  <2> QED
    BY <1>1, <1>2, <1>3, <1>4, <1>6, <2>1 DEF Shaped
<1>7. CASE old[n].kind \notin Operators
  BY <1>2, <1>3, <1>7 DEF Shaped, Operators
<1> QED
  BY <1>5, <1>6, <1>7 DEF Operators

\* A heap that a well-built node is added to.
LEMMA AddNode ==
  ASSUME NEW heap \in Seq(Node), HeapShape(heap), NEW node \in Node,
         NEW new, new = Append(heap, node),
         WellBuilt(new, Len(heap) + 1), Shaped(new, Len(heap) + 1)
  PROVE  HeapShape(new)
<1>1. Grows(heap, new) /\ Len(new) = Len(heap) + 1 /\ Len(heap) \in Nat
  BY PushOne DEF Grows
<1>2. ASSUME NEW n \in 1..Len(new) PROVE WellBuilt(new, n) /\ Shaped(new, n)
  <2>1. CASE n \in 1..Len(heap)
    BY <1>1, <2>1, ShapedKept
  <2>2. CASE n = Len(heap) + 1
    BY <2>2
  <2> QED
    BY <1>1, <2>1, <2>2
<1> QED
  BY <1>2 DEF HeapShape

LEMMA LeafOrInner ==
  /\ LeafKinds \cap NodeKinds = {}
  /\ ExpressionKinds \subseteq NodeKinds
BY DEF NodeKinds, ExpressionKinds, LeafKinds, TokenKinds, FixedTextKinds, OperatorKinds,
       ParenthesisKinds, KeywordKinds

\* A copied token or a manufactured one.
IsLeaf(node) == node \in Node /\ node.kind \in LeafKinds /\ node.kids = <<>>

LEMMA AddLeaf ==
  ASSUME NEW heap \in Seq(Node), HeapShape(heap), NEW leaf, IsLeaf(leaf),
         NEW new, new = Append(heap, leaf)
  PROVE  /\ HeapShape(new) /\ Grows(heap, new) /\ new \in Seq(Node)
         /\ Len(new) = Len(heap) + 1 /\ Len(heap) \in Nat
         /\ new[Len(heap) + 1] = leaf
<1>1. /\ Grows(heap, new) /\ Len(new) = Len(heap) + 1 /\ Len(heap) \in Nat
      /\ new \in Seq(Node) /\ new[Len(heap) + 1] = leaf
  BY PushOne DEF Grows, IsLeaf
<1> DEFINE n == Len(heap) + 1
<1>2. new[n].kind \in LeafKinds /\ new[n].kids = <<>>
  BY <1>1 DEF IsLeaf
<1> HIDE DEF n
<1>3. new[n].kind \notin ExpressionKinds \cup { "COMPILATION_UNIT" }
  BY <1>2, LeafOrInner DEF NodeKinds
<1>4. Arity(new[n].kind) = 0
  BY <1>3 DEF Arity, ExpressionKinds
<1>5. WellBuilt(new, n)
  BY <1>2, <1>4 DEF WellBuilt
<1>6. Shaped(new, n)
  BY <1>3 DEF Shaped, ExpressionKinds
<1> QED
  BY <1>1, <1>5, <1>6, AddNode DEF n, IsLeaf

LEMMA AppendTwice ==
  ASSUME NEW S, NEW s \in Seq(S), NEW a \in S, NEW b \in S
  PROVE  s \o << a, b >> = Append(Append(s, a), b)
<1>1. /\ s \o << a, b >> \in Seq(S) /\ Len(s \o << a, b >>) = Len(s) + 2
      /\ \A i \in 1..Len(s) : (s \o << a, b >>)[i] = s[i]
      /\ (s \o << a, b >>)[Len(s) + 1] = a
      /\ (s \o << a, b >>)[Len(s) + 2] = b
  BY PushTwo
<1>2. /\ Append(s, a) \in Seq(S) /\ Len(Append(s, a)) = Len(s) + 1
      /\ \A i \in 1..Len(s) : Append(s, a)[i] = s[i]
      /\ Append(s, a)[Len(s) + 1] = a
  BY PushOne
<1>3. /\ Append(Append(s, a), b) \in Seq(S)
      /\ Len(Append(Append(s, a), b)) = Len(Append(s, a)) + 1
      /\ \A i \in 1..Len(Append(s, a)) : Append(Append(s, a), b)[i] = Append(s, a)[i]
      /\ Append(Append(s, a), b)[Len(Append(s, a)) + 1] = b
  BY <1>2, PushOne
<1> DEFINE u == s \o << a, b >>
           v == Append(s, a)
           w == Append(v, b)
<1> HIDE DEF u, v, w
<1>4. Len(s) \in Nat
  OBVIOUS
<1>5. Len(u) = Len(w) /\ u \in Seq(S) /\ w \in Seq(S)
  BY <1>1, <1>2, <1>3, <1>4 DEF u, v, w
<1>6. \A i \in 1..Len(u) : u[i] = w[i]
  BY <1>1, <1>2, <1>3, <1>4 DEF u, v, w
<1>7. u = w
  BY <1>5, <1>6, SeqEqual
<1> QED
  BY <1>7 DEF u, v, w

\* The suspended calls keep their shape when the heap grows.
LEMMA FrameKept ==
  ASSUME NEW old, NEW new, Grows(old, new), HeapShape(old), NEW frame, WellHeld(old, frame)
  PROVE  /\ WellHeld(new, frame) /\ Given(new, frame) = Given(old, frame)
         /\ Operands(old, frame) => Operands(new, frame)
<1>1. \A k \in 1..HeldBy(frame.building) :
         /\ frame.held[k] \in 1..Len(old) /\ frame.held[k] \in 1..Len(new)
         /\ new[frame.held[k]] = old[frame.held[k]]
  BY DEF WellHeld, Grows
<1>2. WellHeld(new, frame)
  BY <1>1 DEF WellHeld
<1>3. CASE frame.building = "BINARY_EXPRESSION"
  <2>1. 1 \in 1..HeldBy(frame.building) /\ 2 \in 1..HeldBy(frame.building)
    BY <1>3 DEF HeldBy
  <2>2. PICK m \in 1..Len(old) : m = frame.held[1]
    BY <1>1, <2>1
  <2>3. TopPrecedence(new, m) = TopPrecedence(old, m)
    BY NodeKept DEF HeapShape
  <2>4. new[frame.held[2]] = old[frame.held[2]]
    BY <1>1, <2>1
  <2>5. Given(new, frame) = Given(old, frame)
    BY <1>3, <2>4 DEF Given
  <2> QED
    BY <1>2, <1>3, <2>2, <2>3, <2>5 DEF Operands
<1>4. CASE frame.building = "UNARY_EXPRESSION"
  <2>1. 1 \in 1..HeldBy(frame.building)
    BY <1>4 DEF HeldBy
  <2>2. new[frame.held[1]] = old[frame.held[1]]
    BY <1>1, <2>1
  <2>3. Given(new, frame) = Given(old, frame)
    BY <1>4, <2>2 DEF Given
  <2> QED
    BY <1>2, <1>4, <2>3 DEF Operands
<1>5. CASE frame.building \notin Operators
  BY <1>2, <1>5 DEF Operands, Given, Operators
<1> QED
  BY <1>3, <1>4, <1>5 DEF Operators

LEMMA CallsKept ==
  ASSUME NEW old, NEW new, Grows(old, new), HeapShape(old), NEW calls, CallsShape(old, calls)
  PROVE  CallsShape(new, calls)
<1>1. ASSUME NEW i \in 1..Len(calls)
      PROVE  WellHeld(new, calls[i]) /\ Operands(new, calls[i]) /\ Given(new, calls[i]) = Given(old, calls[i])
  BY FrameKept DEF CallsShape
<1>2. ASSUME Len(calls) \in Nat, NEW i \in 1..Len(calls) - 1 PROVE Called(new, calls[i], calls[i + 1])
  BY <1>1, <1>2 DEF CallsShape, Called
<1> QED
  BY <1>1 DEF CallsShape, Called

LEMMA PushCall ==
  ASSUME NEW heap, NEW calls \in Seq(Frame), calls # <<>>, CallsShape(heap, calls),
         NEW frame \in Frame, WellHeld(heap, frame), Operands(heap, frame),
         Called(heap, calls[Len(calls)], frame),
         NEW pushed, pushed = Append(calls, frame)
  PROVE  CallsShape(heap, pushed) /\ pushed[Len(pushed)] = frame
<1>1. /\ Len(pushed) = Len(calls) + 1 /\ Len(calls) \in Nat
      /\ \A i \in 1..Len(calls) : pushed[i] = calls[i]
      /\ pushed[Len(calls) + 1] = frame
  BY PushOne
<1>2. ASSUME NEW i \in 1..Len(pushed) PROVE WellHeld(heap, pushed[i]) /\ Operands(heap, pushed[i])
  <2>1. CASE i \in 1..Len(calls)
    BY <1>1, <2>1 DEF CallsShape
  <2>2. CASE i = Len(calls) + 1
    BY <1>1, <2>2
  <2> QED
    BY <1>1, <2>1, <2>2
<1>3. ASSUME NEW i \in 1..Len(pushed) - 1 PROVE Called(heap, pushed[i], pushed[i + 1])
  <2>1. CASE i \in 1..Len(calls) - 1
    <3>1. i \in 1..Len(calls) /\ i + 1 \in 1..Len(calls)
      BY <1>1, <2>1
    <3>2. pushed[i] = calls[i] /\ pushed[i + 1] = calls[i + 1]
      BY <1>1, <3>1
    <3> QED
      BY <2>1, <3>2 DEF CallsShape
  <2>2. CASE i = Len(calls)
    BY <1>1, <2>2
  <2> QED
    BY <1>1, <2>1, <2>2
<1> QED
  BY <1>1, <1>2, <1>3 DEF CallsShape

LEMMA PopCall ==
  ASSUME NEW heap, NEW calls \in Seq(Frame), calls # <<>>, CallsShape(heap, calls),
         NEW popped, popped = SubSeq(calls, 1, Len(calls) - 1)
  PROVE  /\ CallsShape(heap, popped)
         /\ WellHeld(heap, calls[Len(calls)]) /\ Operands(heap, calls[Len(calls)])
         /\ popped # <<>> => Called(heap, popped[Len(popped)], calls[Len(calls)])
<1>1. /\ popped \in Seq(Frame) /\ Len(popped) = Len(calls) - 1
      /\ \A i \in 1..Len(calls) - 1 : popped[i] = calls[i]
      /\ Len(calls) \in Nat \ { 0 }
  BY PopOne
<1>2. PICK n \in Nat : n = Len(popped) /\ Len(calls) = n + 1
  BY <1>1
<1>3. \A i \in 1..n : popped[i] = calls[i] /\ i \in 1..Len(calls) /\ i \in 1..Len(calls) - 1
  <2>1. Len(calls) - 1 = n
    BY <1>2
  <2>2. \A i \in 1..n : i \in 1..n + 1
    OBVIOUS
  <2> QED
    BY <1>1, <1>2, <2>1, <2>2
<1>4. ASSUME NEW i \in 1..n PROVE WellHeld(heap, popped[i]) /\ Operands(heap, popped[i])
  BY <1>3 DEF CallsShape
<1>5. ASSUME NEW i \in 1..n - 1 PROVE Called(heap, popped[i], popped[i + 1])
  <2>1. i \in 1..n /\ i + 1 \in 1..n
    BY <1>2
  <2> QED
    BY <1>3, <2>1 DEF CallsShape
<1>6. ASSUME n # 0 PROVE Called(heap, popped[n], calls[n + 1])
  <2>1. n \in 1..n
    BY <1>2, <1>6
  <2> QED
    BY <1>3, <2>1 DEF CallsShape
<1>7. n + 1 \in 1..Len(calls)
  BY <1>2
<1>8. popped # <<>> => n # 0
  BY <1>1, <1>2, EmptySeq
<1> QED
  BY <1>2, <1>4, <1>5, <1>6, <1>7, <1>8 DEF CallsShape

\* The innermost of the suspended calls, while a parse function runs.
LEMMA TopFrame ==
  ASSUME IInv, TreeShape, control.fn \notin { "parser_new", "done" }
  PROVE  /\ stack \in Seq(Frame) /\ stack # <<>> /\ Len(stack) \in Nat \ { 0 }
         /\ Top = stack[Len(stack)] /\ Top \in Frame
         /\ WellHeld(nodes, Top) /\ Operands(nodes, Top) /\ Given(nodes, Top) \in 0..6
         /\ CallShape(nodes, Top, control, Current.kind)
         /\ nodes \in Seq(Node) /\ HeapShape(nodes)
<1>1. stack \in Seq(Frame) /\ stack # <<>> /\ nodes \in Seq(Node)
  BY DEF IInv, TypeOK, StackShape
<1>2. Top = stack[Len(stack)] /\ Len(stack) \in Nat \ { 0 } /\ Top \in Frame
  BY <1>1, PopOne DEF Top
<1>3. Len(stack) \in 1..Len(stack)
  BY <1>2
<1>4. WellHeld(nodes, Top) /\ Operands(nodes, Top)
  BY <1>2, <1>3 DEF TreeShape, CallsShape
<1>5. Given(nodes, Top) \in 0..6
  BY OperatorLevels DEF Given
<1> QED
  BY <1>1, <1>2, <1>4, <1>5 DEF TreeShape

LEMMA LeavesAreLeaves ==
  ASSUME IInv, control.fn \notin { "parser_new", "done" }
  PROVE  /\ \A i \in 1..Len(tokens) : IsLeaf(Leaf(i)) /\ Leaf(i).kind = tokens[i].kind
         /\ \A kind \in LeafKinds : IsLeaf(Hole(kind))
         /\ \A kind \in LeafKinds : IsLeaf(Matched(kind)) /\ Matched(kind).kind = kind
         /\ position + 1 \in 1..Len(tokens) /\ Current.kind = Leaf(position + 1).kind
         /\ IsLeaf(Leaf(position + 1))
<1>1. \A i \in 1..Len(tokens) : IsLeaf(Leaf(i)) /\ Leaf(i).kind = tokens[i].kind
  <2>1. \A i \in 1..Len(tokens) : tokens[i].kind \in LeafKinds
    BY TokenAssumption, ElementOfSeq DEF IInv, TypeOK, KeptToken, LeafKinds
  <2> QED
    BY <2>1, Reading DEF Leaf, IsLeaf
<1>2. \A kind \in LeafKinds : IsLeaf(Hole(kind)) /\ Hole(kind).kind = kind
  BY Constructors DEF Hole, IsLeaf
<1>3. position + 1 \in 1..Len(tokens) /\ Current = tokens[position + 1]
  BY CurrentIsReal DEF IInv, TypeOK
<1>4. Current.kind = Leaf(position + 1).kind
  BY <1>3 DEF Leaf
<1>5. \A kind \in LeafKinds : IsLeaf(Matched(kind)) /\ Matched(kind).kind = kind
  BY <1>1, <1>2, <1>3, <1>4 DEF Matched, Matches
<1> QED
  BY <1>1, <1>2, <1>3, <1>4, <1>5

\* What is left to show of a step of a parse function.
LEMMA TreeStep ==
  ASSUME NEW heap, heap = nodes', NEW calls, calls = stack',
         HeapShape(heap), CallsShape(heap, calls), ResultShape(heap, control'),
         control'.fn = "done" \/ CallShape(heap, calls[Len(calls)], control', Current.kind')
  PROVE  TreeShape'
<1>1. Top' = calls[Len(calls)]
  BY DEF Top
<1>2. HeapShape(nodes') /\ CallsShape(nodes', stack') /\ ResultShape(nodes', control')
  OBVIOUS
<1>3. control'.fn # "done" => CallShape(nodes', Top', control', Current.kind')
  BY <1>1
<1> QED
  BY <1>2, <1>3 DEF TreeShape

\* A call that holds leaf, or leaf after the operand it was called with, waits.
LEMMA PushStep ==
  ASSUME IInv, TreeShape, control.fn \notin { "parser_new", "done" },
         NEW leaf, IsLeaf(leaf),
         NEW heap, heap = Append(nodes, leaf), heap = nodes',
         NEW frame \in Frame, stack' = Append(stack, frame), WellHeld(heap, frame),
         Operands(heap, frame), Called(heap, Top, frame),
         control'.fn \in { "parse_assignment_expression", "parse_binary_expression" },
         control'.node = NoNode,
         control'.fn = "parse_assignment_expression" => frame.building \notin Operators,
         control'.fn = "parse_binary_expression" => control'.parent = Given(heap, frame)
  PROVE  TreeShape'
<1>1. HeapShape(heap) /\ Grows(nodes, heap)
  BY TopFrame, AddLeaf
<1>2. CallsShape(heap, stack)
  BY <1>1, TopFrame, CallsKept DEF TreeShape
<1>3. PICK calls : calls = stack'
  OBVIOUS
<1>4. CallsShape(heap, calls) /\ calls[Len(calls)] = frame
  <2>1. stack \in Seq(Frame) /\ stack # <<>> /\ Called(heap, stack[Len(stack)], frame)
    BY TopFrame
  <2>2. calls = Append(stack, frame)
    BY <1>3
  <2>3. CallsShape(heap, calls)
    BY <1>2, <2>1, <2>2, PushCall
  <2>4. calls[Len(calls)] = frame
    BY <1>2, <2>1, <2>2, PushCall
  <2> QED
    BY <2>3, <2>4
<1>5. ResultShape(heap, control')
  BY DEF ResultShape, HasResult
<1>6. CallShape(heap, frame, control', Current.kind')
  BY DEF CallShape
<1> QED
  BY <1>1, <1>3, <1>4, <1>5, <1>6, TreeStep

LEMMA ParseAssignmentTree == IInv /\ TreeShape /\ ParseAssignment => TreeShape'
<1> SUFFICES ASSUME IInv, TreeShape, ParseAssignment PROVE TreeShape'
  OBVIOUS
<1>1. /\ control.fn = "parse_assignment_expression" /\ control' = control /\ InputUnchanged
      /\ nodes' = nodes \o << Leaf(position + 1), Leaf(position + 2) >>
      /\ stack' = Append(stack, Suspend("ASSIGNMENT_EXPRESSION", << Len(nodes) + 1, Len(nodes) + 2 >>, 0))
  BY DEF ParseAssignment
<1>2. position + 1 \in 1..Len(tokens) /\ position + 2 \in 1..Len(tokens)
  BY <1>1, AssignmentIsInText, Reading DEF ParseAssignment
<1>3. IsLeaf(Leaf(position + 1)) /\ IsLeaf(Leaf(position + 2))
  BY <1>1, <1>2, LeavesAreLeaves
<1>4. PICK half : half = Append(nodes, Leaf(position + 1))
  OBVIOUS
<1>5. PICK heap : heap = Append(half, Leaf(position + 2))
  OBVIOUS
<1>6. nodes' = heap
  BY <1>1, <1>3, <1>4, <1>5, TopFrame, AppendTwice DEF IsLeaf
<1>7. /\ HeapShape(half) /\ Grows(nodes, half) /\ half \in Seq(Node) /\ Len(half) = Len(nodes) + 1
      /\ Len(nodes) \in Nat
  BY <1>1, <1>3, <1>4, TopFrame, AddLeaf
<1>8. HeapShape(heap) /\ Grows(half, heap) /\ Len(heap) = Len(half) + 1
  BY <1>3, <1>5, <1>7, AddLeaf
<1>9. Grows(nodes, heap) /\ Len(heap) = Len(nodes) + 2
  BY <1>7, <1>8 DEF Grows
<1>10. CallsShape(heap, stack)
  BY <1>1, <1>9, TopFrame, CallsKept DEF TreeShape
<1> DEFINE frame == Suspend("ASSIGNMENT_EXPRESSION", << Len(nodes) + 1, Len(nodes) + 2 >>, 0)
<1>11. frame \in Frame
  <2>1. "ASSIGNMENT_EXPRESSION" \in NodeKinds /\ 0 \in Precedences
    BY DEF NodeKinds, ExpressionKinds, Precedences
  <2>2. << Len(nodes) + 1, Len(nodes) + 2 >> \in Seq(Nat)
    BY <1>7
  <2> QED
    BY <2>1, <2>2, Constructors
<1>12. /\ frame.building = "ASSIGNMENT_EXPRESSION" /\ frame.parent = 0
       /\ frame.held = << Len(nodes) + 1, Len(nodes) + 2 >>
  BY DEF Suspend
<1> HIDE DEF frame
<1>13. WellHeld(heap, frame)
  <2>1. Len(frame.held) = 2 /\ frame.held[1] = Len(nodes) + 1 /\ frame.held[2] = Len(nodes) + 2
    BY <1>7, <1>12
  <2>2. HeldBy(frame.building) = 2
    BY <1>12 DEF HeldBy
  <2>3. \A k \in 1..2 : k = 1 \/ k = 2
    OBVIOUS
  <2>4. Len(nodes) + 1 \in 1..Len(heap) /\ Len(nodes) + 2 \in 1..Len(heap)
    BY <1>7, <1>9
  <2> QED
    BY <2>1, <2>2, <2>3, <2>4 DEF WellHeld
<1>14. Top.building \notin Operators
  BY <1>1, TopFrame DEF CallShape
<1>15. Operands(heap, frame) /\ Called(heap, Top, frame)
  BY <1>12, <1>14 DEF Operands, Called, Given, Operators
<1>16. PICK calls : calls = stack'
  OBVIOUS
<1>17. CallsShape(heap, calls) /\ calls[Len(calls)] = frame
  <2>1. stack \in Seq(Frame) /\ stack # <<>> /\ Called(heap, stack[Len(stack)], frame)
    BY <1>1, <1>15, TopFrame
  <2>2. calls = Append(stack, frame)
    BY <1>1, <1>16 DEF frame
  <2>3. CallsShape(heap, calls)
    BY <1>10, <1>11, <1>13, <1>15, <2>1, <2>2, PushCall
  <2>4. calls[Len(calls)] = frame
    BY <1>10, <1>11, <1>13, <1>15, <2>1, <2>2, PushCall
  <2> QED
    BY <2>3, <2>4
<1>18. ResultShape(heap, control')
  BY <1>1 DEF TreeShape, ResultShape, HasResult
<1>19. CallShape(heap, frame, control', Current.kind')
  BY <1>1, <1>12 DEF CallShape, Operators
<1> QED
  BY <1>6, <1>8, <1>16, <1>17, <1>18, <1>19, TreeStep

LEMMA ParseNoAssignmentTree == IInv /\ TreeShape /\ ParseNoAssignment => TreeShape'
<1> SUFFICES ASSUME IInv, TreeShape, ParseNoAssignment PROVE TreeShape'
  OBVIOUS
<1>1. /\ control.fn = "parse_assignment_expression" /\ control' = Run("parse_binary_expression", 0, NoNode)
      /\ nodes' = nodes /\ stack' = stack
  BY DEF ParseNoAssignment
<1>2. Top.building \notin Operators
  BY <1>1, TopFrame DEF CallShape
<1>3. ResultShape(nodes, control') /\ CallShape(nodes, Top, control', Current.kind')
  BY <1>1, <1>2 DEF ResultShape, HasResult, CallShape, Run, Given, Operators
<1> QED
  BY <1>1, <1>3, TopFrame, TreeStep DEF TreeShape

\* The one node a call holds, the leaf it has just built.
LEMMA HoldOne ==
  ASSUME NEW heap, NEW size \in Nat, Len(heap) = size + 1,
         NEW building \in { "UNARY_EXPRESSION", "PARENTHESIZED_EXPRESSION" },
         NEW parent \in Precedences, NEW frame, frame = Suspend(building, << size + 1 >>, parent)
  PROVE  /\ frame \in Frame /\ WellHeld(heap, frame)
         /\ frame.building = building /\ frame.parent = parent /\ frame.held[1] = size + 1
<1>1. building \in NodeKinds
  BY DEF NodeKinds, ExpressionKinds
<1>2. << size + 1 >> \in Seq(Nat) /\ Len(<< size + 1 >>) = 1
  OBVIOUS
<1>3. frame.building = building /\ frame.parent = parent /\ frame.held = << size + 1 >>
  BY DEF Suspend
<1>4. HeldBy(building) = 1
  BY DEF HeldBy
<1>5. frame \in Frame
  BY <1>1, <1>2, Constructors
<1>6. Len(frame.held) = 1 /\ frame.held[1] = size + 1
  BY <1>2, <1>3
<1>7. size + 1 \in 1..Len(heap)
  OBVIOUS
<1>8. \A k \in 1..1 : k = 1
  OBVIOUS
<1>9. WellHeld(heap, frame)
  BY <1>3, <1>4, <1>6, <1>7, <1>8 DEF WellHeld
<1> QED
  BY <1>3, <1>5, <1>6, <1>9

LEMMA ParseUnaryTree == IInv /\ TreeShape /\ ParseUnary => TreeShape'
<1> SUFFICES ASSUME IInv, TreeShape, ParseUnary PROVE TreeShape'
  OBVIOUS
<1>1. /\ control.fn = "parse_binary_expression"
      /\ control' = Run("parse_binary_expression", UnaryOperatorPrecedence(Current.kind), NoNode)
      /\ UnaryOperatorPrecedence(Current.kind) # 0
      /\ stack' = Append(stack, Suspend("UNARY_EXPRESSION", << Len(nodes) + 1 >>, control.parent))
  BY DEF ParseUnary, StartsUnary
<1>2. PICK leaf : leaf = Leaf(position + 1)
  OBVIOUS
<1>3. IsLeaf(leaf) /\ leaf.kind = Current.kind
  BY <1>1, <1>2, LeavesAreLeaves
<1>4. PICK heap : heap = Append(nodes, leaf)
  OBVIOUS
<1>5. nodes' = heap
  BY <1>2, <1>4 DEF ParseUnary
<1>6. /\ Grows(nodes, heap) /\ Len(heap) = Len(nodes) + 1 /\ Len(nodes) \in Nat
      /\ heap[Len(nodes) + 1] = leaf
  BY <1>1, <1>3, <1>4, TopFrame, AddLeaf
<1>7. PICK frame : frame = Suspend("UNARY_EXPRESSION", << Len(nodes) + 1 >>, control.parent)
  OBVIOUS
<1>8. /\ frame \in Frame /\ WellHeld(heap, frame) /\ frame.building = "UNARY_EXPRESSION"
      /\ frame.parent = control.parent /\ frame.held[1] = Len(nodes) + 1
  BY <1>1, <1>6, <1>7, Reading, HoldOne
<1>9. Given(heap, frame) = UnaryOperatorPrecedence(Current.kind)
  BY <1>3, <1>6, <1>8 DEF Given
<1>10. Operands(heap, frame)
  BY <1>1, <1>8, <1>9, OperatorLevels DEF Operands
<1>11. Called(heap, Top, frame)
  <2>1. control.parent = Given(nodes, Top)
    BY <1>1, TopFrame DEF CallShape
  <2>2. Given(heap, Top) = Given(nodes, Top)
    BY <1>1, <1>6, TopFrame, FrameKept
  <2> QED
    BY <1>8, <2>1, <2>2 DEF Called
<1>12. /\ control'.fn = "parse_binary_expression" /\ control'.node = NoNode
       /\ control'.parent = Given(heap, frame)
  BY <1>1, <1>9 DEF Run
<1> QED
  BY <1>1, <1>3, <1>4, <1>5, <1>7, <1>8, <1>10, <1>11, <1>12, PushStep

LEMMA ParseParenthesizedTree == IInv /\ TreeShape /\ ParseParenthesized => TreeShape'
<1> SUFFICES ASSUME IInv, TreeShape, ParseParenthesized PROVE TreeShape'
  OBVIOUS
<1>1. /\ control.fn = "parse_binary_expression"
      /\ control' = Run("parse_assignment_expression", 0, NoNode)
      /\ stack' = Append(stack, Suspend("PARENTHESIZED_EXPRESSION", << Len(nodes) + 1 >>, control.parent))
  BY DEF ParseParenthesized, ParsesPrimary
<1>2. PICK leaf : leaf = Matched("OPEN_PARENTHESIS_TOKEN")
  OBVIOUS
<1>3. IsLeaf(leaf)
  <2>1. "OPEN_PARENTHESIS_TOKEN" \in LeafKinds
    BY DEF LeafKinds, TokenKinds, FixedTextKinds, ParenthesisKinds
  <2> QED
    BY <1>1, <1>2, <2>1, LeavesAreLeaves
<1>4. PICK heap : heap = Append(nodes, leaf)
  OBVIOUS
<1>5. nodes' = heap
  BY <1>2, <1>4 DEF ParseParenthesized
<1>6. Grows(nodes, heap) /\ Len(heap) = Len(nodes) + 1 /\ Len(nodes) \in Nat
  BY <1>1, <1>3, <1>4, TopFrame, AddLeaf
<1>7. PICK frame : frame = Suspend("PARENTHESIZED_EXPRESSION", << Len(nodes) + 1 >>, control.parent)
  OBVIOUS
<1>8. /\ frame \in Frame /\ WellHeld(heap, frame) /\ frame.building = "PARENTHESIZED_EXPRESSION"
      /\ frame.parent = control.parent
  BY <1>1, <1>6, <1>7, Reading, HoldOne
<1>9. Operands(heap, frame) /\ frame.building \notin Operators
  BY <1>8 DEF Operands, Operators
<1>10. Called(heap, Top, frame)
  <2>1. control.parent = Given(nodes, Top)
    BY <1>1, TopFrame DEF CallShape
  <2>2. Given(heap, Top) = Given(nodes, Top)
    BY <1>1, <1>6, TopFrame, FrameKept
  <2> QED
    BY <1>8, <2>1, <2>2 DEF Called
<1>11. control'.fn = "parse_assignment_expression" /\ control'.node = NoNode
  BY <1>1 DEF Run
<1> QED
  BY <1>1, <1>3, <1>4, <1>5, <1>7, <1>8, <1>9, <1>10, <1>11, PushStep

LEMMA ParseBinaryRightTree == IInv /\ TreeShape /\ ParseBinaryRight => TreeShape'
<1> SUFFICES ASSUME IInv, TreeShape, ParseBinaryRight PROVE TreeShape'
  OBVIOUS
<1>1. /\ control.fn = "parse_binary_expression_loop"
      /\ control' = Run("parse_binary_expression", BinaryOperatorPrecedence(Current.kind), NoNode)
      /\ BinaryOperatorPrecedence(Current.kind) > control.parent
      /\ stack' = Append(stack, Suspend("BINARY_EXPRESSION", << control.node, Len(nodes) + 1 >>, control.parent))
  BY DEF ParseBinaryRight, Extends
<1>2. PICK leaf : leaf = Leaf(position + 1)
  OBVIOUS
<1>3. IsLeaf(leaf) /\ leaf.kind = Current.kind
  BY <1>1, <1>2, LeavesAreLeaves
<1>4. PICK heap : heap = Append(nodes, leaf)
  OBVIOUS
<1>5. nodes' = heap
  BY <1>2, <1>4 DEF ParseBinaryRight
<1>6. /\ Grows(nodes, heap) /\ Len(heap) = Len(nodes) + 1 /\ Len(nodes) \in Nat
      /\ heap[Len(nodes) + 1] = leaf
  BY <1>1, <1>3, <1>4, TopFrame, AddLeaf
<1>7. PICK left \in 1..Len(nodes) : left = control.node
  BY <1>1 DEF TreeShape, ResultShape, HasResult
<1>8. PICK frame : frame = Suspend("BINARY_EXPRESSION", << left, Len(nodes) + 1 >>, control.parent)
  OBVIOUS
<1>9. /\ frame \in Frame /\ frame.building = "BINARY_EXPRESSION" /\ frame.parent = control.parent
      /\ frame.held[1] = left /\ frame.held[2] = Len(nodes) + 1 /\ Len(frame.held) = 2
  <2>1. "BINARY_EXPRESSION" \in NodeKinds /\ control.parent \in Precedences
    BY <1>1, Reading DEF NodeKinds, ExpressionKinds
  <2>2. << left, Len(nodes) + 1 >> \in Seq(Nat)
    BY <1>6
  <2> QED
    BY <1>8, <2>1, <2>2, Constructors DEF Suspend
<1>10. WellHeld(heap, frame)
  <2>1. HeldBy(frame.building) = 2 /\ \A k \in 1..2 : k = 1 \/ k = 2
    BY <1>9 DEF HeldBy
  <2>2. left \in 1..Len(heap) /\ Len(nodes) + 1 \in 1..Len(heap)
    BY <1>6
  <2> QED
    BY <1>9, <2>1, <2>2 DEF WellHeld
<1>11. Given(heap, frame) = BinaryOperatorPrecedence(Current.kind)
  BY <1>3, <1>6, <1>9 DEF Given
<1>12. Operands(heap, frame)
  <2>1. TopPrecedence(heap, left) = TopPrecedence(nodes, left)
    BY <1>1, <1>6, <1>7, NodeKept DEF TreeShape, HeapShape
  <2>2. BinaryOperatorPrecedence(Current.kind) <= TopPrecedence(nodes, left)
    BY <1>1, <1>7, TopFrame DEF CallShape
  <2> QED
    BY <1>1, <1>9, <1>11, <2>1, <2>2, OperatorLevels, TopLevels DEF Operands
<1>13. Called(heap, Top, frame)
  <2>1. control.parent = Given(nodes, Top)
    BY <1>1, TopFrame DEF CallShape
  <2>2. Given(heap, Top) = Given(nodes, Top)
    BY <1>1, <1>6, TopFrame, FrameKept
  <2> QED
    BY <1>9, <2>1, <2>2 DEF Called
<1>14. /\ control'.fn = "parse_binary_expression" /\ control'.node = NoNode
       /\ control'.parent = Given(heap, frame)
  BY <1>1, <1>11 DEF Run
<1>15. stack' = Append(stack, frame)
  BY <1>1, <1>7, <1>8
<1> QED
  BY <1>1, <1>3, <1>4, <1>5, <1>9, <1>10, <1>12, <1>13, <1>14, <1>15, PushStep

\* The precedence of a node that is about to be built, and whether its operands bind
\* tightly enough for it.
NewPrecedence(heap, kind, kids) ==
    IF kind = "BINARY_EXPRESSION" THEN BinaryOperatorPrecedence(heap[kids[2]].kind)
    ELSE IF kind = "UNARY_EXPRESSION" THEN UnaryOperatorPrecedence(heap[kids[1]].kind)
    ELSE IF kind = "ASSIGNMENT_EXPRESSION" THEN 0
    ELSE 7
Fits(heap, kind, kids) ==
    /\ kind = "BINARY_EXPRESSION" =>
          /\ TopPrecedence(heap, kids[1]) >= NewPrecedence(heap, kind, kids)
          /\ TopPrecedence(heap, kids[3]) >  NewPrecedence(heap, kind, kids)
    /\ kind = "UNARY_EXPRESSION" => TopPrecedence(heap, kids[2]) >= NewPrecedence(heap, kind, kids)
Kids(heap, kind, kids) ==
    /\ kids \in Seq(Nat) /\ Len(kids) = Arity(kind)
    /\ \A k \in 1..Arity(kind) : kids[k] \in 1..Len(heap)

\* A node over leaves and finished nodes ends a call of the running function.
LEMMA AddInner ==
  ASSUME NEW heap \in Seq(Node), HeapShape(heap), NEW kind \in NodeKinds, NEW kids,
         Kids(heap, kind, kids), Fits(heap, kind, kids),
         NEW new, new = Append(heap, Inner(kind, kids))
  PROVE  /\ HeapShape(new) /\ Grows(heap, new) /\ new \in Seq(Node)
         /\ Len(new) = Len(heap) + 1 /\ Len(heap) \in Nat
         /\ TopPrecedence(new, Len(heap) + 1) = NewPrecedence(heap, kind, kids)
<1> /\ kids \in Seq(Nat) /\ Len(kids) = Arity(kind)
    /\ \A k \in 1..Arity(kind) : kids[k] \in 1..Len(heap)
  BY DEF Kids
<1> DEFINE node == Inner(kind, kids)
<1>1. node \in Node /\ node.kind = kind /\ node.kids = kids
  BY Constructors DEF Inner
<1> HIDE DEF node
<1>2. PICK n \in Nat : n = Len(heap) + 1
  OBVIOUS
<1>3. /\ Grows(heap, new) /\ Len(new) = n /\ Len(heap) \in Nat
      /\ new \in Seq(Node) /\ new[n] = node
  BY <1>1, <1>2, PushOne DEF Grows, node
<1>4. \A k \in 1..Arity(kind) : new[kids[k]] = heap[kids[k]]
  BY <1>3 DEF Grows
<1>5. ASSUME NEW k \in 1..Arity(kind)
      PROVE  TopPrecedence(new, kids[k]) = TopPrecedence(heap, kids[k])
  <2>1. PICK m \in 1..Len(heap) : m = kids[k]
    OBVIOUS
  <2> QED
    BY <1>3, <2>1, NodeKept DEF HeapShape
<1>6. WellBuilt(new, n)
  <2>1. \A k \in 1..Arity(kind) : kids[k] \in 1..n - 1
    BY <1>2, <1>3
  <2> QED
    BY <1>1, <1>3, <2>1 DEF WellBuilt
<1>7. CASE kind = "BINARY_EXPRESSION"
  <2>1. 1 \in 1..Arity(kind) /\ 2 \in 1..Arity(kind) /\ 3 \in 1..Arity(kind)
    BY <1>7 DEF Arity
  <2>2. /\ new[kids[2]] = heap[kids[2]]
        /\ TopPrecedence(new, kids[1]) = TopPrecedence(heap, kids[1])
        /\ TopPrecedence(new, kids[3]) = TopPrecedence(heap, kids[3])
    BY <1>4, <1>5, <2>1
  <2>3. TopPrecedence(new, n) = NewPrecedence(heap, kind, kids)
    BY <1>1, <1>3, <1>7, <2>2 DEF TopPrecedence, NewPrecedence
  <2>4. Shaped(new, n)
    BY <1>1, <1>3, <1>7, <2>2, <2>3 DEF Shaped, Fits
  <2> QED
    BY <1>1, <1>2, <1>3, <1>6, <1>7, <2>3, <2>4, AddNode DEF node
<1>8. CASE kind = "UNARY_EXPRESSION"
  <2>1. 1 \in 1..Arity(kind) /\ 2 \in 1..Arity(kind)
    BY <1>8 DEF Arity
  <2>2. /\ new[kids[1]] = heap[kids[1]]
        /\ TopPrecedence(new, kids[2]) = TopPrecedence(heap, kids[2])
    BY <1>4, <1>5, <2>1
  <2>3. TopPrecedence(new, n) = NewPrecedence(heap, kind, kids)
    BY <1>1, <1>3, <1>8, <2>2 DEF TopPrecedence, NewPrecedence
  <2>4. Shaped(new, n)
    BY <1>1, <1>3, <1>8, <2>2, <2>3 DEF Shaped, Fits
  <2> QED
    BY <1>1, <1>2, <1>3, <1>6, <1>8, <2>3, <2>4, AddNode DEF node
<1>9. CASE kind \notin Operators
  <2>1. Shaped(new, n)
    BY <1>1, <1>3, <1>9 DEF Shaped, Operators
  <2>2. TopPrecedence(new, n) = NewPrecedence(heap, kind, kids)
    BY <1>1, <1>3, <1>9 DEF TopPrecedence, NewPrecedence, Operators
  <2>3. HeapShape(new)
    BY <1>1, <1>2, <1>3, <1>6, <2>1, AddNode DEF node
  <2> QED
    BY <1>2, <1>3, <1>9, <2>2, <2>3 DEF Operators
<1> QED
  BY <1>7, <1>8, <1>9 DEF Operators

LEMMA ParseSingleTree ==
  ASSUME IInv, TreeShape, ParsesPrimary, NEW kind \in LeafKinds,
         NEW expression \in { "LITERAL_EXPRESSION", "NAME_EXPRESSION" },
         ParseSingle(expression, kind)
  PROVE  TreeShape'
<1>1. /\ control.fn = "parse_binary_expression" /\ stack' = stack
      /\ nodes' = nodes \o << Matched(kind), Inner(expression, << Len(nodes) + 1 >>) >>
      /\ control' = Run("parse_binary_expression_loop", control.parent, Len(nodes) + 2)
  BY DEF ParseSingle, ParsesPrimary
<1>2. PICK leaf : leaf = Matched(kind) /\ IsLeaf(leaf)
  BY <1>1, LeavesAreLeaves
<1>3. PICK half : half = Append(nodes, leaf)
  OBVIOUS
<1>4. /\ HeapShape(half) /\ Grows(nodes, half) /\ half \in Seq(Node) /\ Len(half) = Len(nodes) + 1
      /\ Len(nodes) \in Nat
  BY <1>1, <1>2, <1>3, TopFrame, AddLeaf
<1>5. PICK kids \in Seq(Nat) : kids = << Len(nodes) + 1 >>
  <2>1. Len(nodes) + 1 \in Nat
    BY <1>4
  <2>2. << Len(nodes) + 1 >> \in Seq(Nat)
    BY <2>1
  <2> QED
    BY <2>2
<1>6. expression \in NodeKinds /\ Arity(expression) = 1 /\ expression \notin Operators
  BY DEF NodeKinds, ExpressionKinds, Arity, Operators
<1>7. Kids(half, expression, kids)
  <2>1. Len(kids) = 1 /\ kids[1] = Len(nodes) + 1
    BY <1>5
  <2>2. kids[1] \in 1..Len(half)
    BY <1>4, <2>1
  <2>3. \A k \in 1..1 : k = 1
    OBVIOUS
  <2> QED
    BY <1>6, <2>1, <2>2, <2>3 DEF Kids
<1>8. PICK heap : heap = Append(half, Inner(expression, kids))
  OBVIOUS
<1>9. /\ HeapShape(heap) /\ Grows(half, heap) /\ Len(heap) = Len(half) + 1
      /\ TopPrecedence(heap, Len(half) + 1) = 7
  <2>1. Fits(half, expression, kids) /\ NewPrecedence(half, expression, kids) = 7
    BY DEF Fits, NewPrecedence
  <2>2. HeapShape(heap) /\ Grows(half, heap) /\ Len(heap) = Len(half) + 1
    BY <1>4, <1>6, <1>7, <1>8, <2>1, AddInner
  <2>3. TopPrecedence(heap, Len(half) + 1) = 7
    BY <1>4, <1>6, <1>7, <1>8, <2>1, AddInner
  <2> QED
    BY <2>2, <2>3
<1>10. Grows(nodes, heap) /\ Len(heap) = Len(nodes) + 2 /\ TopPrecedence(heap, Len(nodes) + 2) = 7
  <2>1. Len(half) + 1 = Len(nodes) + 2
    BY <1>4
  <2> QED
    BY <1>4, <1>9, <2>1 DEF Grows
<1>11. nodes' = heap
  <2>1. Inner(expression, kids) \in Node
    BY <1>6, Constructors
  <2> QED
    BY <1>1, <1>2, <1>3, <1>5, <1>8, <2>1, TopFrame, AppendTwice DEF IsLeaf
<1>12. CallsShape(heap, stack) /\ Given(heap, Top) = Given(nodes, Top)
  BY <1>1, <1>10, TopFrame, CallsKept, FrameKept DEF TreeShape
<1>13. /\ control'.fn = "parse_binary_expression_loop" /\ control'.parent = control.parent
       /\ control'.node = Len(nodes) + 2
  BY <1>1 DEF Run
<1>14. ResultShape(heap, control')
  <2>1. Len(nodes) + 2 \in 1..Len(heap)
    BY <1>4, <1>10
  <2> QED
    BY <1>13, <2>1 DEF ResultShape, HasResult
<1>15. CallShape(heap, Top, control', Current.kind')
  <2>1. control.parent = Given(nodes, Top) /\ control.parent \in Precedences
    BY <1>1, TopFrame, Reading DEF CallShape
  <2>2. Binds(heap, control'.node, control'.parent)
    BY <1>10, <1>13, <2>1 DEF Binds, Precedences
  <2>3. BinaryOperatorPrecedence(Current.kind') <= 7
    BY OperatorLevels
  <2> QED
    BY <1>10, <1>12, <1>13, <2>1, <2>2, <2>3 DEF CallShape
<1> QED
  BY <1>1, <1>9, <1>11, <1>12, <1>14, <1>15, TopFrame, TreeStep

LEMMA PrimaryTree ==
  IInv /\ TreeShape /\ (ParseBooleanLiteral \/ ParseNumberLiteral \/ ParseName) => TreeShape'
<1> SUFFICES ASSUME IInv, TreeShape, ParseBooleanLiteral \/ ParseNumberLiteral \/ ParseName
             PROVE  TreeShape'
  OBVIOUS
<1>1. {"NUMBER_TOKEN", "IDENTIFIER_TOKEN"} \cup KeywordKinds \subseteq LeafKinds
  BY DEF LeafKinds, TokenKinds, FixedTextKinds, KeywordKinds
<1>2. CASE ParseBooleanLiteral
  BY <1>1, <1>2, ParseSingleTree DEF ParseBooleanLiteral
<1>3. CASE ParseNumberLiteral
  BY <1>1, <1>3, ParseSingleTree DEF ParseNumberLiteral
<1>4. CASE ParseName
  BY <1>1, <1>4, ParseSingleTree DEF ParseName
<1> QED
  BY <1>2, <1>3, <1>4

LEMMA ReturnLeftTree == IInv /\ TreeShape /\ ReturnLeft => TreeShape'
<1> SUFFICES ASSUME IInv, TreeShape, ReturnLeft PROVE TreeShape'
  OBVIOUS
<1>1. /\ control.fn = "parse_binary_expression_loop" /\ control' = Run("return", 0, control.node)
      /\ nodes' = nodes /\ stack' = stack /\ UNCHANGED << position, tokens >>
      /\ BinaryOperatorPrecedence(Current.kind) = 0
           \/ ~(BinaryOperatorPrecedence(Current.kind) > control.parent)
  BY DEF ReturnLeft, Extends, InputUnchanged
<1>2. control'.fn = "return" /\ control'.node = control.node
  BY <1>1 DEF Run
<1>3. ResultShape(nodes, control')
  BY <1>1, <1>2 DEF TreeShape, ResultShape, HasResult
<1>4. Current' = Current
  BY <1>1 DEF Current, Peek
<1>5. /\ control.parent = Given(nodes, Top) /\ control.parent \in 0..6
      /\ Binds(nodes, control.node, control.parent)
  BY <1>1, TopFrame, Reading DEF CallShape, Precedences
<1>6. BinaryOperatorPrecedence(Current.kind) <= control.parent
  BY <1>1, <1>5, OperatorLevels
<1>7. CallShape(nodes, Top, control', Current.kind')
  BY <1>2, <1>4, <1>5, <1>6 DEF CallShape
<1> QED
  BY <1>1, <1>3, <1>7, TopFrame, TreeStep DEF TreeShape

\* Going back to the innermost suspended call, when it is not the outermost one: its
\* caller is now the innermost one.
LEMMA PopTree ==
  ASSUME IInv, TreeShape, control.fn = "return", Top.building # "COMPILATION_UNIT",
         NEW heap, Grows(nodes, heap)
  PROVE  /\ CallsShape(heap, Pop) /\ Pop # <<>>
         /\ Called(nodes, Pop[Len(Pop)], Top)
         /\ Given(heap, Pop[Len(Pop)]) = Given(nodes, Pop[Len(Pop)])
<1>1. Pop # <<>> /\ Pop \in Seq(Frame) /\ Len(Pop) \in Nat
  BY PopFrame
<1>2. CallsShape(nodes, Pop) /\ Called(nodes, Pop[Len(Pop)], Top)
  <2>1. stack \in Seq(Frame) /\ stack # <<>> /\ CallsShape(nodes, stack) /\ Top = stack[Len(stack)]
    BY TopFrame DEF TreeShape
  <2>2. PICK popped : popped = SubSeq(stack, 1, Len(stack) - 1)
    OBVIOUS
  <2>3. CallsShape(nodes, popped)
    BY <2>1, <2>2, PopCall
  <2>4. popped # <<>> => Called(nodes, popped[Len(popped)], stack[Len(stack)])
    BY <2>1, <2>2, PopCall
  <2>5. popped = Pop
    BY <2>2 DEF Pop
  <2> QED
    BY <1>1, <2>1, <2>3, <2>4, <2>5
<1>3. CallsShape(heap, Pop)
  BY <1>2, TopFrame, CallsKept
<1>4. Len(Pop) \in 1..Len(Pop)
  BY <1>1, EmptySeq
<1>5. WellHeld(nodes, Pop[Len(Pop)])
  BY <1>2, <1>4 DEF CallsShape
<1>6. Given(heap, Pop[Len(Pop)]) = Given(nodes, Pop[Len(Pop)])
  BY <1>5, TopFrame, FrameKept
<1> QED
  BY <1>1, <1>2, <1>3, <1>6

\* What the suspended call held and what it got are the kids of its node.
LEMMA HeldAndGot ==
  ASSUME IInv, TreeShape, control.fn = "return",
         NEW building \in { "UNARY_EXPRESSION", "BINARY_EXPRESSION", "ASSIGNMENT_EXPRESSION" },
         Top.building = building, NEW kids, kids = Append(Top.held, control.node)
  PROVE  Kids(nodes, building, kids) /\ Fits(nodes, building, kids)
         /\ NewPrecedence(nodes, building, kids) = Given(nodes, Top)
<1>1. PICK held \in Seq(Nat) : held = Top.held
  BY HeldKids
<1>2. PICK got \in 1..Len(nodes) : got = control.node
  BY DEF TreeShape, ResultShape, HasResult
<1>3. PICK n \in Nat : n = HeldBy(building)
  BY DEF HeldBy
<1>4. Len(held) = n /\ \A k \in 1..n : held[k] \in 1..Len(nodes)
  BY <1>1, <1>3, TopFrame DEF WellHeld
<1>5. /\ kids \in Seq(Nat) /\ Len(kids) = n + 1
      /\ \A k \in 1..n : kids[k] = held[k]
      /\ kids[n + 1] = got
  BY <1>1, <1>2, <1>4, TopFrame, PushOne
<1>6. Arity(building) = n + 1
  BY <1>3 DEF Arity, HeldBy
<1>7. Kids(nodes, building, kids)
  <2>1. \A k \in 1..n + 1 : k \in 1..n \/ k = n + 1
    OBVIOUS
  <2> QED
    BY <1>4, <1>5, <1>6, <2>1 DEF Kids
<1>8. CASE building = "BINARY_EXPRESSION"
  <2>1. n = 2 /\ 1 \in 1..2 /\ 2 \in 1..2
    BY <1>3, <1>8 DEF HeldBy
  <2>2. kids[1] = held[1] /\ kids[2] = held[2] /\ kids[3] = got
    BY <1>5, <2>1
  <2>3. NewPrecedence(nodes, building, kids) = Given(nodes, Top)
    BY <1>1, <1>8, <2>2 DEF NewPrecedence, Given
  <2>4. TopPrecedence(nodes, kids[1]) >= Given(nodes, Top)
    BY <1>1, <1>8, <2>2, TopFrame DEF Operands
  <2>5. Binds(nodes, kids[3], Given(nodes, Top))
    BY <1>2, <1>8, <2>2, TopFrame DEF CallShape, Operators
  <2>6. Given(nodes, Top) \in 0..5
    BY <1>8, OperatorLevels DEF Given
  <2>7. TopPrecedence(nodes, kids[3]) > Given(nodes, Top)
    <3>1. PICK top \in 0..7 : top = TopPrecedence(nodes, kids[3])
      BY TopLevels
    <3>2. PICK given \in 0..5 : given = Given(nodes, Top)
      BY <2>6
    <3>3. top >= given /\ (top = given => given = 6)
      BY <2>5, <3>1, <3>2 DEF Binds
    <3>4. top > given
      BY <3>3
    <3> QED
      BY <3>1, <3>2, <3>4
  <2> QED
    BY <1>7, <1>8, <2>3, <2>4, <2>7 DEF Fits
<1>9. CASE building = "UNARY_EXPRESSION"
  <2>1. n = 1 /\ 1 \in 1..1
    BY <1>3, <1>9 DEF HeldBy
  <2>2. kids[1] = held[1] /\ kids[2] = got
    BY <1>5, <2>1
  <2>3. NewPrecedence(nodes, building, kids) = Given(nodes, Top)
    BY <1>1, <1>9, <2>2 DEF NewPrecedence, Given
  <2>4. Binds(nodes, kids[2], Given(nodes, Top))
    BY <1>2, <1>9, <2>2, TopFrame DEF CallShape, Operators
  <2> QED
    BY <1>7, <1>9, <2>3, <2>4 DEF Fits, Binds
<1>10. CASE building = "ASSIGNMENT_EXPRESSION"
  BY <1>7, <1>10 DEF Fits, NewPrecedence, Given
<1> QED
  BY <1>8, <1>9, <1>10

LEMMA FinishOperatorTree == IInv /\ TreeShape /\ FinishOperator => TreeShape'
<1> SUFFICES ASSUME IInv, TreeShape, FinishOperator PROVE TreeShape'
  OBVIOUS
<1>1. PICK building \in { "UNARY_EXPRESSION", "BINARY_EXPRESSION" } :
        /\ control.fn = "return" /\ Top.building = building
        /\ nodes' = Append(nodes, Inner(building, Append(Top.held, control.node)))
  BY DEF FinishOperator, Returning
<1>2. /\ control' = Run("parse_binary_expression_loop", Top.parent, Len(nodes) + 1)
      /\ stack' = Pop /\ UNCHANGED << position, tokens >>
  BY DEF FinishOperator, InputUnchanged
<1>3. PICK kids : kids = Append(Top.held, control.node)
  OBVIOUS
<1>4. PICK heap : heap = Append(nodes, Inner(building, kids))
  OBVIOUS
<1>5. building \in NodeKinds /\ building \in Operators /\ building # "COMPILATION_UNIT"
  BY DEF NodeKinds, ExpressionKinds, Operators
<1>6. /\ Kids(nodes, building, kids) /\ Fits(nodes, building, kids)
      /\ NewPrecedence(nodes, building, kids) = Given(nodes, Top)
  BY <1>1, <1>3, HeldAndGot
<1>7. nodes \in Seq(Node) /\ HeapShape(nodes)
  BY <1>1, TopFrame
<1>8. HeapShape(heap) /\ Grows(nodes, heap) /\ Len(heap) = Len(nodes) + 1 /\ Len(nodes) \in Nat
  BY <1>4, <1>5, <1>6, <1>7, AddInner
<1>9. TopPrecedence(heap, Len(nodes) + 1) = Given(nodes, Top)
  BY <1>4, <1>5, <1>6, <1>7, AddInner
<1>10. PICK new : new = Len(nodes) + 1
  OBVIOUS
<1>11. /\ control'.fn = "parse_binary_expression_loop" /\ control'.parent = Top.parent
       /\ control'.node = new
  BY <1>2, <1>10 DEF Run
<1>12. /\ CallsShape(heap, Pop) /\ Called(nodes, Pop[Len(Pop)], Top)
       /\ Given(heap, Pop[Len(Pop)]) = Given(nodes, Pop[Len(Pop)])
  BY <1>1, <1>5, <1>8, PopTree
<1>13. ResultShape(heap, control')
  <2>1. new \in 1..Len(heap)
    BY <1>8, <1>10
  <2> QED
    BY <1>11, <2>1 DEF ResultShape, HasResult
<1>14. Current' = Current
  BY <1>2 DEF Current, Peek
<1>15. CallShape(heap, Pop[Len(Pop)], control', Current.kind')
  <2>1. Top.parent = Given(heap, Pop[Len(Pop)]) /\ Top.parent \in 0..6
    BY <1>1, <1>12, HeldKids DEF Called, Precedences
  <2>2. BinaryOperatorPrecedence(Current.kind) <= Given(nodes, Top)
    BY <1>1, <1>5, TopFrame DEF CallShape
  <2>3. Binds(heap, new, Top.parent)
    <3>1. Given(nodes, Top) \in 0..6
      BY <1>1, TopFrame
    <3>2. CASE building = "BINARY_EXPRESSION"
      BY <1>1, <1>9, <1>10, <2>1, <3>1, <3>2, TopFrame DEF Operands, Binds
    <3>3. CASE building = "UNARY_EXPRESSION"
      BY <1>1, <1>9, <1>10, <2>1, <3>1, <3>3, TopFrame DEF Operands, Binds
    <3> QED
      BY <3>2, <3>3
  <2> QED
    BY <1>9, <1>10, <1>11, <1>14, <2>1, <2>2, <2>3 DEF CallShape
<1>16. nodes' = heap
  BY <1>1, <1>3, <1>4
<1> QED
  BY <1>2, <1>8, <1>12, <1>13, <1>15, <1>16, TreeStep

LEMMA FinishAssignmentTree == IInv /\ TreeShape /\ FinishAssignment => TreeShape'
<1> SUFFICES ASSUME IInv, TreeShape, FinishAssignment PROVE TreeShape'
  OBVIOUS
<1> DEFINE building == "ASSIGNMENT_EXPRESSION"
<1>1. /\ control.fn = "return" /\ Top.building = building
      /\ nodes' = Append(nodes, Inner(building, Append(Top.held, control.node)))
      /\ control' = Run("return", 0, Len(nodes) + 1) /\ stack' = Pop
  BY DEF FinishAssignment, Returning
<1>2. PICK kids : kids = Append(Top.held, control.node)
  OBVIOUS
<1>3. PICK heap : heap = Append(nodes, Inner(building, kids))
  OBVIOUS
<1>4. building \in NodeKinds /\ building # "COMPILATION_UNIT"
  BY DEF NodeKinds, ExpressionKinds
<1>5. Kids(nodes, building, kids) /\ Fits(nodes, building, kids)
  BY <1>1, <1>2, HeldAndGot
<1>6. nodes \in Seq(Node) /\ HeapShape(nodes)
  BY <1>1, TopFrame
<1>7. HeapShape(heap) /\ Grows(nodes, heap) /\ Len(heap) = Len(nodes) + 1 /\ Len(nodes) \in Nat
  BY <1>3, <1>4, <1>5, <1>6, AddInner
<1>8. CallsShape(heap, Pop) /\ Called(nodes, Pop[Len(Pop)], Top)
  BY <1>1, <1>4, <1>7, PopTree
<1>9. control'.fn = "return" /\ control'.node = Len(nodes) + 1
  BY <1>1 DEF Run
<1>10. ResultShape(heap, control')
  <2>1. Len(nodes) + 1 \in 1..Len(heap)
    BY <1>7
  <2> QED
    BY <1>9, <2>1 DEF ResultShape, HasResult
<1>11. CallShape(heap, Pop[Len(Pop)], control', Current.kind')
  BY <1>1, <1>8, <1>9 DEF CallShape, Called
<1>12. nodes' = heap
  BY <1>1, <1>2, <1>3
<1> QED
  BY <1>1, <1>7, <1>8, <1>10, <1>11, <1>12, TreeStep

\* Both ways to finish with a closing token.
LEMMA FinishWithTree ==
  ASSUME IInv, TreeShape, NEW building \in { "PARENTHESIZED_EXPRESSION", "COMPILATION_UNIT" },
         NEW closing \in LeafKinds, NEW next, FinishWith(building, closing, next)
  PROVE  /\ control.fn = "return" /\ Top.building = building
         /\ control' = Run(next, Top.parent, Len(nodes) + 2) /\ stack' = Pop
         /\ HeapShape(nodes') /\ Grows(nodes, nodes') /\ Len(nodes') = Len(nodes) + 2
         /\ TopPrecedence(nodes', Len(nodes) + 2) = 7
<1>1. /\ control.fn = "return" /\ Top.building = building
      /\ nodes' = nodes \o << Matched(closing),
                              Inner(building, Top.held \o << control.node, Len(nodes) + 1 >>) >>
      /\ control' = Run(next, Top.parent, Len(nodes) + 2) /\ stack' = Pop
  BY DEF FinishWith, Returning
<1>2. PICK leaf : leaf = Matched(closing) /\ IsLeaf(leaf)
  BY <1>1, LeavesAreLeaves
<1>3. PICK half : half = Append(nodes, leaf)
  OBVIOUS
<1>4. /\ HeapShape(half) /\ Grows(nodes, half) /\ half \in Seq(Node) /\ Len(half) = Len(nodes) + 1
      /\ Len(nodes) \in Nat
  BY <1>1, <1>2, <1>3, TopFrame, AddLeaf
<1>5. PICK held \in Seq(Nat) : held = Top.held
  BY <1>1, HeldKids
<1>6. PICK got \in 1..Len(nodes) : got = control.node
  BY <1>1 DEF TreeShape, ResultShape, HasResult
<1>7. PICK kids : kids = held \o << got, Len(nodes) + 1 >>
  OBVIOUS
<1>8. building \in NodeKinds /\ building \notin Operators
  BY DEF NodeKinds, ExpressionKinds, Operators
<1>9. Kids(half, building, kids)
  <2>1. PICK n \in Nat : n = HeldBy(building) /\ Arity(building) = n + 2
    BY DEF HeldBy, Arity
  <2>2. Len(held) = n /\ \A k \in 1..n : held[k] \in 1..Len(nodes)
    BY <1>1, <1>5, <2>1, TopFrame DEF WellHeld
  <2>3. got \in Nat /\ Len(nodes) + 1 \in Nat
    BY <1>4
  <2>4. /\ kids \in Seq(Nat) /\ Len(kids) = n + 2
        /\ \A k \in 1..n : kids[k] = held[k]
        /\ kids[n + 1] = got /\ kids[n + 2] = Len(nodes) + 1
    <3>1. /\ kids \in Seq(Nat) /\ Len(kids) = Len(held) + 2
          /\ \A k \in 1..Len(held) : kids[k] = held[k]
          /\ kids[Len(held) + 1] = got /\ kids[Len(held) + 2] = Len(nodes) + 1
      BY ONLY <1>7, <2>3, PushTwo, held \in Seq(Nat)
    <3> QED
      BY ONLY <2>2, <3>1
  <2>5. \A k \in 1..n + 2 : k \in 1..n \/ k = n + 1 \/ k = n + 2
    OBVIOUS
  <2>6. got \in 1..Len(half) /\ Len(nodes) + 1 \in 1..Len(half)
        /\ \A k \in 1..n : held[k] \in 1..Len(half)
    BY <1>4, <2>2
  <2> QED
    BY <2>1, <2>4, <2>5, <2>6 DEF Kids
<1>10. PICK heap : heap = Append(half, Inner(building, kids))
  OBVIOUS
<1>11. Fits(half, building, kids) /\ NewPrecedence(half, building, kids) = 7
  BY DEF Fits, NewPrecedence
<1>12. HeapShape(heap) /\ Grows(half, heap) /\ Len(heap) = Len(half) + 1
  BY <1>4, <1>8, <1>9, <1>10, <1>11, AddInner
<1>13. TopPrecedence(heap, Len(half) + 1) = 7
  BY <1>4, <1>8, <1>9, <1>10, <1>11, AddInner
<1>14. Grows(nodes, heap) /\ Len(heap) = Len(nodes) + 2 /\ TopPrecedence(heap, Len(nodes) + 2) = 7
  <2>1. Len(half) + 1 = Len(nodes) + 2
    BY <1>4
  <2> QED
    BY <1>4, <1>12, <1>13, <2>1 DEF Grows
<1>15. nodes' = heap
  <2>1. kids \in Seq(Nat)
    BY <1>9 DEF Kids
  <2>2. Inner(building, kids) \in Node
    BY <1>8, <2>1, Constructors
  <2> QED
    BY <1>1, <1>2, <1>3, <1>5, <1>6, <1>7, <1>10, <2>2, TopFrame, AppendTwice DEF IsLeaf
<1> QED
  BY <1>1, <1>12, <1>14, <1>15

LEMMA FinishParenthesizedTree == IInv /\ TreeShape /\ FinishParenthesized => TreeShape'
<1> SUFFICES ASSUME IInv, TreeShape, FinishParenthesized PROVE TreeShape'
  OBVIOUS
<1> DEFINE loop == "parse_binary_expression_loop"
           closing == "CLOSE_PARENTHESIS_TOKEN"
<1>1. closing \in LeafKinds
  BY DEF LeafKinds, TokenKinds, FixedTextKinds, ParenthesisKinds
<1>2. PICK heap : heap = nodes'
  OBVIOUS
<1>3. /\ control.fn = "return" /\ Top.building = "PARENTHESIZED_EXPRESSION"
      /\ control' = Run(loop, Top.parent, Len(nodes) + 2) /\ stack' = Pop
      /\ HeapShape(heap) /\ Grows(nodes, heap) /\ Len(heap) = Len(nodes) + 2
      /\ TopPrecedence(heap, Len(nodes) + 2) = 7
  BY <1>1, <1>2, FinishWithTree DEF FinishParenthesized
<1>4. /\ CallsShape(heap, Pop) /\ Called(nodes, Pop[Len(Pop)], Top)
      /\ Given(heap, Pop[Len(Pop)]) = Given(nodes, Pop[Len(Pop)])
  BY <1>3, PopTree
<1>5. /\ control'.fn = loop /\ control'.parent = Top.parent /\ control'.node = Len(nodes) + 2
  BY <1>3 DEF Run
<1>6. ResultShape(heap, control')
  <2>1. Len(nodes) + 2 \in 1..Len(heap)
    BY <1>3 DEF Grows
  <2> QED
    BY <1>5, <2>1 DEF ResultShape, HasResult
<1>7. CallShape(heap, Pop[Len(Pop)], control', Current.kind')
  <2>1. Top.parent = Given(heap, Pop[Len(Pop)]) /\ Top.parent \in 0..6
    BY <1>3, <1>4, HeldKids DEF Called, Precedences
  <2>2. Binds(heap, control'.node, Top.parent)
    BY <1>3, <1>5, <2>1 DEF Binds
  <2>3. BinaryOperatorPrecedence(Current.kind') <= 7
    BY OperatorLevels
  <2> QED
    BY <1>3, <1>5, <2>1, <2>2, <2>3 DEF CallShape
<1> QED
  BY <1>2, <1>3, <1>4, <1>6, <1>7, TreeStep

LEMMA FinishCompilationUnitTree == IInv /\ TreeShape /\ FinishCompilationUnit => TreeShape'
<1> SUFFICES ASSUME IInv, TreeShape, FinishCompilationUnit PROVE TreeShape'
  OBVIOUS
<1>1. EOF \in LeafKinds
  BY DEF LeafKinds, TokenKinds, EOF
<1>2. PICK heap : heap = nodes'
  OBVIOUS
<1>3. /\ control.fn = "return" /\ Top.building = "COMPILATION_UNIT"
      /\ control' = Run("done", Top.parent, Len(nodes) + 2) /\ stack' = Pop
      /\ HeapShape(heap) /\ Grows(nodes, heap) /\ Len(heap) = Len(nodes) + 2
  BY <1>1, <1>2, FinishWithTree DEF FinishCompilationUnit
<1>4. Pop = <<>>
  BY <1>3, PopFrame
<1>5. CallsShape(heap, Pop)
  BY <1>4 DEF CallsShape
<1>6. control'.fn = "done" /\ control'.node = Len(nodes) + 2
  BY <1>3 DEF Run
<1>7. ResultShape(heap, control')
  <2>1. Len(nodes) + 2 \in 1..Len(heap)
    BY <1>3 DEF Grows
  <2> QED
    BY <1>6, <2>1 DEF ResultShape, HasResult
<1> QED
  BY <1>2, <1>3, <1>5, <1>6, <1>7, TreeStep

\* The outermost call is entered when the last token has been read.
LEMMA LexTokenTree == IInv /\ TreeShape /\ LexToken => TreeShape'
<1> SUFFICES ASSUME IInv, TreeShape, LexToken PROVE TreeShape'
  OBVIOUS
<1>1. control.fn = "parser_new" /\ nodes' = nodes
  BY DEF LexToken
<1>2. CASE UNCHANGED << stack, control >>
  BY <1>1, <1>2 DEF TreeShape
<1>3. CASE /\ stack' = << Suspend("COMPILATION_UNIT", <<>>, 0) >>
           /\ control' = Run("parse_assignment_expression", 0, NoNode)
  <2>1. PICK frame : frame = Suspend("COMPILATION_UNIT", <<>>, 0)
    OBVIOUS
  <2>2. frame.building = "COMPILATION_UNIT" /\ frame.held = <<>>
    BY <2>1 DEF Suspend
  <2>3. PICK calls : calls = << frame >>
    OBVIOUS
  <2>4. Len(calls) = 1 /\ calls[1] = frame
    BY <2>3
  <2>5. WellHeld(nodes, frame) /\ Operands(nodes, frame)
    BY <2>2 DEF WellHeld, HeldBy, Operands
  <2>6. CallsShape(nodes, calls)
    <3>1. \A i \in 1..1 : i = 1
      OBVIOUS
    <3>2. \A i \in 1..1 - 1 : FALSE
      OBVIOUS
    <3> QED
      BY <2>4, <2>5, <3>1, <3>2 DEF CallsShape
  <2>7. control'.fn = "parse_assignment_expression" /\ control'.node = NoNode
    BY <1>3 DEF Run
  <2>8. ResultShape(nodes, control') /\ CallShape(nodes, frame, control', Current.kind')
    BY <2>2, <2>7 DEF ResultShape, HasResult, CallShape, Operators
  <2>9. stack' = calls /\ HeapShape(nodes)
    BY <1>3, <2>1, <2>3 DEF TreeShape
  <2> QED
    BY <1>1, <2>4, <2>6, <2>8, <2>9, TreeStep
<1> QED
  BY <1>2, <1>3 DEF LexToken

LEMMA InitTree == Init => TreeShape
<1> SUFFICES ASSUME Init PROVE TreeShape
  OBVIOUS
<1>1. nodes = <<>> /\ stack = <<>> /\ control = Run("parser_new", 0, NoNode)
  BY DEF Init
<1>2. control.fn = "parser_new" /\ control.node = NoNode
  BY <1>1 DEF Run
<1>3. HeapShape(<<>>) /\ CallsShape(<<>>, <<>>)
  BY DEF HeapShape, CallsShape
<1> QED
  BY <1>1, <1>2, <1>3 DEF TreeShape, ResultShape, HasResult

LEMMA TreeShapeKept == IInv /\ TreeShape /\ [Next]_vars => TreeShape'
<1> SUFFICES ASSUME IInv, TreeShape, [Next]_vars PROVE TreeShape'
  OBVIOUS
<1>1. CASE Next
  BY <1>1, LexTokenTree, ParseAssignmentTree, ParseNoAssignmentTree, ParseUnaryTree,
     ParseParenthesizedTree, PrimaryTree, ParseBinaryRightTree, ReturnLeftTree,
     FinishOperatorTree, FinishAssignmentTree, FinishParenthesizedTree, FinishCompilationUnitTree
  DEF Next
<1>2. CASE UNCHANGED vars
  BY <1>2 DEF vars, TreeShape, Top, Current, Peek
<1> QED
  BY <1>1, <1>2

--------------------------------------------------------------------------------
(* What binder.c casts the nodes to.                                              *)

\* A node is cast by what its kids are.
LEMMA KidsCast ==
  ASSUME NEW old, NEW new, NEW kind, NEW kids,
         \A k \in 1..Arity(kind) : new[kids[k]] = old[kids[k]],
         Casts(old, kind, kids)
  PROVE  Casts(new, kind, kids)
<1>1. CASE kind \in { "BINARY_EXPRESSION", "ASSIGNMENT_EXPRESSION", "PARENTHESIZED_EXPRESSION" }
  <2>1. 1 \in 1..Arity(kind) /\ 2 \in 1..Arity(kind) /\ 3 \in 1..Arity(kind)
    BY <1>1 DEF Arity
  <2>2. new[kids[1]] = old[kids[1]] /\ new[kids[2]] = old[kids[2]] /\ new[kids[3]] = old[kids[3]]
    BY <2>1
  <2> QED
    BY <1>1, <2>2 DEF Casts, IsExpression
<1>2. CASE kind \in { "UNARY_EXPRESSION", "COMPILATION_UNIT" }
  <2>1. 1 \in 1..Arity(kind) /\ 2 \in 1..Arity(kind)
    BY <1>2 DEF Arity
  <2>2. new[kids[1]] = old[kids[1]] /\ new[kids[2]] = old[kids[2]]
    BY <2>1
  <2> QED
    BY <1>2, <2>2 DEF Casts, IsExpression
<1>3. CASE kind \in { "LITERAL_EXPRESSION", "NAME_EXPRESSION" }
  <2>1. 1 \in 1..Arity(kind)
    BY <1>3 DEF Arity
  <2>2. new[kids[1]] = old[kids[1]]
    BY <2>1
  <2> QED
    BY <1>3, <2>2 DEF Casts, IsExpression
<1>4. CASE kind \notin NodeKinds
  BY <1>4 DEF Casts, NodeKinds, ExpressionKinds
<1> QED
  BY <1>1, <1>2, <1>3, <1>4 DEF NodeKinds, ExpressionKinds

\* What was cast stays so when the heap grows.
LEMMA CastsStay ==
  ASSUME NEW old, NEW new, Grows(old, new), HeapShape(old), NEW kept, NodesCast(old, kept)
  PROVE  \A n \in 1..Len(old) : Casts(new, new[n].kind, new[n].kids) /\ Copy(new[n], kept)
<1> SUFFICES ASSUME NEW n \in 1..Len(old)
             PROVE  Casts(new, new[n].kind, new[n].kids) /\ Copy(new[n], kept)
  OBVIOUS
<1>1. new[n] = old[n]
  BY DEF Grows
<1>2. Casts(old, old[n].kind, old[n].kids) /\ Copy(old[n], kept)
  BY DEF NodesCast
<1>3. \A k \in 1..Arity(old[n].kind) : new[old[n].kids[k]] = old[old[n].kids[k]]
  <2>1. WellBuilt(old, n)
    BY DEF HeapShape
  <2>2. \A k \in 1..Arity(old[n].kind) : old[n].kids[k] \in 1..Len(old)
    BY <2>1 DEF WellBuilt, Grows
  <2> QED
    BY <2>2 DEF Grows
<1> QED
  BY <1>1, <1>2, <1>3, KidsCast

LEMMA AddLeafCast ==
  ASSUME NEW heap \in Seq(Node), HeapShape(heap), NEW kept, NodesCast(heap, kept),
         NEW leaf, IsLeaf(leaf), Copy(leaf, kept), NEW new, new = Append(heap, leaf)
  PROVE  NodesCast(new, kept)
<1>1. /\ Grows(heap, new) /\ Len(new) = Len(heap) + 1 /\ Len(heap) \in Nat
      /\ new[Len(heap) + 1] = leaf
  BY AddLeaf
<1>2. leaf.kind \notin NodeKinds
  BY LeafOrInner DEF IsLeaf
<1>3. Casts(new, leaf.kind, leaf.kids)
  BY <1>2 DEF Casts, NodeKinds, ExpressionKinds
<1>4. \A n \in 1..Len(heap) : Casts(new, new[n].kind, new[n].kids) /\ Copy(new[n], kept)
  BY <1>1, CastsStay
<1>5. \A n \in 1..Len(new) : n \in 1..Len(heap) \/ n = Len(heap) + 1
  BY <1>1
<1> QED
  BY <1>1, <1>3, <1>4, <1>5 DEF NodesCast

LEMMA AddInnerCast ==
  ASSUME NEW heap \in Seq(Node), HeapShape(heap), NEW kept, NodesCast(heap, kept),
         NEW kind \in NodeKinds, NEW kids, Kids(heap, kind, kids), Casts(heap, kind, kids),
         NEW new, new = Append(heap, Inner(kind, kids))
  PROVE  NodesCast(new, kept) /\ Grows(heap, new) /\ new[Len(heap) + 1].kind = kind
<1>1. PICK node \in Node : node = Inner(kind, kids) /\ node.kind = kind /\ node.kids = kids /\ node.token = 0
  BY Constructors DEF Inner, Kids
<1>2. /\ Grows(heap, new) /\ Len(new) = Len(heap) + 1 /\ Len(heap) \in Nat
      /\ new[Len(heap) + 1] = node
  BY <1>1, PushOne DEF Grows
<1>3. \A k \in 1..Arity(kind) : new[kids[k]] = heap[kids[k]]
  BY <1>2 DEF Grows, Kids
<1>4. Casts(new, kind, kids) /\ Copy(node, kept)
  BY <1>1, <1>3, KidsCast DEF Copy
<1>5. \A n \in 1..Len(heap) : Casts(new, new[n].kind, new[n].kids) /\ Copy(new[n], kept)
  BY <1>2, CastsStay
<1>6. \A n \in 1..Len(new) : n \in 1..Len(heap) \/ n = Len(heap) + 1
  BY <1>2
<1>7. NodesCast(new, kept)
  BY <1>1, <1>2, <1>4, <1>5, <1>6 DEF NodesCast
<1> QED
  BY <1>1, <1>2, <1>7

LEMMA HeldStays ==
  ASSUME NEW old, NEW new, Grows(old, new), NEW frame, WellHeld(old, frame), CastsHeld(old, frame)
  PROVE  CastsHeld(new, frame)
<1>1. CASE frame.building \in { "BINARY_EXPRESSION", "ASSIGNMENT_EXPRESSION" }
  <2>1. 1 \in 1..HeldBy(frame.building) /\ 2 \in 1..HeldBy(frame.building)
    BY <1>1 DEF HeldBy
  <2>2. new[frame.held[1]] = old[frame.held[1]] /\ new[frame.held[2]] = old[frame.held[2]]
    BY <2>1 DEF WellHeld, Grows
  <2> QED
    BY <1>1, <2>2 DEF CastsHeld, IsExpression
<1>2. CASE frame.building \in { "UNARY_EXPRESSION", "PARENTHESIZED_EXPRESSION" }
  <2>1. 1 \in 1..HeldBy(frame.building)
    BY <1>2 DEF HeldBy
  <2>2. new[frame.held[1]] = old[frame.held[1]]
    BY <2>1 DEF WellHeld, Grows
  <2> QED
    BY <1>2, <2>2 DEF CastsHeld
<1>3. CASE frame.building \notin { "BINARY_EXPRESSION", "ASSIGNMENT_EXPRESSION",
                                  "UNARY_EXPRESSION", "PARENTHESIZED_EXPRESSION" }
  BY <1>3 DEF CastsHeld
<1> QED
  BY <1>1, <1>2, <1>3

\* What is left to show of a step of a parse function.
LEMMA CastStep ==
  ASSUME TreeShape, TreeCasts, tokens' = tokens, diagnostics' = <<>> => diagnostics = <<>>,
         NEW heap, heap = nodes', Grows(nodes, heap), NodesCast(heap, tokens),
         CastsResult(heap, control'), NEW calls, calls = stack',
         \A i \in 1..Len(calls) :
             (i \in 1..Len(stack) /\ calls[i] = stack[i]) \/ CastsHeld(heap, calls[i])
  PROVE  TreeCasts'
<1>1. ASSUME NEW i \in 1..Len(calls) PROVE CastsHeld(heap, calls[i])
  <2>1. CASE i \in 1..Len(stack) /\ calls[i] = stack[i]
    <3>1. WellHeld(nodes, stack[i]) /\ CastsHeld(nodes, stack[i])
      BY <2>1 DEF TreeShape, CallsShape, TreeCasts
    <3> QED
      BY <2>1, <3>1, HeldStays
  <2> QED
    BY <2>1
<1>2. NodesCast(nodes', tokens') /\ CastsResult(nodes', control')
  OBVIOUS
<1>3. \A i \in 1..Len(stack') : CastsHeld(nodes', stack'[i])
  BY <1>1
<1>4. diagnostics' = <<>> => \A i \in 1..Len(tokens') : ~LexicalError(tokens'[i])
  BY DEF TreeCasts
<1> QED
  BY <1>2, <1>3, <1>4 DEF TreeCasts

LEMMA ReportsStay ==
  ASSUME IInv, NEW kind, MatchToken(kind)
  PROVE  diagnostics' = <<>> => diagnostics = <<>>
<1>1. PICK S : diagnostics \in Seq(S) /\ "unexpected_token" \in S
  BY DEF IInv, TypeOK
<1>2. Append(diagnostics, "unexpected_token") # <<>>
  BY <1>1, PushOne, EmptySeq
<1> QED
  BY <1>2 DEF MatchToken

\* Copied tokens are of their own kind, and match_token makes up only missing ones.
LEMMA LeavesAreCopies ==
  ASSUME IInv, control.fn \notin { "parser_new", "done" }
  PROVE  /\ \A i \in 1..Len(tokens) : Copy(Leaf(i), tokens) /\ Leaf(i).token # 0
         /\ \A kind : Copy(Matched(kind), tokens) /\ Matched(kind).kind = kind
         /\ \A kind : Matches(kind) => Matched(kind).token # 0
         /\ position + 1 \in 1..Len(tokens) /\ Current.kind = tokens[position + 1].kind
<1>1. \A i \in 1..Len(tokens) : Copy(Leaf(i), tokens) /\ Leaf(i).token # 0
  BY DEF Leaf, Copy
<1>2. position + 1 \in 1..Len(tokens) /\ Current.kind = tokens[position + 1].kind
  BY CurrentIsReal DEF IInv, TypeOK
<1>3. \A kind : Copy(Hole(kind), tokens) /\ Hole(kind).kind = kind
  BY DEF Hole, Copy
<1>4. \A kind : Matches(kind) => Leaf(position + 1).kind = kind
  BY <1>2 DEF Matches, Leaf
<1> QED
  BY <1>1, <1>2, <1>3, <1>4 DEF Matched

\* A call that waits is put after those that did.
LEMMA PushAFrame ==
  ASSUME IInv, NEW frame, NEW calls, calls = Append(stack, frame), NEW i \in 1..Len(calls)
  PROVE  (i \in 1..Len(stack) /\ calls[i] = stack[i]) \/ calls[i] = frame
<1>1. stack \in Seq(Frame \cup { frame }) /\ frame \in Frame \cup { frame }
  <2>1. stack \in Seq(Frame)
    BY DEF IInv, TypeOK
  <2> QED
    BY <2>1
<1>2. /\ Len(calls) = Len(stack) + 1 /\ Len(stack) \in Nat
      /\ \A k \in 1..Len(stack) : calls[k] = stack[k]
      /\ calls[Len(stack) + 1] = frame
  BY <1>1, PushOne
<1>3. i \in 1..Len(stack) \/ i = Len(stack) + 1
  BY <1>2
<1> QED
  BY <1>2, <1>3

\* A call that is resumed leaves those that called it.
LEMMA PopAFrame ==
  ASSUME IInv, stack # <<>>, NEW calls, calls = Pop, NEW i \in 1..Len(calls)
  PROVE  i \in 1..Len(stack) /\ calls[i] = stack[i]
<1>1. stack \in Seq(Frame)
  BY DEF IInv, TypeOK
<1>2. /\ Len(calls) = Len(stack) - 1 /\ Len(stack) \in Nat \ { 0 }
      /\ \A k \in 1..Len(stack) - 1 : calls[k] = stack[k]
  BY <1>1, PopOne DEF Pop
<1>3. i \in 1..Len(stack) /\ i \in 1..Len(stack) - 1
  BY <1>2
<1> QED
  BY <1>2, <1>3

LEMMA ParseAssignmentCast == IInv /\ TreeShape /\ TreeCasts /\ ParseAssignment => TreeCasts'
<1> SUFFICES ASSUME IInv, TreeShape, TreeCasts, ParseAssignment PROVE TreeCasts'
  OBVIOUS
<1>1. /\ control.fn = "parse_assignment_expression" /\ control' = control /\ InputUnchanged
      /\ nodes' = nodes \o << Leaf(position + 1), Leaf(position + 2) >> /\ diagnostics' = diagnostics
      /\ stack' = Append(stack, Suspend("ASSIGNMENT_EXPRESSION", << Len(nodes) + 1, Len(nodes) + 2 >>, 0))
      /\ Current.kind = "IDENTIFIER_TOKEN"
  BY DEF ParseAssignment, StartsAssignment, Current
<1>2. position + 1 \in 1..Len(tokens) /\ position + 2 \in 1..Len(tokens)
  <2>1. position \in Nat /\ Len(tokens) \in Nat
    BY <1>1, Reading
  <2>2. position + 2 < Len(tokens)
    BY <1>1, AssignmentIsInText DEF ParseAssignment
  <2> QED
    BY <2>1, <2>2
<1>3. PICK name, equals : name = Leaf(position + 1) /\ equals = Leaf(position + 2)
  OBVIOUS
<1>4. /\ IsLeaf(name) /\ IsLeaf(equals) /\ Copy(name, tokens) /\ Copy(equals, tokens)
      /\ name.kind = "IDENTIFIER_TOKEN" /\ name.token # 0 /\ equals.kind = "EQUALS_TOKEN"
  BY <1>1, <1>2, <1>3, AssignmentTokens, LeavesAreLeaves, LeavesAreCopies
  DEF ParseAssignment
<1>5. PICK half : half = Append(nodes, name)
  OBVIOUS
<1>6. PICK heap : heap = Append(half, equals)
  OBVIOUS
<1>7. nodes' = heap
  BY <1>1, <1>3, <1>4, <1>5, <1>6, TopFrame, AppendTwice DEF IsLeaf
<1>8. /\ HeapShape(half) /\ Grows(nodes, half) /\ half \in Seq(Node) /\ Len(half) = Len(nodes) + 1
      /\ Len(nodes) \in Nat /\ half[Len(nodes) + 1] = name
  BY <1>1, <1>4, <1>5, TopFrame, AddLeaf
<1>9. Grows(half, heap) /\ heap[Len(half) + 1] = equals
  BY <1>4, <1>6, <1>8, AddLeaf
<1>10. Grows(nodes, heap) /\ heap[Len(nodes) + 1] = name /\ heap[Len(nodes) + 2] = equals
  <2>1. Len(half) + 1 = Len(nodes) + 2
    BY <1>8
  <2> QED
    BY <1>8, <1>9, <2>1 DEF Grows
<1>11. NodesCast(half, tokens)
  BY <1>1, <1>4, <1>5, TopFrame, AddLeafCast DEF TreeCasts
<1>12. NodesCast(heap, tokens)
  BY <1>4, <1>6, <1>8, <1>11, AddLeafCast
<1>13. PICK frame : frame = Suspend("ASSIGNMENT_EXPRESSION", << Len(nodes) + 1, Len(nodes) + 2 >>, 0)
  OBVIOUS
<1>14. /\ frame.building = "ASSIGNMENT_EXPRESSION"
       /\ frame.held[1] = Len(nodes) + 1 /\ frame.held[2] = Len(nodes) + 2
  BY <1>13 DEF Suspend
<1>15. CastsHeld(heap, frame)
  BY <1>4, <1>10, <1>14 DEF CastsHeld
<1>16. PICK calls : calls = stack'
  OBVIOUS
<1>17. ASSUME NEW i \in 1..Len(calls)
       PROVE  (i \in 1..Len(stack) /\ calls[i] = stack[i]) \/ CastsHeld(heap, calls[i])
  BY <1>1, <1>13, <1>15, <1>16, PushAFrame
<1>18. CastsResult(heap, control') /\ tokens' = tokens
  BY <1>1 DEF CastsResult, InputUnchanged
<1> QED
  BY <1>1, <1>7, <1>10, <1>12, <1>16, <1>17, <1>18, CastStep

\* A call over one new leaf waits for a call without a result.
LEMMA PushLeafCast ==
  ASSUME IInv, TreeShape, TreeCasts, control.fn \notin { "parser_new", "done" },
         NEW leaf, IsLeaf(leaf), Copy(leaf, tokens), nodes' = Append(nodes, leaf),
         NEW frame, stack' = Append(stack, frame), CastsHeld(nodes', frame),
         control'.fn \in { "parse_assignment_expression", "parse_binary_expression" },
         tokens' = tokens, diagnostics' = <<>> => diagnostics = <<>>
  PROVE  TreeCasts'
<1>1. PICK heap : heap = nodes'
  OBVIOUS
<1>2. Grows(nodes, heap) /\ NodesCast(heap, tokens)
  BY <1>1, TopFrame, AddLeaf, AddLeafCast DEF TreeCasts
<1>3. PICK calls : calls = stack'
  OBVIOUS
<1>4. ASSUME NEW i \in 1..Len(calls)
      PROVE  (i \in 1..Len(stack) /\ calls[i] = stack[i]) \/ CastsHeld(heap, calls[i])
  BY <1>1, <1>3, PushAFrame
<1>5. CastsResult(heap, control')
  BY DEF CastsResult
<1> QED
  BY <1>1, <1>2, <1>3, <1>4, <1>5, CastStep

\* What has a precedence is an operator.
LEMMA OperatorsHaveKinds ==
  \A kind \in LeafKinds :
      /\ (UnaryOperatorPrecedence(kind) # 0) <=> (kind \in UnaryOperatorKinds)
      /\ (BinaryOperatorPrecedence(kind) # 0) <=> (kind \in BinaryOperatorKinds)
<1>1. \A kind \in LeafKinds : kind \in SyntaxKinds
  BY DEF LeafKinds, SyntaxKinds
<1> QED
  BY <1>1, OperatorLevels DEF UnaryOperatorKinds, BinaryOperatorKinds

LEMMA CurrentHasKind ==
  ASSUME IInv, control.fn \notin { "parser_new", "done" }
  PROVE  Current.kind \in LeafKinds
BY LeavesAreLeaves DEF IsLeaf

LEMMA ParseUnaryCast == IInv /\ TreeShape /\ TreeCasts /\ ParseUnary => TreeCasts'
<1> SUFFICES ASSUME IInv, TreeShape, TreeCasts, ParseUnary PROVE TreeCasts'
  OBVIOUS
<1>1. /\ control.fn = "parse_binary_expression"
      /\ control' = Run("parse_binary_expression", UnaryOperatorPrecedence(Current.kind), NoNode)
      /\ stack' = Append(stack, Suspend("UNARY_EXPRESSION", << Len(nodes) + 1 >>, control.parent))
      /\ nodes' = Append(nodes, Leaf(position + 1)) /\ tokens' = tokens /\ diagnostics' = diagnostics
  BY DEF ParseUnary, InputUnchanged
<1>2. IsLeaf(Leaf(position + 1)) /\ Copy(Leaf(position + 1), tokens)
  BY <1>1, LeavesAreLeaves, LeavesAreCopies
<1>3. PICK frame : frame = Suspend("UNARY_EXPRESSION", << Len(nodes) + 1 >>, control.parent)
  OBVIOUS
<1>4. nodes'[Len(nodes) + 1].kind \in UnaryOperatorKinds
  <2>1. Current.kind \in UnaryOperatorKinds
    <3>1. PICK kind : kind = Current.kind
      OBVIOUS
    <3>2. UnaryOperatorPrecedence(kind) # 0
      BY <3>1 DEF ParseUnary, StartsUnary
    <3>3. kind \in LeafKinds
      BY <1>1, <3>1, CurrentHasKind
    <3> QED
      BY <3>1, <3>2, <3>3, OperatorsHaveKinds
  <2>2. nodes'[Len(nodes) + 1].kind = Current.kind
    BY <1>1, <1>2, LeavesAreLeaves, TopFrame, AddLeaf
  <2> QED
    BY <2>1, <2>2
<1>5. CastsHeld(nodes', frame)
  BY <1>3, <1>4 DEF CastsHeld, Suspend
<1>6. control'.fn = "parse_binary_expression"
  BY <1>1 DEF Run
<1> QED
  BY <1>1, <1>2, <1>3, <1>5, <1>6, PushLeafCast

LEMMA ParseParenthesizedCast == IInv /\ TreeShape /\ TreeCasts /\ ParseParenthesized => TreeCasts'
<1> SUFFICES ASSUME IInv, TreeShape, TreeCasts, ParseParenthesized PROVE TreeCasts'
  OBVIOUS
<1> DEFINE opening == "OPEN_PARENTHESIS_TOKEN"
<1>1. /\ control.fn = "parse_binary_expression" /\ MatchToken(opening)
      /\ control' = Run("parse_assignment_expression", 0, NoNode)
      /\ stack' = Append(stack, Suspend("PARENTHESIZED_EXPRESSION", << Len(nodes) + 1 >>, control.parent))
      /\ nodes' = Append(nodes, Matched(opening)) /\ tokens' = tokens
  BY DEF ParseParenthesized, ParsesPrimary, InputUnchanged
<1>2. opening \in LeafKinds
  BY DEF LeafKinds, TokenKinds, FixedTextKinds, ParenthesisKinds
<1>3. IsLeaf(Matched(opening)) /\ Copy(Matched(opening), tokens)
  BY <1>1, <1>2, LeavesAreLeaves, LeavesAreCopies
<1>4. PICK frame : frame = Suspend("PARENTHESIZED_EXPRESSION", << Len(nodes) + 1 >>, control.parent)
  OBVIOUS
<1>5. CastsHeld(nodes', frame)
  <2>1. nodes'[Len(nodes) + 1].kind = opening
    BY <1>1, <1>2, <1>3, LeavesAreLeaves, TopFrame, AddLeaf
  <2> QED
    BY <1>4, <2>1 DEF CastsHeld, Suspend
<1>6. control'.fn = "parse_assignment_expression"
  BY <1>1 DEF Run
<1>7. diagnostics' = <<>> => diagnostics = <<>>
  BY <1>1, ReportsStay
<1> QED
  BY <1>1, <1>3, <1>4, <1>5, <1>6, <1>7, PushLeafCast

LEMMA ParseBinaryRightCast == IInv /\ TreeShape /\ TreeCasts /\ ParseBinaryRight => TreeCasts'
<1> SUFFICES ASSUME IInv, TreeShape, TreeCasts, ParseBinaryRight PROVE TreeCasts'
  OBVIOUS
<1>1. /\ control.fn = "parse_binary_expression_loop"
      /\ control' = Run("parse_binary_expression", BinaryOperatorPrecedence(Current.kind), NoNode)
      /\ stack' = Append(stack, Suspend("BINARY_EXPRESSION", << control.node, Len(nodes) + 1 >>, control.parent))
      /\ nodes' = Append(nodes, Leaf(position + 1)) /\ tokens' = tokens /\ diagnostics' = diagnostics
  BY DEF ParseBinaryRight, InputUnchanged
<1>2. IsLeaf(Leaf(position + 1)) /\ Copy(Leaf(position + 1), tokens)
  BY <1>1, LeavesAreLeaves, LeavesAreCopies
<1>3. PICK frame : frame = Suspend("BINARY_EXPRESSION", << control.node, Len(nodes) + 1 >>, control.parent)
  OBVIOUS
<1>4. /\ frame.building = "BINARY_EXPRESSION"
      /\ frame.held[1] = control.node /\ frame.held[2] = Len(nodes) + 1
  BY <1>3 DEF Suspend
<1>5. Grows(nodes, nodes') /\ control.node \in 1..Len(nodes)
  BY <1>1, <1>2, TopFrame, AddLeaf DEF TreeShape, ResultShape, HasResult
<1>6. CastsHeld(nodes', frame)
  <2>1. Current.kind \in BinaryOperatorKinds
    <3>1. PICK kind : kind = Current.kind
      OBVIOUS
    <3>2. BinaryOperatorPrecedence(kind) # 0
      BY <3>1 DEF ParseBinaryRight, Extends
    <3>3. kind \in LeafKinds
      BY <1>1, <3>1, CurrentHasKind
    <3> QED
      BY <3>1, <3>2, <3>3, OperatorsHaveKinds
  <2>2. nodes'[Len(nodes) + 1].kind = Current.kind
    BY <1>1, <1>2, LeavesAreLeaves, TopFrame, AddLeaf
  <2>3. IsExpression(nodes', control.node)
    BY <1>1, <1>5 DEF IsExpression, TreeCasts, CastsResult, Grows
  <2> QED
    BY <1>4, <2>1, <2>2, <2>3 DEF CastsHeld
<1>7. control'.fn = "parse_binary_expression"
  BY <1>1 DEF Run
<1> QED
  BY <1>1, <1>2, <1>3, <1>6, <1>7, PushLeafCast

LEMMA ParseNoAssignmentCast == IInv /\ TreeShape /\ TreeCasts /\ ParseNoAssignment => TreeCasts'
<1> SUFFICES ASSUME IInv, TreeShape, TreeCasts, ParseNoAssignment PROVE TreeCasts'
  OBVIOUS
<1>1. /\ control' = Run("parse_binary_expression", 0, NoNode)
      /\ UNCHANGED << nodes, stack, tokens, diagnostics >>
  BY DEF ParseNoAssignment, InputUnchanged
<1>2. CastsResult(nodes', control')
  BY <1>1 DEF CastsResult, Run
<1> QED
  BY <1>1, <1>2 DEF TreeCasts

LEMMA ReturnLeftCast == IInv /\ TreeShape /\ TreeCasts /\ ReturnLeft => TreeCasts'
<1> SUFFICES ASSUME IInv, TreeShape, TreeCasts, ReturnLeft PROVE TreeCasts'
  OBVIOUS
<1>1. /\ control.fn = "parse_binary_expression_loop" /\ control' = Run("return", 0, control.node)
      /\ UNCHANGED << nodes, stack, tokens, diagnostics >>
  BY DEF ReturnLeft, InputUnchanged
<1>2. CastsResult(nodes', control')
  BY <1>1 DEF CastsResult, Run, TreeCasts
<1> QED
  BY <1>1, <1>2 DEF TreeCasts

LEMMA ParseSingleCast ==
  ASSUME IInv, TreeShape, TreeCasts, ParsesPrimary, NEW kind \in LeafKinds,
         NEW expression \in { "LITERAL_EXPRESSION", "NAME_EXPRESSION" },
         expression = "LITERAL_EXPRESSION" => kind \in KeywordKinds \cup { "NUMBER_TOKEN" } /\ Matches(kind),
         expression = "NAME_EXPRESSION" => kind = "IDENTIFIER_TOKEN",
         ParseSingle(expression, kind)
  PROVE  TreeCasts'
<1>1. /\ control.fn = "parse_binary_expression" /\ stack' = stack /\ tokens' = tokens
      /\ nodes' = nodes \o << Matched(kind), Inner(expression, << Len(nodes) + 1 >>) >>
      /\ control' = Run("parse_binary_expression_loop", control.parent, Len(nodes) + 2)
      /\ MatchToken(kind)
  BY DEF ParseSingle, ParsesPrimary, InputUnchanged
<1>2. PICK leaf : /\ leaf = Matched(kind) /\ IsLeaf(leaf) /\ Copy(leaf, tokens) /\ leaf.kind = kind
                  /\ Matches(kind) => leaf.token # 0
  BY <1>1, LeavesAreLeaves, LeavesAreCopies
<1>3. PICK half : half = Append(nodes, leaf)
  OBVIOUS
<1>4. /\ HeapShape(half) /\ Grows(nodes, half) /\ half \in Seq(Node) /\ Len(half) = Len(nodes) + 1
      /\ Len(nodes) \in Nat /\ half[Len(nodes) + 1] = leaf
  BY <1>1, <1>2, <1>3, TopFrame, AddLeaf
<1>5. NodesCast(half, tokens)
  BY <1>1, <1>2, <1>3, TopFrame, AddLeafCast DEF TreeCasts
<1>6. PICK kids \in Seq(Nat) : kids = << Len(nodes) + 1 >>
  <2>1. Len(nodes) + 1 \in Nat
    BY <1>4
  <2>2. << Len(nodes) + 1 >> \in Seq(Nat)
    BY <2>1
  <2> QED
    BY <2>2
<1>7. expression \in NodeKinds /\ Arity(expression) = 1 /\ expression \in ExpressionKinds
  BY DEF NodeKinds, ExpressionKinds, Arity
<1>8. Len(kids) = 1 /\ kids[1] = Len(nodes) + 1
  BY <1>6
<1>9. Kids(half, expression, kids)
  <2>1. kids[1] \in 1..Len(half)
    BY <1>4, <1>8
  <2>2. \A k \in 1..1 : k = 1
    OBVIOUS
  <2> QED
    BY <1>7, <1>8, <2>1, <2>2 DEF Kids
<1>10. Casts(half, expression, kids)
  BY <1>2, <1>4, <1>8 DEF Casts
<1>11. PICK heap : heap = Append(half, Inner(expression, kids))
  OBVIOUS
<1>12. NodesCast(heap, tokens) /\ Grows(half, heap) /\ heap[Len(half) + 1].kind = expression
  <2>1. NodesCast(heap, tokens)
    BY <1>4, <1>5, <1>7, <1>9, <1>10, <1>11, AddInnerCast
  <2>2. Grows(half, heap)
    BY <1>4, <1>5, <1>7, <1>9, <1>10, <1>11, AddInnerCast
  <2>3. heap[Len(half) + 1].kind = expression
    BY <1>4, <1>5, <1>7, <1>9, <1>10, <1>11, AddInnerCast
  <2> QED
    BY <2>1, <2>2, <2>3
<1>13. Grows(nodes, heap)
  BY <1>4, <1>12 DEF Grows
<1>14. nodes' = heap
  <2>1. Inner(expression, kids) \in Node
    BY <1>7, Constructors
  <2> QED
    BY <1>1, <1>2, <1>3, <1>6, <1>11, <2>1, TopFrame, AppendTwice DEF IsLeaf
<1>15. CastsResult(heap, control')
  <2>1. control'.fn = "parse_binary_expression_loop" /\ control'.node = Len(nodes) + 2
    BY <1>1 DEF Run
  <2>2. Len(half) + 1 = Len(nodes) + 2
    BY <1>4
  <2> QED
    BY <1>7, <1>12, <2>1, <2>2 DEF CastsResult, IsExpression
<1>16. diagnostics' = <<>> => diagnostics = <<>>
  BY <1>1, ReportsStay
<1>17. PICK calls : calls = stack' /\ calls = stack
  BY <1>1
<1> QED
  BY <1>1, <1>12, <1>13, <1>14, <1>15, <1>16, <1>17, CastStep

LEMMA PrimaryCast ==
  IInv /\ TreeShape /\ TreeCasts /\ (ParseBooleanLiteral \/ ParseNumberLiteral \/ ParseName) => TreeCasts'
<1> SUFFICES ASSUME IInv, TreeShape, TreeCasts, ParseBooleanLiteral \/ ParseNumberLiteral \/ ParseName
             PROVE  TreeCasts'
  OBVIOUS
<1>1. {"NUMBER_TOKEN", "IDENTIFIER_TOKEN"} \cup KeywordKinds \subseteq LeafKinds
  BY DEF LeafKinds, TokenKinds, FixedTextKinds, KeywordKinds
<1>2. CASE ParseBooleanLiteral
  BY <1>1, <1>2, ParseSingleCast DEF ParseBooleanLiteral, Matches
<1>3. CASE ParseNumberLiteral
  BY <1>1, <1>3, ParseSingleCast DEF ParseNumberLiteral, Matches
<1>4. CASE ParseName
  BY <1>1, <1>4, ParseSingleCast DEF ParseName
<1> QED
  BY <1>2, <1>3, <1>4

\* What a suspended call held and what it got are what its node casts them to.
LEMMA HeldAndGotCast ==
  ASSUME IInv, TreeShape, TreeCasts, control.fn = "return",
         NEW building \in { "UNARY_EXPRESSION", "BINARY_EXPRESSION", "ASSIGNMENT_EXPRESSION" },
         Top.building = building, NEW kids, kids = Append(Top.held, control.node)
  PROVE  Casts(nodes, building, kids)
<1>1. PICK held \in Seq(Nat) : held = Top.held
  BY HeldKids
<1>2. PICK got \in 1..Len(nodes) : got = control.node
  BY DEF TreeShape, ResultShape, HasResult
<1>3. PICK n \in Nat : n = HeldBy(building)
  BY DEF HeldBy
<1>4. Len(held) = n
  BY <1>1, <1>3, TopFrame DEF WellHeld
<1>5. (\A k \in 1..n : kids[k] = held[k]) /\ kids[n + 1] = got
  BY <1>1, <1>2, <1>4, TopFrame, PushOne
<1>6. CastsHeld(nodes, Top)
  <2>1. Len(stack) \in 1..Len(stack)
    BY TopFrame
  <2> QED
    BY <2>1, TopFrame DEF TreeCasts
<1>7. IsExpression(nodes, got)
  BY <1>2 DEF TreeCasts, CastsResult
<1>8. CASE building = "BINARY_EXPRESSION"
  <2>1. n = 2 /\ 1 \in 1..2 /\ 2 \in 1..2 /\ n + 1 = 3
    BY <1>3, <1>8 DEF HeldBy
  <2>2. kids[1] = held[1] /\ kids[2] = held[2] /\ kids[3] = got
    BY <1>5, <2>1
  <2> QED
    BY <1>1, <1>6, <1>7, <1>8, <2>2 DEF Casts, CastsHeld
<1>9. CASE building = "ASSIGNMENT_EXPRESSION"
  <2>1. n = 2 /\ 1 \in 1..2 /\ 2 \in 1..2 /\ n + 1 = 3
    BY <1>3, <1>9 DEF HeldBy
  <2>2. kids[1] = held[1] /\ kids[2] = held[2] /\ kids[3] = got
    BY <1>5, <2>1
  <2> QED
    BY <1>1, <1>6, <1>7, <1>9, <2>2 DEF Casts, CastsHeld
<1>10. CASE building = "UNARY_EXPRESSION"
  <2>1. n = 1 /\ 1 \in 1..1 /\ n + 1 = 2
    BY <1>3, <1>10 DEF HeldBy
  <2>2. kids[1] = held[1] /\ kids[2] = got
    BY <1>5, <2>1
  <2> QED
    BY <1>1, <1>6, <1>7, <1>10, <2>2 DEF Casts, CastsHeld
<1> QED
  BY <1>8, <1>9, <1>10

\* A node over what the suspended call held and got is what the caller gets.
LEMMA FinishNodeCast ==
  ASSUME IInv, TreeShape, TreeCasts, control.fn = "return",
         NEW building \in { "UNARY_EXPRESSION", "BINARY_EXPRESSION", "ASSIGNMENT_EXPRESSION" },
         Top.building = building,
         nodes' = Append(nodes, Inner(building, Append(Top.held, control.node))),
         NEW next \in { "parse_binary_expression_loop", "return" }, NEW parent,
         control' = Run(next, parent, Len(nodes) + 1), stack' = Pop,
         UNCHANGED << tokens, diagnostics >>
  PROVE  TreeCasts'
<1>1. PICK kids : kids = Append(Top.held, control.node)
  OBVIOUS
<1>2. PICK heap : heap = Append(nodes, Inner(building, kids))
  OBVIOUS
<1>3. heap = nodes'
  BY <1>1, <1>2
<1>4. Kids(nodes, building, kids) /\ Casts(nodes, building, kids)
  BY <1>1, HeldAndGot, HeldAndGotCast
<1>5. building \in NodeKinds /\ building \in ExpressionKinds
  BY DEF NodeKinds, ExpressionKinds
<1>6. NodesCast(heap, tokens) /\ Grows(nodes, heap) /\ heap[Len(nodes) + 1].kind = building
  <2>1. nodes \in Seq(Node) /\ HeapShape(nodes) /\ NodesCast(nodes, tokens)
    BY TopFrame DEF TreeCasts
  <2>2. NodesCast(heap, tokens)
    BY <1>2, <1>4, <1>5, <2>1, AddInnerCast
  <2>3. Grows(nodes, heap)
    BY <1>2, <1>4, <1>5, <2>1, AddInnerCast
  <2>4. heap[Len(nodes) + 1].kind = building
    BY <1>2, <1>4, <1>5, <2>1, AddInnerCast
  <2> QED
    BY <2>2, <2>3, <2>4
<1>7. CastsResult(heap, control')
  BY <1>5, <1>6 DEF CastsResult, IsExpression, Run
<1>8. PICK calls : calls = stack'
  OBVIOUS
<1>9. \A i \in 1..Len(calls) : i \in 1..Len(stack) /\ calls[i] = stack[i]
  BY <1>8, TopFrame, PopAFrame
<1> QED
  BY <1>3, <1>6, <1>7, <1>8, <1>9, CastStep

LEMMA FinishOperatorCast == IInv /\ TreeShape /\ TreeCasts /\ FinishOperator => TreeCasts'
<1> SUFFICES ASSUME IInv, TreeShape, TreeCasts, FinishOperator PROVE TreeCasts'
  OBVIOUS
<1>1. PICK building \in { "UNARY_EXPRESSION", "BINARY_EXPRESSION" } :
        /\ control.fn = "return" /\ Top.building = building
        /\ nodes' = Append(nodes, Inner(building, Append(Top.held, control.node)))
  BY DEF FinishOperator, Returning
<1>2. /\ control' = Run("parse_binary_expression_loop", Top.parent, Len(nodes) + 1)
      /\ stack' = Pop /\ UNCHANGED << tokens, diagnostics >>
  BY DEF FinishOperator, InputUnchanged
<1> QED
  BY <1>1, <1>2, FinishNodeCast

LEMMA FinishAssignmentCast == IInv /\ TreeShape /\ TreeCasts /\ FinishAssignment => TreeCasts'
<1> SUFFICES ASSUME IInv, TreeShape, TreeCasts, FinishAssignment PROVE TreeCasts'
  OBVIOUS
<1>1. /\ control.fn = "return" /\ Top.building = "ASSIGNMENT_EXPRESSION"
      /\ nodes' = Append(nodes, Inner("ASSIGNMENT_EXPRESSION", Append(Top.held, control.node)))
      /\ control' = Run("return", 0, Len(nodes) + 1)
      /\ stack' = Pop /\ UNCHANGED << tokens, diagnostics >>
  BY DEF FinishAssignment, Returning, InputUnchanged
<1> QED
  BY <1>1, FinishNodeCast

LEMMA FinishWithCast ==
  ASSUME IInv, TreeShape, TreeCasts, NEW building \in { "PARENTHESIZED_EXPRESSION", "COMPILATION_UNIT" },
         NEW closing \in LeafKinds,
         closing = IF building = "COMPILATION_UNIT" THEN EOF ELSE "CLOSE_PARENTHESIS_TOKEN",
         NEW next \in { "parse_binary_expression_loop", "done" },
         next = "done" <=> building = "COMPILATION_UNIT", FinishWith(building, closing, next)
  PROVE  TreeCasts'
<1>1. /\ control.fn = "return" /\ Top.building = building
      /\ nodes' = nodes \o << Matched(closing),
                              Inner(building, Top.held \o << control.node, Len(nodes) + 1 >>) >>
      /\ control' = Run(next, Top.parent, Len(nodes) + 2) /\ stack' = Pop
      /\ MatchToken(closing) /\ tokens' = tokens
  BY DEF FinishWith, Returning, InputUnchanged
<1>2. PICK leaf : leaf = Matched(closing) /\ IsLeaf(leaf) /\ Copy(leaf, tokens) /\ leaf.kind = closing
  BY <1>1, LeavesAreLeaves, LeavesAreCopies
<1>3. PICK half : half = Append(nodes, leaf)
  OBVIOUS
<1>4. /\ HeapShape(half) /\ Grows(nodes, half) /\ half \in Seq(Node) /\ Len(half) = Len(nodes) + 1
      /\ Len(nodes) \in Nat /\ half[Len(nodes) + 1] = leaf
  <2>1. nodes \in Seq(Node) /\ HeapShape(nodes)
    BY <1>1, TopFrame
  <2> QED
    BY <1>2, <1>3, <2>1, AddLeaf
<1>5. NodesCast(half, tokens)
  BY <1>1, <1>2, <1>3, TopFrame, AddLeafCast DEF TreeCasts
<1>6. PICK held \in Seq(Nat) : held = Top.held
  BY <1>1, HeldKids
<1>7. PICK got \in 1..Len(nodes) : got = control.node
  BY <1>1 DEF TreeShape, ResultShape, HasResult
<1>8. PICK kids : kids = held \o << got, Len(nodes) + 1 >>
  OBVIOUS
<1>9. building \in NodeKinds /\ (next # "done" => building \in ExpressionKinds)
  BY DEF NodeKinds, ExpressionKinds
<1>10. PICK n \in Nat : n = HeldBy(building) /\ Arity(building) = n + 2
  BY DEF HeldBy, Arity
<1>11. Len(held) = n /\ \A k \in 1..n : held[k] \in 1..Len(nodes)
  BY <1>1, <1>6, <1>10, TopFrame DEF WellHeld
<1>12. /\ kids \in Seq(Nat) /\ Len(kids) = n + 2
       /\ \A k \in 1..n : kids[k] = held[k]
       /\ kids[n + 1] = got /\ kids[n + 2] = Len(nodes) + 1
  <2>1. got \in Nat /\ Len(nodes) + 1 \in Nat
    BY <1>4
  <2>2. /\ kids \in Seq(Nat) /\ Len(kids) = Len(held) + 2
        /\ \A k \in 1..Len(held) : kids[k] = held[k]
        /\ kids[Len(held) + 1] = got /\ kids[Len(held) + 2] = Len(nodes) + 1
    BY ONLY <1>8, <2>1, PushTwo, held \in Seq(Nat)
  <2> QED
    BY ONLY <1>11, <2>2
<1>13. Kids(half, building, kids)
  <2>1. \A k \in 1..n + 2 : k \in 1..n \/ k = n + 1 \/ k = n + 2
    OBVIOUS
  <2>2. got \in 1..Len(half) /\ Len(nodes) + 1 \in 1..Len(half)
        /\ \A k \in 1..n : held[k] \in 1..Len(half)
    BY <1>4, <1>11
  <2> QED
    BY <1>10, <1>12, <2>1, <2>2 DEF Kids
<1>14. Casts(half, building, kids)
  <2>1. IsExpression(half, got)
    BY <1>1, <1>4, <1>7 DEF TreeCasts, CastsResult, IsExpression, Grows
  <2>2. CASE building = "PARENTHESIZED_EXPRESSION"
    <3>1. n = 1 /\ n + 1 = 2 /\ n + 2 = 3 /\ 1 \in 1..1
      BY <1>10, <2>2 DEF HeldBy
    <3>2. kids[1] = held[1] /\ kids[2] = got /\ kids[3] = Len(nodes) + 1
      BY <1>12, <3>1
    <3>3. half[held[1]].kind = "OPEN_PARENTHESIS_TOKEN"
      <4>1. Len(stack) \in 1..Len(stack)
        BY <1>1, TopFrame
      <4>2. CastsHeld(nodes, Top)
        BY <1>1, <4>1, TopFrame DEF TreeCasts
      <4>3. nodes[held[1]].kind = "OPEN_PARENTHESIS_TOKEN"
        BY <1>1, <1>6, <2>2, <4>2 DEF CastsHeld
      <4>4. held[1] \in 1..Len(nodes)
        BY <1>11, <3>1
      <4> QED
        BY <1>4, <4>3, <4>4 DEF Grows
    <3>4. half[Len(nodes) + 1].kind = "CLOSE_PARENTHESIS_TOKEN"
      BY <1>2, <1>4, <2>2
    <3> QED
      BY <2>1, <2>2, <3>2, <3>3, <3>4 DEF Casts
  <2>3. CASE building = "COMPILATION_UNIT"
    <3>1. n + 1 = 1 /\ n + 2 = 2
      BY <1>10, <2>3 DEF HeldBy
    <3>2. kids[1] = got /\ kids[2] = Len(nodes) + 1
      BY <1>12, <3>1
    <3>3. half[Len(nodes) + 1].kind = EOF
      BY <1>2, <1>4, <2>3
    <3> QED
      BY <2>1, <2>3, <3>2, <3>3 DEF Casts
  <2> QED
    BY <2>2, <2>3
<1>15. PICK heap : heap = Append(half, Inner(building, kids))
  OBVIOUS
<1>16. NodesCast(heap, tokens) /\ Grows(half, heap) /\ heap[Len(half) + 1].kind = building
  <2>1. NodesCast(heap, tokens)
    BY <1>4, <1>5, <1>9, <1>13, <1>14, <1>15, AddInnerCast
  <2>2. Grows(half, heap)
    BY <1>4, <1>5, <1>9, <1>13, <1>14, <1>15, AddInnerCast
  <2>3. heap[Len(half) + 1].kind = building
    <3>1. PICK node \in Node : node = Inner(building, kids) /\ node.kind = building
      BY <1>9, <1>12, Constructors DEF Inner
    <3>2. heap[Len(half) + 1] = node
      BY <1>4, <1>15, <3>1, PushOne
    <3> QED
      BY <3>1, <3>2
  <2> QED
    BY <2>1, <2>2, <2>3
<1>17. Grows(nodes, heap)
  BY <1>4, <1>16 DEF Grows
<1>18. nodes' = heap
  <2>1. Inner(building, kids) \in Node
    BY <1>9, <1>12, Constructors
  <2> QED
    BY <1>1, <1>2, <1>3, <1>6, <1>7, <1>8, <1>15, <2>1, TopFrame, AppendTwice DEF IsLeaf
<1>19. CastsResult(heap, control')
  <2>1. control'.fn = next /\ control'.node = Len(nodes) + 2
    BY <1>1 DEF Run
  <2>2. Len(half) + 1 = Len(nodes) + 2
    BY <1>4
  <2> QED
    BY <1>9, <1>16, <2>1, <2>2 DEF CastsResult, IsExpression
<1>20. diagnostics' = <<>> => diagnostics = <<>>
  BY <1>1, ReportsStay
<1>21. PICK calls : calls = stack'
  OBVIOUS
<1>22. \A i \in 1..Len(calls) : i \in 1..Len(stack) /\ calls[i] = stack[i]
  BY <1>1, <1>21, TopFrame, PopAFrame
<1> QED
  BY <1>1, <1>16, <1>17, <1>18, <1>19, <1>20, <1>21, <1>22, CastStep

LEMMA FinishParenthesizedCast == IInv /\ TreeShape /\ TreeCasts /\ FinishParenthesized => TreeCasts'
<1>1. "CLOSE_PARENTHESIS_TOKEN" \in LeafKinds
  BY DEF LeafKinds, TokenKinds, FixedTextKinds, ParenthesisKinds
<1> QED
  BY <1>1, FinishWithCast DEF FinishParenthesized

LEMMA FinishCompilationUnitCast == IInv /\ TreeShape /\ TreeCasts /\ FinishCompilationUnit => TreeCasts'
<1>1. EOF \in LeafKinds
  BY DEF LeafKinds, TokenKinds, EOF
<1> QED
  BY <1>1, FinishWithCast DEF FinishCompilationUnit

\* A token that lexer.c reports takes the silence from all that are read after it.
LEMMA LexTokenCast == IInv /\ TreeShape /\ TreeCasts /\ LexToken => TreeCasts'
<1> SUFFICES ASSUME IInv, TreeShape, TreeCasts, LexToken PROVE TreeCasts'
  OBVIOUS
<1>1. PICK token : token = lexed[read + 1]
  OBVIOUS
<1>2. /\ control.fn = "parser_new" /\ nodes' = nodes
      /\ tokens' = tokens \/ tokens' = Append(tokens, token)
      /\ diagnostics' = IF LexicalError(token) THEN Append(diagnostics, "lexical_error") ELSE diagnostics
  BY <1>1 DEF LexToken
<1>3. PICK S : tokens \in Seq(S) /\ token \in S
  <2>1. tokens \in Seq(KeptToken)
    BY DEF IInv, TypeOK
  <2>2. tokens \in Seq(KeptToken \cup { token }) /\ token \in KeptToken \cup { token }
    BY <2>1
  <2> QED
    BY <2>2
<1>4. PICK kept : kept = tokens'
  OBVIOUS
<1>5. /\ Len(tokens) \in Nat /\ Len(kept) \in Nat /\ Len(tokens) <= Len(kept)
      /\ \A i \in 1..Len(tokens) : kept[i] = tokens[i]
      /\ \A i \in 1..Len(kept) : i \in 1..Len(tokens) \/ kept[i] = token
  BY <1>2, <1>3, <1>4, PushOne
<1>6. NodesCast(nodes, kept)
  BY <1>5 DEF TreeCasts, NodesCast, Copy
<1>7. diagnostics' = <<>> => \A i \in 1..Len(kept) : ~LexicalError(kept[i])
  <2> SUFFICES ASSUME diagnostics' = <<>> PROVE \A i \in 1..Len(kept) : ~LexicalError(kept[i])
    OBVIOUS
  <2>1. PICK bag : bag = diagnostics
    OBVIOUS
  <2>2. bag \in Seq({ "lexical_error", "unexpected_token" })
    BY <2>1 DEF IInv, TypeOK
  <2>3. Append(bag, "lexical_error") # <<>>
    BY <2>2, PushOne, EmptySeq
  <2>4. ~LexicalError(token) /\ diagnostics = <<>>
    BY <1>2, <2>1, <2>3
  <2>5. \A i \in 1..Len(tokens) : ~LexicalError(tokens[i])
    BY <2>4 DEF TreeCasts
  <2> QED
    BY <1>5, <2>4, <2>5
<1>8. (\A i \in 1..Len(stack') : CastsHeld(nodes, stack'[i])) /\ CastsResult(nodes, control')
  <2>1. CASE UNCHANGED << stack, control >>
    BY <2>1 DEF TreeCasts
  <2>2. CASE /\ stack' = << Suspend("COMPILATION_UNIT", <<>>, 0) >>
             /\ control' = Run("parse_assignment_expression", 0, NoNode)
    <3>1. PICK frame : frame = Suspend("COMPILATION_UNIT", <<>>, 0)
      OBVIOUS
    <3>2. PICK calls : calls = stack'
      OBVIOUS
    <3>3. calls = << frame >>
      BY <2>2, <3>1, <3>2
    <3>4. Len(calls) = 1 /\ calls[1] = frame /\ \A i \in 1..1 : i = 1
      BY <3>3
    <3>5. CastsHeld(nodes, frame)
      BY <3>1 DEF CastsHeld, Suspend
    <3>6. CastsResult(nodes, control')
      BY <2>2 DEF CastsResult, Run
    <3> QED
      BY <3>2, <3>4, <3>5, <3>6
  <2> QED
    BY <2>1, <2>2 DEF LexToken
<1>9. NodesCast(nodes', tokens')
  BY <1>2, <1>4, <1>6
<1>10. diagnostics' = <<>> => \A i \in 1..Len(tokens') : ~LexicalError(tokens'[i])
  BY <1>4, <1>7
<1> QED
  BY <1>2, <1>8, <1>9, <1>10 DEF TreeCasts

LEMMA InitCast == Init => TreeCasts
<1> SUFFICES ASSUME Init PROVE TreeCasts
  OBVIOUS
<1>1. nodes = <<>> /\ stack = <<>> /\ tokens = <<>> /\ control.fn = "parser_new"
  BY DEF Init, Run
<1> QED
  BY <1>1 DEF TreeCasts, NodesCast, CastsResult

LEMMA TreeCastsKept == IInv /\ TreeShape /\ TreeCasts /\ [Next]_vars => TreeCasts'
<1> SUFFICES ASSUME IInv, TreeShape, TreeCasts, [Next]_vars PROVE TreeCasts'
  OBVIOUS
<1>1. CASE Next
  BY <1>1, LexTokenCast, ParseAssignmentCast, ParseNoAssignmentCast, ParseUnaryCast,
     ParseParenthesizedCast, PrimaryCast, ParseBinaryRightCast, ReturnLeftCast,
     FinishOperatorCast, FinishAssignmentCast, FinishParenthesizedCast, FinishCompilationUnitCast
  DEF Next
<1>2. CASE UNCHANGED vars
  BY <1>2 DEF vars, TreeCasts
<1> QED
  BY <1>1, <1>2

--------------------------------------------------------------------------------
(* The holes of the tree and the reports of them.                                *)

Balanced(heap, bag) == Cardinality(Holes(heap)) = Cardinality(Unexpected(bag))
IsHole(node) == node.kind \in LeafKinds /\ node.token = 0

LEMMA AddHole ==
  ASSUME NEW heap \in Seq(Node), NEW node \in Node, NEW new, new = Append(heap, node)
  PROVE  /\ Cardinality(Holes(heap)) \in Nat
         /\ IsHole(node) => Cardinality(Holes(new)) = Cardinality(Holes(heap)) + 1
         /\ ~IsHole(node) => Cardinality(Holes(new)) = Cardinality(Holes(heap))
<1>1. PICK n \in Nat : n = Len(heap)
  OBVIOUS
<1>2. Len(new) = n + 1 /\ new[n + 1] = node /\ \A i \in 1..n : new[i] = heap[i]
  BY <1>1, PushOne
<1>3. \A i \in 1..n + 1 : i \in 1..n \/ i = n + 1
  OBVIOUS
<1>4. \A i \in 1..n : i \in 1..n + 1 /\ i # n + 1
  OBVIOUS
<1>5. Holes(heap) \subseteq 1..n
  BY <1>1 DEF Holes
<1>6. IsFiniteSet(Holes(heap))
  <2>1. IsFiniteSet(1..n)
    BY <1>1, FS_Interval
  <2> QED
    BY <1>5, <2>1, FS_Subset
<1>7. n + 1 \notin Holes(heap)
  BY <1>5
<1>8. IsHole(node) => Holes(new) = Holes(heap) \cup { n + 1 }
  BY <1>1, <1>2, <1>3, <1>4 DEF Holes, IsHole
<1>9. ~IsHole(node) => Holes(new) = Holes(heap)
  BY <1>1, <1>2, <1>3, <1>4 DEF Holes, IsHole
<1>10. Cardinality(Holes(heap) \cup { n + 1 }) = Cardinality(Holes(heap)) + 1
  BY <1>6, <1>7, FS_AddElement
<1> QED
  BY <1>6, <1>8, <1>9, <1>10, FS_CardinalityType

LEMMA AddReport ==
  ASSUME NEW bag, bag \in Seq({ "lexical_error", "unexpected_token" }),
         NEW report \in { "lexical_error", "unexpected_token" }, NEW new, new = Append(bag, report)
  PROVE  /\ Cardinality(Unexpected(bag)) \in Nat
         /\ report = "unexpected_token" => Cardinality(Unexpected(new)) = Cardinality(Unexpected(bag)) + 1
         /\ report = "lexical_error" => Cardinality(Unexpected(new)) = Cardinality(Unexpected(bag))
<1>1. PICK n \in Nat : n = Len(bag)
  OBVIOUS
<1>2. Len(new) = n + 1 /\ new[n + 1] = report /\ \A i \in 1..n : new[i] = bag[i]
  BY <1>1, PushOne
<1>3. \A i \in 1..n + 1 : i \in 1..n \/ i = n + 1
  OBVIOUS
<1>4. \A i \in 1..n : i \in 1..n + 1 /\ i # n + 1
  OBVIOUS
<1>5. Unexpected(bag) \subseteq 1..n
  BY <1>1 DEF Unexpected
<1>6. IsFiniteSet(Unexpected(bag))
  <2>1. IsFiniteSet(1..n)
    BY <1>1, FS_Interval
  <2> QED
    BY <1>5, <2>1, FS_Subset
<1>7. n + 1 \notin Unexpected(bag)
  BY <1>5
<1>8. report = "unexpected_token" => Unexpected(new) = Unexpected(bag) \cup { n + 1 }
  BY <1>1, <1>2, <1>3, <1>4 DEF Unexpected
<1>9. report = "lexical_error" => Unexpected(new) = Unexpected(bag)
  BY <1>1, <1>2, <1>3, <1>4 DEF Unexpected
<1>10. Cardinality(Unexpected(bag) \cup { n + 1 }) = Cardinality(Unexpected(bag)) + 1
  BY <1>6, <1>7, FS_AddElement
<1> QED
  BY <1>6, <1>8, <1>9, <1>10, FS_CardinalityType

LEMMA InnerIsNoHole ==
  ASSUME NEW kind \in NodeKinds, NEW kids \in Seq(Nat)
  PROVE  Inner(kind, kids) \in Node /\ ~IsHole(Inner(kind, kids))
BY Constructors, InnerIsNoLeaf DEF IsHole

\* A copied token is no hole.
LEMMA CopyIsNoHole ==
  ASSUME IInv, control.fn \notin { "parser_new", "done" }, NEW i \in 1..Len(tokens)
  PROVE  Leaf(i) \in Node /\ ~IsHole(Leaf(i))
BY Reading DEF IsHole

\* What match_token returns is a hole exactly when it reports.
LEMMA MatchBalanced ==
  ASSUME IInv, control.fn \notin { "parser_new", "done" }, HolesAreReported,
         NEW kind \in LeafKinds, MatchToken(kind), NEW heap, heap = Append(nodes, Matched(kind))
  PROVE  Balanced(heap, diagnostics') /\ heap \in Seq(Node)
<1>1. /\ nodes \in Seq(Node) /\ diagnostics \in Seq({ "lexical_error", "unexpected_token" })
      /\ Balanced(nodes, diagnostics)
  BY Reading DEF HolesAreReported, Balanced
<1>2. PICK leaf : leaf = Matched(kind) /\ leaf \in Node
  BY LeavesAreLeaves DEF IsLeaf
<1>3. heap = Append(nodes, leaf) /\ heap \in Seq(Node)
  BY <1>1, <1>2, PushOne
<1>4. CASE Matches(kind)
  <2>1. leaf = Leaf(position + 1) /\ diagnostics' = diagnostics
    BY <1>2, <1>4 DEF Matched, MatchToken
  <2>2. ~IsHole(leaf)
    BY <2>1, LeavesAreLeaves, CopyIsNoHole
  <2>3. Cardinality(Holes(heap)) = Cardinality(Holes(nodes))
    BY <1>1, <1>2, <1>3, <2>2, AddHole
  <2> QED
    BY <1>1, <1>3, <2>1, <2>3 DEF Balanced
<1>5. CASE ~Matches(kind)
  <2>1. leaf = Hole(kind)
    BY <1>2, <1>5 DEF Matched
  <2>2. PICK bag : bag = Append(diagnostics, "unexpected_token") /\ bag = diagnostics'
    BY <1>5 DEF MatchToken
  <2>3. IsHole(leaf)
    BY <2>1 DEF Hole, IsHole
  <2>4. Cardinality(Unexpected(bag)) = Cardinality(Unexpected(diagnostics)) + 1
    BY <1>1, <2>2, AddReport
  <2>5. Cardinality(Holes(heap)) = Cardinality(Holes(nodes)) + 1
    BY <1>1, <1>2, <1>3, <2>3, AddHole
  <2> QED
    BY <1>1, <1>3, <2>2, <2>4, <2>5 DEF Balanced
<1> QED
  BY <1>4, <1>5

LEMMA AddBalanced ==
  ASSUME NEW heap \in Seq(Node), NEW bag, Balanced(heap, bag), NEW node \in Node, ~IsHole(node),
         NEW new, new = Append(heap, node)
  PROVE  Balanced(new, bag) /\ new \in Seq(Node)
BY AddHole, PushOne DEF Balanced

LEMMA HolesKept == IInv /\ HolesAreReported /\ [Next]_vars => HolesAreReported'
<1> SUFFICES ASSUME IInv, HolesAreReported, [Next]_vars PROVE HolesAreReported'
  OBVIOUS
<1>1. /\ nodes \in Seq(Node) /\ diagnostics \in Seq({ "lexical_error", "unexpected_token" })
      /\ Balanced(nodes, diagnostics)
  BY DEF IInv, TypeOK, HolesAreReported, Balanced
<1>2. SUFFICES Balanced(nodes', diagnostics')
  BY DEF HolesAreReported, Balanced
<1>3. CASE LexToken
  <2>1. nodes' = nodes /\ (diagnostics' = diagnostics \/ diagnostics' = Append(diagnostics, "lexical_error"))
    BY <1>3 DEF LexToken
  <2>2. PICK bag : bag = Append(diagnostics, "lexical_error")
    OBVIOUS
  <2>3. Balanced(nodes, bag)
    BY <1>1, <2>2, AddReport DEF Balanced
  <2> QED
    BY <1>1, <2>1, <2>2, <2>3
<1>4. CASE ParseAssignment
  <2>1. /\ control.fn = "parse_assignment_expression" /\ diagnostics' = diagnostics
        /\ nodes' = nodes \o << Leaf(position + 1), Leaf(position + 2) >>
    BY <1>4 DEF ParseAssignment
  <2>2. position + 1 \in 1..Len(tokens) /\ position + 2 \in 1..Len(tokens)
    BY <1>4, <2>1, AssignmentIsInText, Reading DEF ParseAssignment
  <2>3. /\ Leaf(position + 1) \in Node /\ ~IsHole(Leaf(position + 1))
        /\ Leaf(position + 2) \in Node /\ ~IsHole(Leaf(position + 2))
    BY <2>1, <2>2, CopyIsNoHole
  <2>4. PICK half : half = Append(nodes, Leaf(position + 1))
    OBVIOUS
  <2>5. Balanced(half, diagnostics) /\ half \in Seq(Node)
    BY <1>1, <2>3, <2>4, AddBalanced
  <2>6. PICK heap : heap = Append(half, Leaf(position + 2))
    OBVIOUS
  <2>7. Balanced(heap, diagnostics)
    BY <2>3, <2>5, <2>6, AddBalanced
  <2>8. heap = nodes'
    BY <1>1, <2>1, <2>3, <2>4, <2>6, AppendTwice
  <2> QED
    BY <2>1, <2>7, <2>8
<1>5. CASE ParseUnary \/ ParseBinaryRight
  <2>1. /\ control.fn \notin { "parser_new", "done" } /\ diagnostics' = diagnostics
        /\ nodes' = Append(nodes, Leaf(position + 1))
    BY <1>5 DEF ParseUnary, ParseBinaryRight
  <2>2. Leaf(position + 1) \in Node /\ ~IsHole(Leaf(position + 1))
    BY <2>1, LeavesAreLeaves, CopyIsNoHole
  <2>3. PICK heap : heap = Append(nodes, Leaf(position + 1))
    OBVIOUS
  <2>4. Balanced(heap, diagnostics)
    BY <1>1, <2>2, <2>3, AddBalanced
  <2> QED
    BY <2>1, <2>3, <2>4
<1>6. CASE ParseParenthesized
  <2>1. /\ control.fn = "parse_binary_expression" /\ MatchToken("OPEN_PARENTHESIS_TOKEN")
        /\ nodes' = Append(nodes, Matched("OPEN_PARENTHESIS_TOKEN"))
    BY <1>6 DEF ParseParenthesized, ParsesPrimary
  <2>2. "OPEN_PARENTHESIS_TOKEN" \in LeafKinds
    BY DEF LeafKinds, TokenKinds, FixedTextKinds, ParenthesisKinds
  <2>3. PICK heap : heap = Append(nodes, Matched("OPEN_PARENTHESIS_TOKEN"))
    OBVIOUS
  <2>4. Balanced(heap, diagnostics')
    BY <2>1, <2>2, <2>3, MatchBalanced
  <2> QED
    BY <2>1, <2>3, <2>4
<1>7. ASSUME NEW kind \in LeafKinds, NEW inner, inner \in Node, ~IsHole(inner),
             control.fn \notin { "parser_new", "done" }, MatchToken(kind),
             nodes' = nodes \o << Matched(kind), inner >>
      PROVE  Balanced(nodes', diagnostics')
  <2>1. PICK half : half = Append(nodes, Matched(kind))
    OBVIOUS
  <2>2. Balanced(half, diagnostics') /\ half \in Seq(Node)
    BY <1>7, <2>1, MatchBalanced
  <2>3. PICK heap : heap = Append(half, inner)
    OBVIOUS
  <2>4. Balanced(heap, diagnostics')
    BY <1>7, <2>2, <2>3, AddBalanced
  <2>5. Matched(kind) \in Node
    BY <1>7, LeavesAreLeaves DEF IsLeaf
  <2>6. heap = nodes'
    BY <1>1, <1>7, <2>1, <2>3, <2>5, AppendTwice
  <2> QED
    BY <2>4, <2>6
<1>8. CASE ParseBooleanLiteral \/ ParseNumberLiteral \/ ParseName
  <2>1. PICK kind \in LeafKinds, expression \in { "LITERAL_EXPRESSION", "NAME_EXPRESSION" } :
           ParseSingle(expression, kind)
    <3>1. {"NUMBER_TOKEN", "IDENTIFIER_TOKEN"} \cup KeywordKinds \subseteq LeafKinds
      BY DEF LeafKinds, TokenKinds, FixedTextKinds, KeywordKinds
    <3> QED
      BY <1>8, <3>1 DEF ParseBooleanLiteral, ParseNumberLiteral, ParseName
  <2>2. control.fn = "parse_binary_expression"
    BY <1>8 DEF ParseBooleanLiteral, ParseNumberLiteral, ParseName, ParsesPrimary
  <2>3. << Len(nodes) + 1 >> \in Seq(Nat) /\ expression \in NodeKinds
    BY <1>1 DEF NodeKinds, ExpressionKinds
  <2>4. PICK inner : /\ inner = Inner(expression, << Len(nodes) + 1 >>)
                     /\ inner \in Node /\ ~IsHole(inner)
    BY <2>3, InnerIsNoHole
  <2>5. MatchToken(kind) /\ nodes' = nodes \o << Matched(kind), inner >>
    BY <2>1, <2>4 DEF ParseSingle
  <2> QED
    BY <1>7, <2>2, <2>4, <2>5
<1>9. CASE FinishOperator \/ FinishAssignment
  <2>1. PICK building \in ExpressionKinds :
           /\ control.fn = "return" /\ diagnostics' = diagnostics
           /\ nodes' = Append(nodes, Inner(building, Append(Top.held, control.node)))
    BY <1>9 DEF FinishOperator, FinishAssignment, Returning, ExpressionKinds
  <2>2. Append(Top.held, control.node) \in Seq(Nat) /\ building \in NodeKinds
    BY <2>1, HeldKids DEF NodeKinds
  <2>3. PICK inner : /\ inner = Inner(building, Append(Top.held, control.node))
                     /\ inner \in Node /\ ~IsHole(inner)
    BY <2>2, InnerIsNoHole
  <2>4. PICK heap : heap = Append(nodes, inner)
    OBVIOUS
  <2>5. Balanced(heap, diagnostics)
    BY <1>1, <2>3, <2>4, AddBalanced
  <2> QED
    BY <2>1, <2>3, <2>4, <2>5
<1>10. CASE FinishParenthesized \/ FinishCompilationUnit
  <2>1. PICK building \in NodeKinds, closing \in LeafKinds : \E next : FinishWith(building, closing, next)
    <3>1. "CLOSE_PARENTHESIS_TOKEN" \in LeafKinds /\ EOF \in LeafKinds
      BY DEF LeafKinds, TokenKinds, FixedTextKinds, ParenthesisKinds, EOF
    <3>2. "PARENTHESIZED_EXPRESSION" \in NodeKinds /\ "COMPILATION_UNIT" \in NodeKinds
      BY DEF NodeKinds, ExpressionKinds
    <3> QED
      BY <1>10, <3>1, <3>2 DEF FinishParenthesized, FinishCompilationUnit
  <2>2. control.fn = "return" /\ MatchToken(closing)
    BY <2>1 DEF FinishWith, Returning
  <2>3. PICK kids \in Seq(Nat) : kids = Top.held \o << control.node, Len(nodes) + 1 >>
    BY <2>2, HeldKids
  <2>4. PICK inner : inner = Inner(building, kids) /\ inner \in Node /\ ~IsHole(inner)
    BY <2>3, InnerIsNoHole
  <2>5. nodes' = nodes \o << Matched(closing), inner >>
    BY <2>1, <2>3, <2>4 DEF FinishWith
  <2> QED
    BY <1>7, <2>2, <2>4, <2>5
<1>11. CASE ParseNoAssignment \/ ReturnLeft \/ UNCHANGED vars
  <2>1. nodes' = nodes /\ diagnostics' = diagnostics
    BY <1>11 DEF ParseNoAssignment, ReturnLeft, vars
  <2> QED
    BY <1>1, <2>1
<1> QED
  BY <1>3, <1>4, <1>5, <1>6, <1>8, <1>9, <1>10, <1>11 DEF Next

--------------------------------------------------------------------------------
(* Who owns a node.                                                              *)

Owned(heap, calls, result) ==
    /\ heap \in Seq(Node) /\ calls \in Seq(Frame) /\ result \in Seq(Nat)
    /\ Once(Lists(heap, calls, result), Len(heap))

\* lists is what owns the n nodes of the heap and what the m calls hold.
Lays(lists, heap, calls, result, n, m) ==
    /\ DOMAIN lists = -m..n
    /\ lists[0] = result
    /\ \A i \in 1..n : lists[i] = heap[i].kids
    /\ \A i \in -m..-1 : lists[i] = calls[-i].held

LEMMA ListsAre ==
  ASSUME NEW heap, NEW calls, NEW result, NEW n \in Nat, n = Len(heap), NEW m \in Nat, m = Len(calls)
  PROVE  Lays(Lists(heap, calls, result), heap, calls, result, n, m)
<1> DEFINE lists == Lists(heap, calls, result)
<1>1. lists = [ owner \in -m..n |-> IF owner > 0 THEN heap[owner].kids
                                    ELSE IF owner < 0 THEN calls[-owner].held
                                    ELSE result ]
  BY DEF Lists
<1> HIDE DEF lists
<1>2. 0 \in -m..n /\ (\A i \in 1..n : i \in -m..n /\ i > 0)
      /\ (\A i \in -m..-1 : i \in -m..n /\ ~(i > 0) /\ i < 0)
  OBVIOUS
<1>3. DOMAIN lists = -m..n
  BY <1>1
<1>4. lists[0] = result
  BY <1>1, <1>2
<1>5. \A i \in 1..n : lists[i] = heap[i].kids
  BY <1>1, <1>2
<1>6. \A i \in -m..-1 : lists[i] = calls[-i].held
  BY <1>1, <1>2
<1>7. Lays(lists, heap, calls, result, n, m)
  BY <1>3, <1>4, <1>5, <1>6 DEF Lays
<1> QED
  BY <1>7 DEF lists

\* The running call takes up a new node that owns nothing, as the result of match_token.
LEMMA PickOnce ==
  ASSUME NEW f, NEW g, NEW size \in Nat, NEW n, n \notin DOMAIN f, 0 \in DOMAIN f, Once(f, size),
         f[0] \in Seq(Nat),
         DOMAIN g = DOMAIN f \cup { n }, g[n] = <<>>, g[0] = Append(f[0], size + 1),
         \A o \in DOMAIN f \ { 0 } : g[o] = f[o]
  PROVE  Once(g, size + 1)
<1> DEFINE D == DOMAIN f
<1>1. PICK c \in Nat : c = Len(f[0])
  OBVIOUS
<1>2. Len(g[0]) = c + 1 /\ g[0][c + 1] = size + 1 /\ \A k \in 1..c : g[0][k] = f[0][k]
  BY <1>1, PushOne
<1>3. \A k \in 1..c + 1 : k \in 1..c \/ k = c + 1
  OBVIOUS
<1>4. \A k \in 1..c : k \in 1..c + 1
  OBVIOUS
<1>5. Len(g[n]) = 0
  OBVIOUS
<1>6. /\ \A o \in D : \A k \in 1..Len(f[o]) : f[o][k] \in 1..size
      /\ \A v \in 1..size : \E o \in D : \E k \in 1..Len(f[o]) : f[o][k] = v
      /\ \A o, p \in D : \A k \in 1..Len(f[o]), l \in 1..Len(f[p]) :
            f[o][k] = f[p][l] => o = p /\ k = l
  BY DEF Once
<1>7. \A o \in D : \A k \in 1..Len(f[o]) : k \in 1..Len(g[o]) /\ g[o][k] = f[o][k]
  BY <1>1, <1>2, <1>4
<1>8. ASSUME NEW o \in DOMAIN g, NEW k \in 1..Len(g[o])
      PROVE  /\ o \in D
             /\ \/ k \in 1..Len(f[o]) /\ g[o][k] = f[o][k]
                \/ o = 0 /\ k = c + 1 /\ g[o][k] = size + 1
  <2>1. o # n
    BY <1>5
  <2> QED
    BY <2>1, <1>1, <1>2, <1>3
<1>9. \A v \in 1..size : v \in 1..size + 1 /\ v # size + 1
  OBVIOUS
<1>10. ASSUME NEW o \in DOMAIN g, NEW k \in 1..Len(g[o]) PROVE g[o][k] \in 1..size + 1
  <2>1. CASE k \in 1..Len(f[o]) /\ g[o][k] = f[o][k]
    <3>1. g[o][k] \in 1..size
      BY <1>6, <1>8, <2>1
    <3> QED
      BY <1>9, <3>1
  <2>2. CASE g[o][k] = size + 1
    BY <2>2
  <2> QED
    BY <1>8, <2>1, <2>2
<1>11. ASSUME NEW v \in 1..size + 1 PROVE \E o \in DOMAIN g : \E k \in 1..Len(g[o]) : g[o][k] = v
  <2>1. CASE v = size + 1
    BY <2>1, <1>2
  <2>2. CASE v \in 1..size
    <3>1. PICK o \in D : \E k \in 1..Len(f[o]) : f[o][k] = v
      BY <1>6, <2>2
    <3>2. o \in DOMAIN g
      OBVIOUS
    <3> QED
      BY <1>7, <3>1, <3>2
  <2> QED
    BY <2>1, <2>2
<1>12. ASSUME NEW o \in DOMAIN g, NEW p \in DOMAIN g,
              NEW k \in 1..Len(g[o]), NEW l \in 1..Len(g[p]), g[o][k] = g[p][l]
       PROVE  o = p /\ k = l
  <2>1. CASE k \in 1..Len(f[o]) /\ g[o][k] = f[o][k] /\ l \in 1..Len(f[p]) /\ g[p][l] = f[p][l]
    <3>1. f[o][k] = f[p][l] /\ o \in D /\ p \in D
      BY <1>8, <1>12, <2>1
    <3> QED
      BY <1>6, <2>1, <3>1
  <2>2. CASE ~(k \in 1..Len(f[o]) /\ g[o][k] = f[o][k])
    <3>1. o = 0 /\ k = c + 1 /\ g[p][l] = size + 1
      BY <1>8, <1>12, <2>2
    <3>2. ~(l \in 1..Len(f[p]) /\ g[p][l] = f[p][l])
      BY <1>6, <1>8, <1>9, <3>1
    <3> QED
      BY <1>8, <3>1, <3>2
  <2>3. CASE ~(l \in 1..Len(f[p]) /\ g[p][l] = f[p][l])
    <3>1. p = 0 /\ l = c + 1 /\ g[o][k] = size + 1
      BY <1>8, <1>12, <2>3
    <3>2. ~(k \in 1..Len(f[o]) /\ g[o][k] = f[o][k])
      BY <1>6, <1>8, <1>9, <3>1
    <3> QED
      BY <1>8, <3>1, <3>2
  <2> QED
    BY <2>1, <2>2, <2>3
<1> QED
  BY <1>10, <1>11, <1>12 DEF Once

\* A new owner takes what the running call had: another call, or ...
LEMMA SuspendOnce ==
  ASSUME NEW f, NEW g, NEW size, NEW n, n \notin DOMAIN f, 0 \in DOMAIN f, Once(f, size),
         DOMAIN g = DOMAIN f \cup { n }, g[n] = f[0], g[0] = <<>>,
         \A o \in DOMAIN f \ { 0 } : g[o] = f[o]
  PROVE  Once(g, size)
<1> DEFINE D == DOMAIN f
<1>1. /\ \A o \in D : \A k \in 1..Len(f[o]) : f[o][k] \in 1..size
      /\ \A v \in 1..size : \E o \in D : \E k \in 1..Len(f[o]) : f[o][k] = v
      /\ \A o, p \in D : \A k \in 1..Len(f[o]), l \in 1..Len(f[p]) :
            f[o][k] = f[p][l] => o = p /\ k = l
  BY DEF Once
<1>2. Len(g[0]) = 0
  OBVIOUS
<1>3. ASSUME NEW o \in DOMAIN g, NEW k \in 1..Len(g[o])
      PROVE  o # 0 /\ (o = n => g[o] = f[0]) /\ (o # n => o \in D /\ g[o] = f[o])
  BY <1>2
<1>4. \A o \in DOMAIN g : \A k \in 1..Len(g[o]) : g[o][k] \in 1..size
  BY <1>1, <1>3
<1>5. ASSUME NEW v \in 1..size PROVE \E o \in DOMAIN g : \E k \in 1..Len(g[o]) : g[o][k] = v
  <2>1. PICK o \in D : \E k \in 1..Len(f[o]) : f[o][k] = v
    BY <1>1
  <2>2. PICK k \in 1..Len(f[o]) : f[o][k] = v
    BY <2>1
  <2>3. CASE o = 0
    BY <2>2, <2>3
  <2>4. CASE o # 0
    BY <2>2, <2>4
  <2> QED
    BY <2>3, <2>4
<1>6. ASSUME NEW o \in DOMAIN g, NEW p \in DOMAIN g,
             NEW k \in 1..Len(g[o]), NEW l \in 1..Len(g[p]), g[o][k] = g[p][l]
      PROVE  o = p /\ k = l
  <2>1. PICK a \in D : g[o] = f[a] /\ (IF o = n THEN a = 0 ELSE a = o /\ a # 0)
    BY <1>3
  <2>2. PICK b \in D : g[p] = f[b] /\ (IF p = n THEN b = 0 ELSE b = p /\ b # 0)
    BY <1>3
  <2>3. a = b /\ k = l
    BY <1>1, <1>6, <2>1, <2>2
  <2> QED
    BY <2>1, <2>2, <2>3
<1> QED
  BY <1>4, <1>5, <1>6 DEF Once

\* ... a new node, which becomes the result.
LEMMA BuildOnce ==
  ASSUME NEW f, NEW g, NEW size \in Nat, NEW n, n \notin DOMAIN f, 0 \in DOMAIN f, Once(f, size),
         DOMAIN g = DOMAIN f \cup { n }, g[n] = f[0], g[0] = << size + 1 >>,
         \A o \in DOMAIN f \ { 0 } : g[o] = f[o]
  PROVE  Once(g, size + 1)
<1> DEFINE h == [ o \in DOMAIN g |-> IF o = 0 THEN <<>> ELSE g[o] ]
<1>1. /\ DOMAIN h = DOMAIN f \cup { n } /\ h[n] = f[0] /\ h[0] = <<>>
      /\ \A o \in DOMAIN f \ { 0 } : h[o] = f[o]
  OBVIOUS
<1> HIDE DEF h
<1>2. Once(h, size)
  BY <1>1, SuspendOnce
<1>3. /\ \A o \in DOMAIN g \ { 0 } : g[o] = h[o]
      /\ g[0] = << size + 1 >>
      /\ DOMAIN g = DOMAIN h /\ 0 \in DOMAIN h
  BY DEF h
<1> DEFINE D == DOMAIN h
<1>4. /\ \A o \in D : \A k \in 1..Len(h[o]) : h[o][k] \in 1..size
      /\ \A v \in 1..size : \E o \in D : \E k \in 1..Len(h[o]) : h[o][k] = v
      /\ \A o, p \in D : \A k \in 1..Len(h[o]), l \in 1..Len(h[p]) :
            h[o][k] = h[p][l] => o = p /\ k = l
  BY <1>2 DEF Once
<1>5. Len(h[0]) = 0 /\ Len(g[0]) = 1 /\ g[0][1] = size + 1
  BY <1>1, <1>3
<1>6. \A v \in 1..size : v \in 1..size + 1 /\ v # size + 1
  OBVIOUS
<1>7. \A k \in 1..1 : k = 1
  OBVIOUS
<1>8. \A o \in DOMAIN g : \A k \in 1..Len(g[o]) :
         IF o = 0 THEN k = 1 /\ g[o][k] = size + 1
                  ELSE o \in D /\ g[o] = h[o] /\ g[o][k] \in 1..size
  BY <1>3, <1>4, <1>5, <1>7
<1>9. \A o \in DOMAIN g : \A k \in 1..Len(g[o]) : g[o][k] \in 1..size + 1
  BY <1>6, <1>8
<1>10. ASSUME NEW v \in 1..size + 1 PROVE \E o \in DOMAIN g : \E k \in 1..Len(g[o]) : g[o][k] = v
  <2>1. CASE v = size + 1
    BY <2>1, <1>3, <1>5
  <2>2. CASE v \in 1..size
    <3>1. PICK o \in D : \E k \in 1..Len(h[o]) : h[o][k] = v
      BY <1>4, <2>2
    <3>2. PICK k \in 1..Len(h[o]) : h[o][k] = v
      BY <3>1
    <3>3. o # 0
      BY <1>5
    <3> QED
      BY <1>3, <3>2, <3>3
  <2> QED
    BY <2>1, <2>2
<1>11. ASSUME NEW o \in DOMAIN g, NEW p \in DOMAIN g,
              NEW k \in 1..Len(g[o]), NEW l \in 1..Len(g[p]), g[o][k] = g[p][l]
       PROVE  o = p /\ k = l
  <2>1. (o = 0 <=> p = 0) /\ (o = 0 => k = l)
    <3>1. IF o = 0 THEN k = 1 /\ g[o][k] = size + 1 ELSE g[o][k] \in 1..size
      BY <1>8
    <3>2. IF p = 0 THEN l = 1 /\ g[p][l] = size + 1 ELSE g[p][l] \in 1..size
      BY <1>8
    <3> QED
      BY <1>6, <1>11, <3>1, <3>2
  <2>2. CASE o # 0
    <3>1. o \in D /\ g[o] = h[o] /\ p \in D /\ g[p] = h[p]
      BY <1>8, <2>1, <2>2
    <3>2. k \in 1..Len(h[o]) /\ l \in 1..Len(h[p])
      BY <3>1
    <3>3. h[o][k] = h[p][l]
      BY <1>11, <3>1
    <3> QED
      BY <1>4, <3>1, <3>2, <3>3
  <2> QED
    BY <2>1, <2>2
<1> QED
  BY <1>9, <1>10, <1>11 DEF Once

\* The suspended call goes on, and has what it held and what it was returned.
LEMMA ResumeOnce ==
  ASSUME NEW f, NEW g, NEW size, NEW n, n \in DOMAIN f, n # 0, 0 \in DOMAIN f, Once(f, size),
         f[n] \in Seq(Nat), f[0] \in Seq(Nat),
         DOMAIN g = DOMAIN f \ { n }, g[0] = f[n] \o f[0],
         \A o \in DOMAIN f \ { 0, n } : g[o] = f[o]
  PROVE  Once(g, size)
<1> DEFINE D == DOMAIN f
<1>1. /\ \A o \in D : \A k \in 1..Len(f[o]) : f[o][k] \in 1..size
      /\ \A v \in 1..size : \E o \in D : \E k \in 1..Len(f[o]) : f[o][k] = v
      /\ \A o, p \in D : \A k \in 1..Len(f[o]), l \in 1..Len(f[p]) :
            f[o][k] = f[p][l] => o = p /\ k = l
  BY DEF Once
<1>2. PICK a \in Nat : a = Len(f[n])
  OBVIOUS
<1>3. PICK b \in Nat : b = Len(f[0])
  OBVIOUS
<1>4. /\ Len(g[0]) = a + b
      /\ \A k \in 1..a + b : g[0][k] = IF k <= a THEN f[n][k] ELSE f[0][k - a]
  BY <1>2, <1>3, ConcatProperties
<1>5. \A k \in 1..a : k \in 1..a + b /\ k <= a
  OBVIOUS
<1>6. \A k \in 1..b : k + a \in 1..a + b /\ ~(k + a <= a) /\ k + a - a = k
  OBVIOUS
<1>7. \A k \in 1..a + b : (k \in 1..a /\ k <= a) \/ (k - a \in 1..b /\ ~(k <= a))
  OBVIOUS
<1>8. \A k \in 1..a : k \in 1..Len(g[0]) /\ g[0][k] = f[n][k]
  BY <1>4, <1>5
<1>9. \A k \in 1..b : k + a \in 1..Len(g[0]) /\ g[0][k + a] = f[0][k]
  BY <1>4, <1>6
<1>10. \A k \in 1..Len(g[0]) : \/ k \in 1..a /\ g[0][k] = f[n][k]
                               \/ k - a \in 1..b /\ g[0][k] = f[0][k - a]
  BY <1>4, <1>7
<1> DEFINE Was(o, k, p, l) ==
               /\ g[o][k] = f[p][l]
               /\ \/ o # 0 /\ p = o /\ l = k /\ p # n
                  \/ o = 0 /\ p = n /\ l = k
                  \/ o = 0 /\ p = 0 /\ l = k - a
<1>11. ASSUME NEW o \in DOMAIN g, NEW k \in 1..Len(g[o])
       PROVE  \E p \in D : \E l \in 1..Len(f[p]) : Was(o, k, p, l)
  <2>1. CASE o = 0
    BY <1>2, <1>3, <1>10, <2>1
  <2>2. CASE o # 0
    BY <2>2
  <2> QED
    BY <2>1, <2>2
<1> HIDE DEF Was
<1>12. ASSUME NEW o \in DOMAIN g, NEW k \in 1..Len(g[o]) PROVE g[o][k] \in 1..size
  <2>1. PICK p \in D : \E l \in 1..Len(f[p]) : Was(o, k, p, l)
    BY <1>11
  <2>2. PICK l \in 1..Len(f[p]) : g[o][k] = f[p][l]
    BY <2>1 DEF Was
  <2> QED
    BY <1>1, <2>2
<1>13. ASSUME NEW v \in 1..size PROVE \E o \in DOMAIN g : \E k \in 1..Len(g[o]) : g[o][k] = v
  <2>1. PICK o \in D : \E k \in 1..Len(f[o]) : f[o][k] = v
    BY <1>1
  <2>2. PICK k \in 1..Len(f[o]) : f[o][k] = v
    BY <2>1
  <2>3. CASE o = n
    BY <1>2, <1>8, <2>2, <2>3
  <2>4. CASE o = 0
    BY <1>3, <1>9, <2>2, <2>4
  <2>5. CASE o \notin { 0, n }
    BY <2>2, <2>5
  <2> QED
    BY <2>3, <2>4, <2>5
<1>14. ASSUME NEW o \in DOMAIN g, NEW p \in DOMAIN g,
              NEW k \in 1..Len(g[o]), NEW l \in 1..Len(g[p]), g[o][k] = g[p][l]
       PROVE  o = p /\ k = l
  <2>1. PICK oo \in D : \E kk \in 1..Len(f[oo]) : Was(o, k, oo, kk)
    BY <1>11
  <2>2. PICK kk \in 1..Len(f[oo]) : Was(o, k, oo, kk)
    BY <2>1
  <2>3. PICK pp \in D : \E ll \in 1..Len(f[pp]) : Was(p, l, pp, ll)
    BY <1>11
  <2>4. PICK ll \in 1..Len(f[pp]) : Was(p, l, pp, ll)
    BY <2>3
  <2>5. oo = pp /\ kk = ll
    <3>1. f[oo][kk] = f[pp][ll]
      BY <1>14, <2>2, <2>4 DEF Was
    <3> QED
      BY <1>1, <3>1
  <2>6. k - a = l - a => k = l
    <3>1. CASE o = 0 /\ p = 0
      <4>1. PICK top \in Nat : top = a + b
        OBVIOUS
      <4>2. k \in 1..top /\ l \in 1..top
        BY <1>4, <3>1, <4>1
      <4> QED
        BY <4>2
    <3> QED
      BY <3>1, <2>2, <2>4, <2>5 DEF Was
  <2> QED
    BY <2>2, <2>4, <2>5, <2>6 DEF Was
<1> QED
  BY <1>12, <1>13, <1>14 DEF Once

LEMMA PickOwned ==
  ASSUME NEW heap, NEW calls, NEW result, Owned(heap, calls, result), NEW leaf, IsLeaf(leaf),
         NEW new, new = Append(heap, leaf), NEW got, got = Append(result, Len(heap) + 1)
  PROVE  Owned(new, calls, got)
<1> heap \in Seq(Node) /\ calls \in Seq(Frame) /\ result \in Seq(Nat)
  BY DEF Owned
<1>1. PICK n \in Nat : n = Len(heap)
  OBVIOUS
<1>2. PICK m \in Nat : m = Len(calls)
  OBVIOUS
<1>3. /\ new \in Seq(Node) /\ Len(new) = n + 1 /\ new[n + 1] = leaf
      /\ \A i \in 1..n : new[i] = heap[i]
  BY <1>1, PushOne DEF IsLeaf
<1>4. got \in Seq(Nat)
  BY <1>1, PushOne
<1>5. PICK f : f = Lists(heap, calls, result)
  OBVIOUS
<1>6. PICK g : g = Lists(new, calls, got)
  OBVIOUS
<1>7. /\ DOMAIN f = -m..n /\ f[0] = result
      /\ \A i \in 1..n : f[i] = heap[i].kids
      /\ \A i \in -m..-1 : f[i] = calls[-i].held
  <2>1. Lays(f, heap, calls, result, n, m)
    BY <1>1, <1>2, <1>5, ListsAre
  <2> QED
    BY <2>1 DEF Lays
<1>8. /\ DOMAIN g = -m..n + 1 /\ g[0] = got
      /\ \A i \in 1..n + 1 : g[i] = new[i].kids
      /\ \A i \in -m..-1 : g[i] = calls[-i].held
  <2>1. PICK k \in Nat : k = n + 1
    OBVIOUS
  <2>2. Lays(g, new, calls, got, k, m)
    BY <1>2, <1>3, <1>6, <2>1, ListsAre
  <2> QED
    BY <2>1, <2>2 DEF Lays
<1>9. /\ n + 1 \notin -m..n /\ 0 \in -m..n /\ -m..n + 1 = -m..n \cup { n + 1 }
      /\ n + 1 \in 1..n + 1 /\ \A i \in 1..n : i \in 1..n + 1
      /\ \A i \in -m..n : i = 0 \/ i \in 1..n \/ i \in -m..-1
  OBVIOUS
<1>10. g[n + 1] = <<>>
  BY <1>3, <1>8, <1>9 DEF IsLeaf
<1>11. \A i \in DOMAIN f \ { 0 } : g[i] = f[i]
  BY <1>3, <1>7, <1>8, <1>9
<1>12. Once(f, n) /\ f[0] \in Seq(Nat) /\ g[0] = Append(f[0], n + 1)
  BY <1>1, <1>5, <1>7, <1>8 DEF Owned
<1>13. Once(g, n + 1)
  BY <1>7, <1>8, <1>9, <1>10, <1>11, <1>12, PickOnce
<1> QED
  BY <1>1, <1>3, <1>4, <1>6, <1>13 DEF Owned

LEMMA SuspendOwned ==
  ASSUME NEW heap, NEW calls, NEW result, Owned(heap, calls, result),
         NEW frame \in Frame, frame.held = result,
         NEW pushed, pushed = Append(calls, frame)
  PROVE  Owned(heap, pushed, <<>>)
<1> heap \in Seq(Node) /\ calls \in Seq(Frame) /\ result \in Seq(Nat)
  BY DEF Owned
<1>1. PICK n \in Nat : n = Len(heap)
  OBVIOUS
<1>2. PICK m \in Nat : m = Len(calls)
  OBVIOUS
<1>3. /\ pushed \in Seq(Frame) /\ Len(pushed) = m + 1 /\ pushed[m + 1] = frame
      /\ \A i \in 1..m : pushed[i] = calls[i]
  BY <1>2, PushOne
<1>4. PICK empty : empty = <<>>
  OBVIOUS
<1>5. PICK f : f = Lists(heap, calls, result)
  OBVIOUS
<1>6. PICK g : g = Lists(heap, pushed, empty)
  OBVIOUS
<1>7. /\ DOMAIN f = -m..n /\ f[0] = result
      /\ \A i \in 1..n : f[i] = heap[i].kids
      /\ \A i \in -m..-1 : f[i] = calls[-i].held
  <2>1. Lays(f, heap, calls, result, n, m)
    BY <1>1, <1>2, <1>5, ListsAre
  <2> QED
    BY <2>1 DEF Lays
<1>8. PICK k \in Nat : k = m + 1
  OBVIOUS
<1>9. /\ DOMAIN g = -k..n /\ g[0] = empty
      /\ \A i \in 1..n : g[i] = heap[i].kids
      /\ \A i \in -k..-1 : g[i] = pushed[-i].held
  <2>1. Lays(g, heap, pushed, empty, n, k)
    BY <1>1, <1>3, <1>6, <1>8, ListsAre
  <2> QED
    BY <2>1 DEF Lays
<1>10. /\ -k \notin -m..n /\ 0 \in -m..n /\ -k..n = -m..n \cup { -k }
       /\ -k \in -k..-1 /\ -(-k) = m + 1
       /\ \A i \in -m..-1 : i \in -k..-1 /\ -i \in 1..m
       /\ \A i \in -m..n : i = 0 \/ i \in 1..n \/ i \in -m..-1
  BY <1>8
<1>11. g[-k] = f[0]
  BY <1>3, <1>7, <1>9, <1>10
<1>12. \A i \in DOMAIN f \ { 0 } : g[i] = f[i]
  BY <1>3, <1>7, <1>9, <1>10
<1>13. Once(f, n)
  BY <1>1, <1>5 DEF Owned
<1>14. PICK new : new = -k
  OBVIOUS
<1>15. Once(g, n)
  BY <1>4, <1>7, <1>9, <1>10, <1>11, <1>12, <1>13, <1>14, SuspendOnce
<1> QED
  BY <1>1, <1>3, <1>4, <1>6, <1>15 DEF Owned

LEMMA BuildOwned ==
  ASSUME NEW heap, NEW calls, NEW result, Owned(heap, calls, result), NEW node \in Node, node.kids = result,
         NEW new, new = Append(heap, node)
  PROVE  Owned(new, calls, << Len(heap) + 1 >>)
<1> heap \in Seq(Node) /\ calls \in Seq(Frame) /\ result \in Seq(Nat)
  BY DEF Owned
<1>1. PICK n \in Nat : n = Len(heap)
  OBVIOUS
<1>2. PICK m \in Nat : m = Len(calls)
  OBVIOUS
<1>3. /\ new \in Seq(Node) /\ Len(new) = n + 1 /\ new[n + 1] = node
      /\ \A i \in 1..n : new[i] = heap[i]
  BY <1>1, PushOne
<1>4. PICK got : got = << n + 1 >>
  OBVIOUS
<1>5. PICK f : f = Lists(heap, calls, result)
  OBVIOUS
<1>6. PICK g : g = Lists(new, calls, got)
  OBVIOUS
<1>7. /\ DOMAIN f = -m..n /\ f[0] = result
      /\ \A i \in 1..n : f[i] = heap[i].kids
      /\ \A i \in -m..-1 : f[i] = calls[-i].held
  <2>1. Lays(f, heap, calls, result, n, m)
    BY <1>1, <1>2, <1>5, ListsAre
  <2> QED
    BY <2>1 DEF Lays
<1>8. /\ DOMAIN g = -m..n + 1 /\ g[0] = got
      /\ \A i \in 1..n + 1 : g[i] = new[i].kids
      /\ \A i \in -m..-1 : g[i] = calls[-i].held
  <2>1. PICK k \in Nat : k = n + 1
    OBVIOUS
  <2>2. Lays(g, new, calls, got, k, m)
    BY <1>2, <1>3, <1>6, <2>1, ListsAre
  <2> QED
    BY <2>1, <2>2 DEF Lays
<1>9. /\ n + 1 \notin -m..n /\ 0 \in -m..n /\ -m..n + 1 = -m..n \cup { n + 1 }
      /\ n + 1 \in 1..n + 1 /\ \A i \in 1..n : i \in 1..n + 1
      /\ \A i \in -m..n : i = 0 \/ i \in 1..n \/ i \in -m..-1
  OBVIOUS
<1>10. g[n + 1] = f[0]
  BY <1>3, <1>7, <1>8, <1>9
<1>11. \A i \in DOMAIN f \ { 0 } : g[i] = f[i]
  BY <1>3, <1>7, <1>8, <1>9
<1>12. Once(f, n)
  BY <1>1, <1>5 DEF Owned
<1>13. Once(g, n + 1)
  BY <1>4, <1>7, <1>8, <1>9, <1>10, <1>11, <1>12, BuildOnce
<1> QED
  BY <1>1, <1>3, <1>4, <1>6, <1>13 DEF Owned

LEMMA ResumeOwned ==
  ASSUME NEW heap, NEW calls, NEW result, Owned(heap, calls, result),
         calls # <<>>, NEW popped, popped = SubSeq(calls, 1, Len(calls) - 1),
         NEW got, got = calls[Len(calls)].held \o result
  PROVE  Owned(heap, popped, got)
<1> heap \in Seq(Node) /\ calls \in Seq(Frame) /\ result \in Seq(Nat)
  BY DEF Owned
<1>1. PICK n \in Nat : n = Len(heap)
  OBVIOUS
<1>2. Len(calls) \in Nat \ { 0 } /\ calls[Len(calls)] \in Frame
  BY PopOne
<1>3. PICK m \in Nat : m = Len(popped) /\ Len(calls) = m + 1
  BY <1>2, PopOne
<1>4. /\ popped \in Seq(Frame) /\ \A i \in 1..m : popped[i] = calls[i]
  <2>1. Len(calls) - 1 = m
    BY <1>3
  <2> QED
    BY <2>1, PopOne
<1>5. got \in Seq(Nat) /\ calls[Len(calls)].held \in Seq(Nat)
  BY <1>2, ConcatProperties DEF Frame
<1>6. PICK f : f = Lists(heap, calls, result)
  OBVIOUS
<1>7. PICK g : g = Lists(heap, popped, got)
  OBVIOUS
<1>8. PICK k \in Nat : k = m + 1
  OBVIOUS
<1>9. /\ DOMAIN f = -k..n /\ f[0] = result
      /\ \A i \in 1..n : f[i] = heap[i].kids
      /\ \A i \in -k..-1 : f[i] = calls[-i].held
  <2>1. Lays(f, heap, calls, result, n, k)
    BY <1>1, <1>3, <1>6, <1>8, ListsAre
  <2> QED
    BY <2>1 DEF Lays
<1>10. /\ DOMAIN g = -m..n /\ g[0] = got
       /\ \A i \in 1..n : g[i] = heap[i].kids
       /\ \A i \in -m..-1 : g[i] = popped[-i].held
  <2>1. Lays(g, heap, popped, got, n, m)
    BY <1>1, <1>3, <1>4, <1>7, ListsAre
  <2> QED
    BY <2>1 DEF Lays
<1>11. /\ -k \in -k..n /\ -k # 0 /\ 0 \in -k..n /\ -m..n = -k..n \ { -k }
       /\ -k \in -k..-1 /\ -(-k) = m + 1
       /\ \A i \in -m..-1 : i \in -k..-1 /\ -i \in 1..m
       /\ \A i \in -k..n : i = 0 \/ i \in 1..n \/ i \in -m..-1 \/ i = -k
  BY <1>8
<1>12. f[-k] = calls[Len(calls)].held
  BY <1>3, <1>9, <1>11
<1>13. ASSUME NEW i \in DOMAIN f \ { 0, -k } PROVE g[i] = f[i]
  <2>1. i \in 1..n \/ i \in -m..-1
    BY <1>9, <1>11
  <2>2. CASE i \in 1..n
    BY <1>9, <1>10, <2>2
  <2>3. CASE i \in -m..-1
    <3>1. i \in -k..-1 /\ -i \in 1..m
      BY <1>11, <2>3
    <3>2. popped[-i] = calls[-i]
      BY <1>4, <3>1
    <3> QED
      BY <1>9, <1>10, <2>3, <3>1, <3>2
  <2> QED
    BY <2>1, <2>2, <2>3
<1>14. Once(f, n) /\ f[0] \in Seq(Nat)
  BY <1>1, <1>6, <1>9 DEF Owned
<1>15. PICK old : old = -k
  OBVIOUS
<1>16. f[old] \in Seq(Nat) /\ g[0] = f[old] \o f[0]
  BY <1>5, <1>9, <1>10, <1>12, <1>15
<1>17. Once(g, n)
  <2>1. old \in DOMAIN f /\ old # 0 /\ 0 \in DOMAIN f
    BY <1>9, <1>11, <1>15
  <2>2. DOMAIN g = DOMAIN f \ { old } /\ \A i \in DOMAIN f \ { 0, old } : g[i] = f[i]
    BY <1>9, <1>10, <1>11, <1>13, <1>15
  <2> QED
    BY <1>14, <1>16, <2>1, <2>2, ResumeOnce
<1> QED
  BY <1>1, <1>4, <1>5, <1>7, <1>17 DEF Owned

--------------------------------------------------------------------------------
(* The tokens that the leaves spell.                                             *)

\* What concatenation returns, from its operands' lengths.
Concatenated(ab, a, l, b, m) ==
    /\ ab \in Seq(Nat) /\ Len(ab) = l + m
    /\ \A i \in 1..l : ab[i] = a[i]
    /\ \A i \in 1..m : ab[l + i] = b[i]

LEMMA ConcatIs ==
  ASSUME NEW a \in Seq(Nat), NEW l \in Nat, l = Len(a),
         NEW b \in Seq(Nat), NEW m \in Nat, m = Len(b), NEW ab, ab = a \o b
  PROVE  Concatenated(ab, a, l, b, m)
BY DEF Concatenated

LEMMA ConcatenationAssociates ==
  ASSUME NEW a \in Seq(Nat), NEW b \in Seq(Nat), NEW c \in Seq(Nat)
  PROVE  (a \o b) \o c = a \o (b \o c)
<1>1. PICK l \in Nat : l = Len(a)
  OBVIOUS
<1>2. PICK m \in Nat : m = Len(b)
  OBVIOUS
<1>3. PICK n \in Nat : n = Len(c)
  OBVIOUS
<1>4. PICK lm \in Nat : lm = l + m
  OBVIOUS
<1>5. PICK mn \in Nat : mn = m + n
  OBVIOUS
<1>6. PICK ab : ab = a \o b
  OBVIOUS
<1>7. PICK bc : bc = b \o c
  OBVIOUS
<1>8. PICK left : left = ab \o c
  OBVIOUS
<1>9. PICK right : right = a \o bc
  OBVIOUS
<1>10. Concatenated(ab, a, l, b, m)
  BY <1>1, <1>2, <1>6, ConcatIs
<1>11. Concatenated(bc, b, m, c, n)
  BY <1>2, <1>3, <1>7, ConcatIs
<1>12. Concatenated(left, ab, lm, c, n)
  <2>1. ab \in Seq(Nat) /\ lm = Len(ab)
    BY <1>4, <1>10 DEF Concatenated
  <2> QED
    BY <1>3, <1>8, <2>1, ConcatIs
<1>13. Concatenated(right, a, l, bc, mn)
  <2>1. bc \in Seq(Nat) /\ mn = Len(bc)
    BY <1>5, <1>11 DEF Concatenated
  <2> QED
    BY <1>1, <1>9, <2>1, ConcatIs
<1>14. ASSUME NEW i \in 1..l PROVE left[i] = right[i]
  <2>1. i \in 1..lm
    BY <1>4
  <2>2. left[i] = ab[i] /\ ab[i] = a[i] /\ right[i] = a[i]
    BY <1>10, <1>12, <1>13, <2>1 DEF Concatenated
  <2> QED
    BY <2>2
<1>15. ASSUME NEW i \in 1..m PROVE left[l + i] = right[l + i]
  <2>1. l + i \in 1..lm /\ i \in 1..mn
    BY <1>4, <1>5
  <2>2. left[l + i] = ab[l + i] /\ ab[l + i] = b[i] /\ right[l + i] = bc[i] /\ bc[i] = b[i]
    BY <1>10, <1>11, <1>12, <1>13, <2>1 DEF Concatenated
  <2> QED
    BY <2>2
<1>16. ASSUME NEW i \in 1..n PROVE left[lm + i] = right[lm + i]
  <2>1. m + i \in 1..mn /\ lm + i = l + (m + i)
    BY <1>4, <1>5
  <2>2. left[lm + i] = c[i] /\ right[l + (m + i)] = bc[m + i] /\ bc[m + i] = c[i]
    BY <1>11, <1>12, <1>13, <2>1 DEF Concatenated
  <2> QED
    BY <2>1, <2>2
<1>17. ASSUME NEW i \in 1..lm + n PROVE left[i] = right[i]
  <2>1. CASE i <= l
    BY <1>14, <2>1
  <2>2. CASE i > l /\ i <= lm
    <3>1. PICK j \in 1..m : i = l + j
      <4>1. i - l \in 1..m /\ i = l + (i - l)
        BY <1>4, <2>2
      <4> QED
        BY <4>1
    <3> QED
      BY <1>15, <3>1
  <2>3. CASE i > lm
    <3>1. PICK j \in 1..n : i = lm + j
      <4>1. i - lm \in 1..n /\ i = lm + (i - lm)
        BY <1>4, <2>3
      <4> QED
        BY <4>1
    <3> QED
      BY <1>16, <3>1
  <2> QED
    BY <1>4, <2>1, <2>2, <2>3
<1>18. left = right
  <2>1. left \in Seq(Nat) /\ Len(left) = lm + n
    BY <1>12 DEF Concatenated
  <2>2. right \in Seq(Nat) /\ Len(right) = lm + n
    <3>1. l + mn = lm + n
      BY <1>4, <1>5
    <3> QED
      BY <1>13, <3>1 DEF Concatenated
  <2>3. left = [ i \in 1..lm + n |-> left[i] ]
    BY <2>1
  <2>4. right = [ i \in 1..lm + n |-> right[i] ]
    BY <2>2
  <2>5. [ i \in 1..lm + n |-> left[i] ] = [ i \in 1..lm + n |-> right[i] ]
    BY <1>17
  <2> QED
    BY <2>3, <2>4, <2>5
<1> QED
  BY <1>6, <1>7, <1>8, <1>9, <1>18

--------------------------------------------------------------------------------
(* What the trees spell.                                                         *)

\* The recursive function of Spelling, up to n, and that there is only one.
Older(heap) == \A n \in 1..Len(heap) : \A k \in 1..Len(heap[n].kids) : heap[n].kids[k] \in 1..n - 1
Word(f, node) ==
    IF node.kids # <<>> THEN Seqs!FlattenSeq([ k \in 1..Len(node.kids) |-> f[node.kids[k]] ])
    ELSE IF node.token # 0 THEN << node.token >>
    ELSE <<>>
Words(f, heap, n) == f = [ i \in 1..n |-> Word(f, heap[i]) ]

LEMMA WordsAgree ==
  ASSUME NEW f, NEW g, NEW i \in Nat, Begins(f, i - 1, g),
         NEW node, \A k \in 1..Len(node.kids) : node.kids[k] \in 1..i - 1
  PROVE  Word(f, node) = Word(g, node)
<1>1. [ k \in 1..Len(node.kids) |-> f[node.kids[k]] ] = [ k \in 1..Len(node.kids) |-> g[node.kids[k]] ]
  BY DEF Begins
<1> QED
  BY <1>1 DEF Word

LEMMA WordsExist ==
  ASSUME NEW heap, Older(heap), NEW n \in Nat, n = Len(heap)
  PROVE  \E f : Words(f, heap, n)
<1> DEFINE T == { m \in 0..n : ~\E f : Words(f, heap, m) }
<1>1. T = {}
  <2> SUFFICES ASSUME T # {} PROVE FALSE
    OBVIOUS
  <2>1. PICK m \in T : \A other \in T : m <= other
    <3>1. T \subseteq Nat
      OBVIOUS
    <3> QED
      BY <3>1, LeastElement
  <2> HIDE DEF T
  <2>2. m \in 0..n /\ ~\E f : Words(f, heap, m)
    BY <2>1 DEF T
  <2>3. CASE m = 0
    <3>1. PICK f : f = [ i \in 1..0 |-> <<>> ]
      OBVIOUS
    <3>2. Words(f, heap, 0)
      BY <3>1 DEF Words
    <3> QED
      BY <2>2, <2>3, <3>2
  <2>4. CASE m # 0
    <3>1. PICK l \in 0..n : m = l + 1
      BY <2>2, <2>4
    <3>2. l \notin T
      BY <2>1, <3>1
    <3>3. PICK f : Words(f, heap, l)
      BY <3>1, <3>2 DEF T
    <3>4. PICK g : g = [ i \in 1..m |-> Word(f, heap[i]) ]
      OBVIOUS
    <3>5. ASSUME NEW i \in 1..l PROVE f[i] = g[i]
      <4>1. i \in 1..m
        BY <3>1
      <4>2. f[i] = Word(f, heap[i])
        BY <3>3 DEF Words
      <4> QED
        BY <3>4, <4>1, <4>2
    <3>6. ASSUME NEW i \in 1..m PROVE g[i] = Word(g, heap[i])
      <4>1. i \in Nat /\ i \in 1..Len(heap) /\ \A j \in 1..i - 1 : j \in 1..l
        BY <2>2, <3>1
      <4>2. Begins(f, i - 1, g)
        BY <3>5, <4>1 DEF Begins
      <4>3. PICK node : node = heap[i]
        OBVIOUS
      <4>4. \A k \in 1..Len(node.kids) : node.kids[k] \in 1..i - 1
        BY <4>1, <4>3 DEF Older
      <4>5. Word(f, node) = Word(g, node)
        BY <4>1, <4>2, <4>4, WordsAgree
      <4> QED
        BY <3>4, <4>3, <4>5
    <3>7. Words(g, heap, m)
      <4>1. g = [ i \in 1..m |-> g[i] ]
        BY <3>4
      <4>2. [ i \in 1..m |-> g[i] ] = [ i \in 1..m |-> Word(g, heap[i]) ]
        BY <3>6
      <4> QED
        BY <4>1, <4>2 DEF Words
    <3> QED
      BY <2>2, <3>7
  <2> QED
    BY <2>3, <2>4
<1>2. n \in 0..n
  OBVIOUS
<1> QED
  BY <1>1, <1>2

LEMMA SpellingIs ==
  ASSUME NEW heap, Older(heap), NEW n \in Nat, n = Len(heap)
  PROVE  Words(Spelling(heap), heap, n)
<1> DEFINE F == CHOOSE f : f = [ i \in 1..n |->
                 IF heap[i].kids # <<>>
                 THEN Seqs!FlattenSeq([ k \in 1..Len(heap[i].kids) |-> f[heap[i].kids[k]] ])
                 ELSE IF heap[i].token # 0 THEN << heap[i].token >>
                 ELSE <<>> ]
<1>1. F = [ i \in 1..n |->
                 IF heap[i].kids # <<>>
                 THEN Seqs!FlattenSeq([ k \in 1..Len(heap[i].kids) |-> F[heap[i].kids[k]] ])
                 ELSE IF heap[i].token # 0 THEN << heap[i].token >>
                 ELSE <<>> ]
  <2>1. \E f : f = [ i \in 1..n |->
                 IF heap[i].kids # <<>>
                 THEN Seqs!FlattenSeq([ k \in 1..Len(heap[i].kids) |-> f[heap[i].kids[k]] ])
                 ELSE IF heap[i].token # 0 THEN << heap[i].token >>
                 ELSE <<>> ]
    BY WordsExist DEF Words, Word
  <2> QED
    BY <2>1
<1>2. Spelling(heap) = F
  BY DEF Spelling
<1> HIDE DEF F
<1> QED
  BY <1>1, <1>2 DEF Words, Word

LEMMA WordsAre ==
  ASSUME NEW heap, Older(heap), NEW i \in 1..Len(heap), Len(heap) \in Nat
  PROVE  Spelling(heap)[i] = Word(Spelling(heap), heap[i])
<1>1. PICK n \in Nat : n = Len(heap)
  OBVIOUS
<1>2. Words(Spelling(heap), heap, n)
  BY <1>1, SpellingIs
<1> QED
  BY <1>1, <1>2 DEF Words

LEMMA WordsTyped ==
  ASSUME NEW heap \in Seq(Node), Older(heap)
  PROVE  \A i \in 1..Len(heap) : Spelling(heap)[i] \in Seq(Nat)
<1> DEFINE f == Spelling(heap)
           T == { i \in 1..Len(heap) : f[i] \notin Seq(Nat) }
<1>1. Len(heap) \in Nat
  OBVIOUS
<1>2. \A i \in 1..Len(heap) : f[i] = Word(f, heap[i])
  BY <1>1, WordsAre
<1> HIDE DEF f
<1>3. T = {}
  <2> SUFFICES ASSUME T # {} PROVE FALSE
    OBVIOUS
  <2>1. PICK i \in T : \A other \in T : i <= other
    <3>1. T \subseteq Nat
      BY <1>1
    <3> QED
      BY <3>1, LeastElement
  <2>2. i \in 1..Len(heap) /\ f[i] \notin Seq(Nat) /\ heap[i] \in Node
    BY <2>1
  <2>3. heap[i].kids \in Seq(Nat) /\ heap[i].token \in Nat
    BY <2>2 DEF Node
  <2>4. \A j \in 1..i - 1 : j \in 1..Len(heap) /\ ~(i <= j)
    BY <1>1, <2>2
  <2>5. \A j \in 1..i - 1 : f[j] \in Seq(Nat)
    BY <2>1, <2>4
  <2>6. PICK list : list = [ k \in 1..Len(heap[i].kids) |-> f[heap[i].kids[k]] ]
    OBVIOUS
  <2>7. list \in Seq(Seq(Nat))
    <3>1. PICK c \in Nat : c = Len(heap[i].kids)
      BY <2>3
    <3>2. \A k \in 1..c : f[heap[i].kids[k]] \in Seq(Nat)
      BY <2>2, <2>5, <3>1 DEF Older
    <3> QED
      BY <2>6, <3>1, <3>2
  <2>8. Seqs!FlattenSeq(list) \in Seq(Nat)
    BY <2>7, FlattenTyped
  <2>9. << heap[i].token >> \in Seq(Nat) /\ <<>> \in Seq(Nat)
    BY <2>3
  <2>10. Word(f, heap[i]) \in Seq(Nat)
    BY <2>6, <2>8, <2>9 DEF Word
  <2> QED
    BY <1>2, <2>2, <2>10
<1> QED
  BY <1>3 DEF f

\* What is in the heap spells the same as long as the heap only grows.
LEMMA WordsStay ==
  ASSUME NEW heap, Older(heap), NEW new, Older(new), NEW n \in Nat, n = Len(heap),
         Len(new) \in Nat, n <= Len(new), Begins(heap, n, new)
  PROVE  Begins(Spelling(heap), n, Spelling(new))
<1> DEFINE f == Spelling(heap)
           g == Spelling(new)
           T == { i \in 1..n : f[i] # g[i] }
<1>1. \A i \in 1..n : i \in 1..Len(new) /\ heap[i] = new[i]
  BY DEF Begins
<1>2. \A i \in 1..n : f[i] = Word(f, heap[i]) /\ g[i] = Word(g, heap[i])
  BY <1>1, WordsAre
<1> HIDE DEF f, g
<1>3. T = {}
  <2> SUFFICES ASSUME T # {} PROVE FALSE
    OBVIOUS
  <2>1. PICK i \in T : \A other \in T : i <= other
    <3>1. T \subseteq Nat
      OBVIOUS
    <3> QED
      BY <3>1, LeastElement
  <2>2. i \in 1..n /\ i \in Nat /\ f[i] # g[i]
    BY <2>1
  <2>3. \A j \in 1..i - 1 : j \in 1..n /\ ~(i <= j)
    BY <2>2
  <2>4. Begins(f, i - 1, g)
    BY <2>1, <2>3 DEF Begins
  <2>5. \A k \in 1..Len(heap[i].kids) : heap[i].kids[k] \in 1..i - 1
    BY <2>2 DEF Older
  <2>6. Word(f, heap[i]) = Word(g, heap[i])
    BY <2>2, <2>4, <2>5, WordsAgree
  <2> QED
    BY <1>2, <2>2, <2>6
<1> QED
  BY <1>3 DEF Begins, f, g

\* Lists of nodes of a heap, and what they spell.
Within(list, n) == \A k \in 1..Len(list) : list[k] \in 1..n

LEMMA SpelledTyped ==
  ASSUME NEW heap \in Seq(Node), Older(heap), NEW list \in Seq(Nat), Within(list, Len(heap))
  PROVE  /\ [ k \in 1..Len(list) |-> Spelling(heap)[list[k]] ] \in Seq(Seq(Nat))
         /\ Spelled(heap, list) \in Seq(Nat)
<1>1. PICK c \in Nat : c = Len(list)
  OBVIOUS
<1>2. PICK words : words = [ k \in 1..Len(list) |-> Spelling(heap)[list[k]] ]
  OBVIOUS
<1>3. \A k \in 1..c : Spelling(heap)[list[k]] \in Seq(Nat)
  BY <1>1, WordsTyped DEF Within
<1>4. words \in Seq(Seq(Nat))
  BY <1>1, <1>2, <1>3
<1>5. Seqs!FlattenSeq(words) \in Seq(Nat)
  BY <1>4, FlattenTyped
<1> QED
  BY <1>2, <1>4, <1>5 DEF Spelled

LEMMA SpelledStays ==
  ASSUME NEW heap, NEW new, NEW list, Within(list, Len(heap)),
         Begins(Spelling(heap), Len(heap), Spelling(new))
  PROVE  Spelled(new, list) = Spelled(heap, list)
<1>1. [ k \in 1..Len(list) |-> Spelling(heap)[list[k]] ] = [ k \in 1..Len(list) |-> Spelling(new)[list[k]] ]
  BY DEF Within, Begins
<1> QED
  BY <1>1 DEF Spelled

LEMMA SpelledAppend ==
  ASSUME NEW heap \in Seq(Node), Older(heap), NEW list \in Seq(Nat), Within(list, Len(heap)),
         NEW n \in 1..Len(heap), NEW longer, longer = Append(list, n)
  PROVE  /\ longer \in Seq(Nat) /\ Within(longer, Len(heap))
         /\ Spelled(heap, longer) = Spelled(heap, list) \o Spelling(heap)[n]
<1>1. PICK c \in Nat : c = Len(list)
  OBVIOUS
<1>2. n \in Nat
  OBVIOUS
<1>3. longer \in Seq(Nat) /\ Len(longer) = c + 1 /\ longer[c + 1] = n /\ \A k \in 1..c : longer[k] = list[k]
  BY <1>1, <1>2, PushOne
<1>4. \A k \in 1..c + 1 : k \in 1..c \/ k = c + 1
  OBVIOUS
<1>5. Within(longer, Len(heap))
  BY <1>1, <1>3, <1>4 DEF Within
<1>6. PICK r : r = [ k \in 1..Len(list) |-> Spelling(heap)[list[k]] ]
  OBVIOUS
<1>7. PICK s : s = [ k \in 1..Len(longer) |-> Spelling(heap)[longer[k]] ]
  OBVIOUS
<1>8. r \in Seq(Seq(Nat)) /\ s \in Seq(Seq(Nat))
  BY <1>3, <1>5, <1>6, <1>7, SpelledTyped
<1>9. Len(r) = c /\ Len(s) = c + 1 /\ s[c + 1] = Spelling(heap)[n]
  <2>1. c + 1 \in Nat /\ c + 1 \in 1..c + 1
    OBVIOUS
  <2> QED
    BY <1>1, <1>3, <1>6, <1>7, <2>1
<1>10. Begins(r, c, s)
  <2>1. \A k \in 1..c : k \in 1..c + 1
    OBVIOUS
  <2> QED
    BY <1>1, <1>3, <1>6, <1>7, <2>1 DEF Begins
<1>11. Seqs!FlattenSeq(s) = Seqs!FlattenSeq(r) \o s[c + 1]
  BY <1>8, <1>9, <1>10, FlattenAppend
<1> QED
  BY <1>3, <1>5, <1>6, <1>7, <1>9, <1>11 DEF Spelled

LEMMA SpelledNone == \A heap : Spelled(heap, <<>>) = <<>>
<1> SUFFICES ASSUME NEW heap PROVE Spelled(heap, <<>>) = <<>>
  OBVIOUS
<1>1. PICK none : none = [ k \in 1..Len(<<>>) |-> Spelling(heap)[<<>>[k]] ]
  OBVIOUS
<1>2. none = <<>> /\ Len(none) = 0
  BY <1>1
<1>3. Seqs!FlattenSeq(none) = <<>>
  BY <1>2, FlattenNone
<1> QED
  BY <1>1, <1>3 DEF Spelled

LEMMA SpelledOne ==
  ASSUME NEW heap \in Seq(Node), Older(heap), NEW n \in 1..Len(heap)
  PROVE  Spelled(heap, << n >>) = Spelling(heap)[n]
<1>1. PICK none : none = <<>> /\ none \in Seq(Nat)
  <2>1. <<>> \in Seq(Nat)
    OBVIOUS
  <2> QED
    BY <2>1
<1>2. PICK one : one = Append(none, n)
  OBVIOUS
<1>3. one = << n >>
  BY <1>1, <1>2
<1>4. Within(none, Len(heap))
  BY <1>1 DEF Within
<1>5. Spelled(heap, one) = Spelled(heap, none) \o Spelling(heap)[n]
  BY <1>1, <1>2, <1>4, SpelledAppend
<1>6. PICK word \in Seq(Nat) : word = Spelling(heap)[n]
  BY WordsTyped
<1>7. <<>> \o word = word
  OBVIOUS
<1> QED
  BY <1>1, <1>3, <1>5, <1>6, <1>7, SpelledNone

\* What the suspended calls hold.
CallsWithin(calls, n) == \A i \in 1..Len(calls) : Within(calls[i].held, n)
SpelledByCalls(heap, calls) ==
    Seqs!FlattenSeq([ i \in 1..Len(calls) |-> Spelled(heap, calls[i].held) ])

LEMMA CallsTyped ==
  ASSUME NEW heap \in Seq(Node), Older(heap), NEW calls \in Seq(Frame), CallsWithin(calls, Len(heap))
  PROVE  /\ [ i \in 1..Len(calls) |-> Spelled(heap, calls[i].held) ] \in Seq(Seq(Nat))
         /\ SpelledByCalls(heap, calls) \in Seq(Nat)
<1>1. PICK c \in Nat : c = Len(calls)
  OBVIOUS
<1>2. PICK words : words = [ i \in 1..Len(calls) |-> Spelled(heap, calls[i].held) ]
  OBVIOUS
<1>3. ASSUME NEW i \in 1..c PROVE Spelled(heap, calls[i].held) \in Seq(Nat)
  <2>1. calls[i] \in Frame
    BY <1>1
  <2>2. calls[i].held \in Seq(Nat)
    BY <2>1 DEF Frame
  <2>3. Within(calls[i].held, Len(heap))
    BY <1>1 DEF CallsWithin
  <2> QED
    BY <2>2, <2>3, SpelledTyped
<1>4. words \in Seq(Seq(Nat))
  BY <1>1, <1>2, <1>3
<1>5. Seqs!FlattenSeq(words) \in Seq(Nat)
  BY <1>4, FlattenTyped
<1> QED
  BY <1>2, <1>4, <1>5 DEF SpelledByCalls

LEMMA CallsStay ==
  ASSUME NEW heap, NEW new, NEW calls, CallsWithin(calls, Len(heap)),
         Begins(Spelling(heap), Len(heap), Spelling(new))
  PROVE  SpelledByCalls(new, calls) = SpelledByCalls(heap, calls)
<1>1. \A i \in 1..Len(calls) : Spelled(new, calls[i].held) = Spelled(heap, calls[i].held)
  BY SpelledStays DEF CallsWithin
<1>2. [ i \in 1..Len(calls) |-> Spelled(heap, calls[i].held) ] = [ i \in 1..Len(calls) |-> Spelled(new, calls[i].held) ]
  BY <1>1
<1> QED
  BY <1>2 DEF SpelledByCalls

LEMMA CallsAppend ==
  ASSUME NEW heap \in Seq(Node), Older(heap), NEW calls \in Seq(Frame), NEW pushed \in Seq(Frame),
         CallsWithin(pushed, Len(heap)), Len(pushed) = Len(calls) + 1, Begins(calls, Len(calls), pushed)
  PROVE  /\ CallsWithin(calls, Len(heap))
         /\ SpelledByCalls(heap, pushed)
              = SpelledByCalls(heap, calls) \o Spelled(heap, pushed[Len(pushed)].held)
<1>1. PICK c \in Nat : c = Len(calls)
  OBVIOUS
<1>2. Len(pushed) = c + 1 /\ c + 1 \in 1..c + 1 /\ \A i \in 1..c : i \in 1..c + 1 /\ calls[i] = pushed[i]
  BY <1>1 DEF Begins
<1>3. CallsWithin(calls, Len(heap))
  BY <1>1, <1>2 DEF CallsWithin
<1>4. PICK r : r = [ i \in 1..Len(calls) |-> Spelled(heap, calls[i].held) ]
  OBVIOUS
<1>5. PICK s : s = [ i \in 1..Len(pushed) |-> Spelled(heap, pushed[i].held) ]
  OBVIOUS
<1>6. r \in Seq(Seq(Nat)) /\ s \in Seq(Seq(Nat))
  BY <1>3, <1>4, <1>5, CallsTyped
<1>7. Len(r) = c /\ Len(s) = c + 1 /\ s[c + 1] = Spelled(heap, pushed[Len(pushed)].held)
  <2>1. c + 1 \in Nat
    OBVIOUS
  <2> QED
    BY <1>1, <1>2, <1>4, <1>5, <2>1
<1>8. Begins(r, c, s)
  BY <1>1, <1>2, <1>4, <1>5 DEF Begins
<1>9. Seqs!FlattenSeq(s) = Seqs!FlattenSeq(r) \o s[c + 1]
  BY <1>6, <1>7, <1>8, FlattenAppend
<1> QED
  BY <1>3, <1>4, <1>5, <1>7, <1>9 DEF SpelledByCalls

LEMMA SpelledByAllIs ==
  \A heap, calls, result :
     SpelledByAll(heap, calls, result) = SpelledByCalls(heap, calls) \o Spelled(heap, result)
BY DEF SpelledByAll, SpelledByCalls

\* The trees read back as the first p tokens.
Reads(heap, calls, result, p) ==
    Older(heap) /\ SpelledByAll(heap, calls, result) = [ i \in 1..p |-> i ]

LEMMA OwnedWithin ==
  ASSUME NEW heap, NEW calls, NEW result, Owned(heap, calls, result)
  PROVE  Within(result, Len(heap)) /\ CallsWithin(calls, Len(heap))
<1> heap \in Seq(Node) /\ calls \in Seq(Frame) /\ result \in Seq(Nat)
  BY DEF Owned
<1>1. PICK n \in Nat : n = Len(heap)
  OBVIOUS
<1>2. PICK m \in Nat : m = Len(calls)
  OBVIOUS
<1>3. PICK f : f = Lists(heap, calls, result)
  OBVIOUS
<1>4. Lays(f, heap, calls, result, n, m)
  BY <1>1, <1>2, <1>3, ListsAre
<1>5. \A o \in -m..n : \A k \in 1..Len(f[o]) : f[o][k] \in 1..n
  BY <1>1, <1>3, <1>4 DEF Owned, Once, Lays
<1>6. 0 \in -m..n /\ \A i \in 1..m : -i \in -m..n /\ -i \in -m..-1 /\ -(-i) = i
  OBVIOUS
<1>7. Within(result, n)
  BY <1>4, <1>5, <1>6 DEF Lays, Within
<1>8. ASSUME NEW i \in 1..m PROVE Within(calls[i].held, n)
  <2>1. f[-i] = calls[i].held
    BY <1>4, <1>6 DEF Lays
  <2> QED
    BY <1>5, <1>6, <2>1 DEF Within
<1> QED
  BY <1>1, <1>2, <1>7, <1>8 DEF CallsWithin

\* Everything spells the same over a heap that has one node more.
Grown(heap, node, new, calls, result) ==
    /\ new \in Seq(Node) /\ Len(new) = Len(heap) + 1 /\ new[Len(heap) + 1] = node
    /\ Older(new) /\ CallsWithin(calls, Len(new)) /\ Within(result, Len(new))
    /\ SpelledByCalls(new, calls) = SpelledByCalls(heap, calls)
    /\ Spelled(new, result) = Spelled(heap, result)

LEMMA GrowReads ==
  ASSUME NEW heap, NEW calls, NEW result, Owned(heap, calls, result), Older(heap),
         NEW node \in Node, NEW new, new = Append(heap, node),
         Within(node.kids, Len(heap))
  PROVE  Grown(heap, node, new, calls, result)
<1> heap \in Seq(Node) /\ calls \in Seq(Frame) /\ result \in Seq(Nat)
  BY DEF Owned
<1>1. PICK n \in Nat : n = Len(heap)
  OBVIOUS
<1>2. new \in Seq(Node) /\ Len(new) = n + 1 /\ new[n + 1] = node /\ \A i \in 1..n : new[i] = heap[i]
  BY <1>1, PushOne
<1>3. (\A i \in 1..n + 1 : i \in 1..n \/ i = n + 1) /\ n <= n + 1 /\ n + 1 \in Nat
      /\ n + 1 - 1 = n /\ \A i \in 1..n : i \in 1..n + 1
  OBVIOUS
<1>4. Older(new)
  <2> SUFFICES ASSUME NEW i \in 1..n + 1 PROVE \A k \in 1..Len(new[i].kids) : new[i].kids[k] \in 1..i - 1
    BY <1>2 DEF Older
  <2>1. CASE i \in 1..n
    BY <1>1, <1>2, <2>1 DEF Older
  <2>2. CASE i = n + 1
    BY <1>1, <1>2, <1>3, <2>2 DEF Within
  <2> QED
    BY <1>3, <2>1, <2>2
<1>5. Begins(heap, n, new)
  BY <1>2 DEF Begins
<1>6. Begins(Spelling(heap), n, Spelling(new))
  BY <1>1, <1>2, <1>3, <1>4, <1>5, WordsStay
<1>7. Within(result, n) /\ CallsWithin(calls, n)
  BY <1>1, OwnedWithin
<1>8. Within(result, n + 1)
  BY <1>3, <1>7 DEF Within
<1>9. CallsWithin(calls, n + 1)
  BY <1>3, <1>7 DEF Within, CallsWithin
<1>10. SpelledByCalls(new, calls) = SpelledByCalls(heap, calls)
  BY <1>1, <1>6, <1>7, CallsStay
<1>11. Spelled(new, result) = Spelled(heap, result)
  BY <1>1, <1>6, <1>7, SpelledStays
<1> QED
  BY <1>1, <1>2, <1>4, <1>8, <1>9, <1>10, <1>11 DEF Grown

\* A leaf copies the token after the first p, or none.
Copies(leaf, p, q) == (leaf.token = p + 1 /\ q = p + 1) \/ (leaf.token = 0 /\ q = p)

LEMMA PickReads ==
  ASSUME NEW heap, NEW calls, NEW result, Owned(heap, calls, result), NEW p \in Nat,
         Reads(heap, calls, result, p), NEW leaf, IsLeaf(leaf), NEW q, Copies(leaf, p, q),
         NEW new, new = Append(heap, leaf), NEW got, got = Append(result, Len(heap) + 1)
  PROVE  Reads(new, calls, got, q)
<1> heap \in Seq(Node) /\ calls \in Seq(Frame) /\ result \in Seq(Nat) /\ Older(heap)
  BY DEF Owned, Reads
<1>1. PICK n \in Nat : n = Len(heap)
  OBVIOUS
<1>2. leaf \in Node /\ leaf.kids = <<>> /\ Within(leaf.kids, n)
  BY DEF IsLeaf, Within
<1>3. /\ new \in Seq(Node) /\ Len(new) = n + 1 /\ new[n + 1] = leaf
      /\ Older(new) /\ CallsWithin(calls, Len(new)) /\ Within(result, Len(new))
      /\ SpelledByCalls(new, calls) = SpelledByCalls(heap, calls)
      /\ Spelled(new, result) = Spelled(heap, result)
  <2>1. Within(leaf.kids, Len(heap))
    BY <1>1, <1>2
  <2>2. Grown(heap, leaf, new, calls, result)
    BY <1>2, <2>1, GrowReads
  <2> QED
    BY <1>1, <2>2 DEF Grown
<1>4. PICK old : old = n + 1 /\ old \in 1..Len(new)
  BY <1>3
<1>5. Spelled(new, got) = Spelled(new, result) \o Spelling(new)[old]
  BY <1>1, <1>3, <1>4, SpelledAppend
<1>6. Spelling(new)[old] = IF leaf.token # 0 THEN << leaf.token >> ELSE <<>>
  <2>1. Spelling(new)[old] = Word(Spelling(new), new[old])
    BY <1>3, <1>4, Len(new) \in Nat, WordsAre
  <2>2. new[old] = leaf
    BY <1>3, <1>4
  <2> QED
    BY <1>2, <2>1, <2>2 DEF Word
<1>7. PICK a \in Seq(Nat) : a = SpelledByCalls(new, calls)
  BY <1>3, CallsTyped
<1>8. PICK b \in Seq(Nat) : b = Spelled(new, result)
  BY <1>3, SpelledTyped
<1>9. a \o b = [ i \in 1..p |-> i ]
  BY <1>3, <1>7, <1>8, SpelledByAllIs DEF Reads
<1>10. PICK c \in Seq(Nat) : c = Spelling(new)[old]
  BY <1>3, <1>4, WordsTyped
<1>11. SpelledByAll(new, calls, got) = (a \o b) \o c
  <2>1. SpelledByAll(new, calls, got) = a \o (b \o c)
    BY <1>5, <1>7, <1>8, <1>10, SpelledByAllIs
  <2>2. (a \o b) \o c = a \o (b \o c)
    BY ConcatenationAssociates
  <2> QED
    BY <2>1, <2>2
<1>12. (a \o b) \o c = [ i \in 1..q |-> i ]
  <2>1. PICK ab \in Seq(Nat) : ab = a \o b /\ Len(ab) = p /\ \A i \in 1..p : ab[i] = i
    <3>1. a \o b \in Seq(Nat)
      OBVIOUS
    <3>2. PICK ab : ab = [ i \in 1..p |-> i ]
      OBVIOUS
    <3>3. Len(ab) = p /\ \A i \in 1..p : ab[i] = i
      BY <3>2
    <3> QED
      BY <1>9, <3>1, <3>2, <3>3
  <2>2. CASE leaf.token = 0 /\ q = p
    <3>1. ab \o <<>> = ab
      OBVIOUS
    <3> QED
      BY <1>6, <1>9, <1>10, <2>1, <2>2, <3>1
  <2>3. CASE leaf.token = p + 1 /\ q = p + 1
    <3>1. c = << p + 1 >>
      BY <1>6, <1>10, <2>3
    <3>2. ab \o c = Append(ab, p + 1)
      BY <3>1, AppendIsConcat
    <3>3. PICK more : more = Append(ab, p + 1)
      OBVIOUS
    <3>4. more \in Seq(Nat) /\ Len(more) = p + 1 /\ more[p + 1] = p + 1 /\ \A i \in 1..p : more[i] = i
      BY <2>1, <3>3, PushOne
    <3>5. \A i \in 1..p + 1 : i \in 1..p \/ i = p + 1
      OBVIOUS
    <3>6. \A i \in 1..p + 1 : more[i] = i
      BY <3>4, <3>5
    <3>7. more = [ i \in 1..p + 1 |-> i ]
      BY <3>4, <3>6
    <3> QED
      BY <2>1, <2>3, <3>2, <3>3, <3>7
  <2> QED
    BY <2>2, <2>3 DEF Copies
<1> QED
  BY <1>3, <1>11, <1>12 DEF Reads

\* The running call is suspended with what it has.
LEMMA SuspendReads ==
  ASSUME NEW heap, NEW calls, NEW result, Owned(heap, calls, result), NEW p \in Nat,
         Reads(heap, calls, result, p), NEW frame \in Frame, frame.held = result,
         NEW pushed, pushed = Append(calls, frame)
  PROVE  Reads(heap, pushed, <<>>, p)
<1> heap \in Seq(Node) /\ calls \in Seq(Frame) /\ result \in Seq(Nat) /\ Older(heap)
  BY DEF Owned, Reads
<1>1. PICK m \in Nat : m = Len(calls)
  OBVIOUS
<1>2. /\ pushed \in Seq(Frame) /\ Len(pushed) = m + 1 /\ pushed[m + 1] = frame
      /\ \A i \in 1..m : pushed[i] = calls[i]
  BY <1>1, PushOne
<1>3. Within(result, Len(heap)) /\ CallsWithin(calls, Len(heap))
  BY OwnedWithin
<1>4. CallsWithin(pushed, Len(heap))
  <2>1. \A i \in 1..m + 1 : i \in 1..m \/ i = m + 1
    OBVIOUS
  <2> QED
    BY <1>1, <1>2, <1>3, <2>1 DEF CallsWithin
<1>5. SpelledByCalls(heap, pushed) = SpelledByCalls(heap, calls) \o Spelled(heap, pushed[Len(pushed)].held)
  <2>1. Begins(calls, Len(calls), pushed) /\ Len(pushed) = Len(calls) + 1
    BY <1>1, <1>2 DEF Begins
  <2> QED
    BY <1>2, <1>4, <2>1, CallsAppend
<1>6. PICK text : text = SpelledByCalls(heap, pushed)
  OBVIOUS
<1>7. text = [ i \in 1..p |-> i ] /\ text \in Seq(Nat)
  <2>1. text = SpelledByAll(heap, calls, result)
    BY <1>1, <1>2, <1>5, <1>6, SpelledByAllIs
  <2>2. text \in Seq(Nat)
    BY <1>2, <1>4, <1>6, CallsTyped
  <2> QED
    BY <2>1, <2>2 DEF Reads
<1>8. text \o <<>> = text
  BY <1>7
<1>9. SpelledByAll(heap, pushed, <<>>) = text
  BY <1>6, <1>8, SpelledNone, SpelledByAllIs
<1> QED
  BY <1>7, <1>9 DEF Reads

\* A new node takes the result for its kids.
LEMMA BuildReads ==
  ASSUME NEW heap, NEW calls, NEW result, Owned(heap, calls, result), NEW p \in Nat,
         Reads(heap, calls, result, p), NEW node \in Node, node.kids = result, result # <<>>,
         NEW new, new = Append(heap, node)
  PROVE  Reads(new, calls, << Len(heap) + 1 >>, p)
<1> heap \in Seq(Node) /\ calls \in Seq(Frame) /\ result \in Seq(Nat) /\ Older(heap)
  BY DEF Owned, Reads
<1>1. Within(node.kids, Len(heap))
  BY OwnedWithin
<1>2. Grown(heap, node, new, calls, result)
  BY <1>1, GrowReads
<1>3. PICK old : old = Len(heap) + 1 /\ old \in 1..Len(new) /\ new[old] = node
  <2>1. PICK n \in Nat : n = Len(heap)
    OBVIOUS
  <2> QED
    BY <1>2, <2>1 DEF Grown
<1>4. new \in Seq(Node) /\ Len(new) \in Nat /\ Older(new)
  BY <1>2 DEF Grown
<1>5. Spelled(new, << old >>) = Spelling(new)[old]
  BY <1>3, <1>4, SpelledOne
<1>6. Spelling(new)[old] = Word(Spelling(new), node)
  BY <1>3, <1>4, WordsAre
<1>7. Word(Spelling(new), node) = Spelled(new, result)
  BY DEF Word, Spelled
<1>8. SpelledByAll(new, calls, << old >>) = SpelledByAll(heap, calls, result)
  BY <1>2, <1>5, <1>6, <1>7, SpelledByAllIs DEF Grown
<1> QED
  BY <1>3, <1>4, <1>8 DEF Reads

\* The innermost suspended call goes on, with the node it waited for.
LEMMA ResumeReads ==
  ASSUME NEW heap, NEW calls, NEW n \in Nat, Owned(heap, calls, << n >>), NEW p \in Nat,
         Reads(heap, calls, << n >>, p),
         calls # <<>>, NEW popped, popped = SubSeq(calls, 1, Len(calls) - 1),
         NEW got, got = Append(calls[Len(calls)].held, n)
  PROVE  Reads(heap, popped, got, p)
<1> heap \in Seq(Node) /\ calls \in Seq(Frame) /\ Older(heap)
  BY DEF Owned, Reads
<1>1. Len(calls) \in Nat \ { 0 } /\ calls[Len(calls)] \in Frame
  BY PopOne
<1>2. PICK m \in Nat : m = Len(popped) /\ Len(calls) = m + 1
  <2>1. Len(popped) = Len(calls) - 1
    BY PopOne
  <2>2. Len(calls) - 1 \in Nat /\ Len(calls) = Len(calls) - 1 + 1
    BY <1>1
  <2> QED
    BY <2>1, <2>2
<1>3. /\ popped \in Seq(Frame) /\ \A i \in 1..m : popped[i] = calls[i]
  <2>1. Len(calls) - 1 = m
    BY <1>2
  <2> QED
    BY <2>1, PopOne
<1>4. PICK held \in Seq(Nat) : held = calls[Len(calls)].held
  BY <1>1 DEF Frame
<1>5. Within(<< n >>, Len(heap)) /\ CallsWithin(calls, Len(heap))
  BY OwnedWithin
<1>6. n \in 1..Len(heap)
  <2>1. 1 \in 1..Len(<< n >>) /\ << n >>[1] = n
    OBVIOUS
  <2> QED
    BY <1>5, <2>1 DEF Within
<1>7. Within(held, Len(heap))
  <2>1. Len(calls) \in 1..Len(calls)
    BY <1>1
  <2> QED
    BY <1>4, <1>5, <2>1 DEF CallsWithin
<1>8. /\ SpelledByCalls(heap, calls) = SpelledByCalls(heap, popped) \o Spelled(heap, held)
      /\ CallsWithin(popped, Len(heap))
  <2>1. Begins(popped, Len(popped), calls) /\ Len(calls) = Len(popped) + 1
    BY <1>2, <1>3 DEF Begins
  <2> QED
    BY <1>3, <1>4, <1>5, <2>1, CallsAppend
<1>9. Spelled(heap, got) = Spelled(heap, held) \o Spelling(heap)[n]
  BY <1>4, <1>6, <1>7, SpelledAppend
<1>10. Spelled(heap, << n >>) = Spelling(heap)[n]
  BY <1>6, SpelledOne
<1>11. PICK a \in Seq(Nat) : a = SpelledByCalls(heap, popped)
  BY <1>3, <1>8, CallsTyped
<1>12. PICK b \in Seq(Nat) : b = Spelled(heap, held)
  BY <1>7, SpelledTyped
<1>13. PICK c \in Seq(Nat) : c = Spelling(heap)[n]
  BY <1>6, WordsTyped
<1>14. SpelledByAll(heap, popped, got) = a \o (b \o c)
  BY <1>9, <1>11, <1>12, <1>13, SpelledByAllIs
<1>15. SpelledByAll(heap, calls, << n >>) = (a \o b) \o c
  BY <1>8, <1>10, <1>11, <1>12, <1>13, SpelledByAllIs
<1>16. (a \o b) \o c = a \o (b \o c)
  BY ConcatenationAssociates
<1> QED
  BY <1>14, <1>15, <1>16 DEF Reads

--------------------------------------------------------------------------------
(* Both of them, over the steps of the parser.                                   *)

Holds(heap, calls, result, p) == Owned(heap, calls, result) /\ Reads(heap, calls, result, p)
Accounted == EachNodeOwnedOnce /\ TreeSpellsConsumedTokens

LEMMA PickHolds ==
  ASSUME NEW heap, NEW calls, NEW result, NEW p \in Nat, Holds(heap, calls, result, p),
         NEW leaf, IsLeaf(leaf), NEW q, Copies(leaf, p, q),
         NEW new, new = Append(heap, leaf), NEW got, got = Append(result, Len(heap) + 1)
  PROVE  Holds(new, calls, got, q) /\ q \in Nat
<1>1. Owned(new, calls, got)
  BY PickOwned DEF Holds
<1>2. Reads(new, calls, got, q)
  BY PickReads DEF Holds
<1>3. q \in Nat
  BY DEF Copies
<1> QED
  BY <1>1, <1>2, <1>3 DEF Holds

LEMMA SuspendHolds ==
  ASSUME NEW heap, NEW calls, NEW result, NEW p \in Nat, Holds(heap, calls, result, p),
         NEW frame \in Frame, frame.held = result, NEW pushed, pushed = Append(calls, frame)
  PROVE  Holds(heap, pushed, <<>>, p)
<1>1. Owned(heap, pushed, <<>>)
  BY SuspendOwned DEF Holds
<1>2. Reads(heap, pushed, <<>>, p)
  BY SuspendReads DEF Holds
<1> QED
  BY <1>1, <1>2 DEF Holds

LEMMA BuildHolds ==
  ASSUME NEW heap, NEW calls, NEW result, NEW p \in Nat, Holds(heap, calls, result, p),
         NEW node \in Node, node.kids = result, result # <<>>,
         NEW new, new = Append(heap, node)
  PROVE  Holds(new, calls, << Len(heap) + 1 >>, p)
<1>1. Owned(new, calls, << Len(heap) + 1 >>)
  BY BuildOwned DEF Holds
<1>2. Reads(new, calls, << Len(heap) + 1 >>, p)
  BY BuildReads DEF Holds
<1> QED
  BY <1>1, <1>2 DEF Holds

LEMMA ResumeHolds ==
  ASSUME NEW heap, NEW calls, NEW n \in Nat, NEW p \in Nat, Holds(heap, calls, << n >>, p),
         calls # <<>>, NEW popped, popped = SubSeq(calls, 1, Len(calls) - 1),
         NEW got, got = Append(calls[Len(calls)].held, n)
  PROVE  Holds(heap, popped, got, p)
<1>1. Reads(heap, popped, got, p)
  BY ResumeReads DEF Holds
<1>2. Owned(heap, popped, got)
  <2>1. PICK held \in Seq(Nat) : held = calls[Len(calls)].held
    <3>1. calls[Len(calls)] \in Frame
      BY PopOne DEF Holds, Owned
    <3> QED
      BY <3>1 DEF Frame
  <2>2. got = calls[Len(calls)].held \o << n >>
    BY <2>1, AppendIsConcat
  <2> QED
    BY <2>2, ResumeOwned DEF Holds
<1> QED
  BY <1>1, <1>2 DEF Holds

\* What next_token and match_token return, and how far they go.
LEMMA CopiesNext ==
  ASSUME IInv
  PROVE  /\ Copies(Leaf(position + 1), position, position + 1)
         /\ Copies(Leaf(position + 2), position + 1, position + 2)
         /\ \A kind : MatchToken(kind) => Copies(Matched(kind), position, position')
<1>1. position \in Nat
  BY DEF IInv, TypeOK
<1>2. position + 2 = position + 1 + 1
  BY <1>1
<1> QED
  BY <1>2 DEF Copies, Leaf, Hole, Matched, MatchToken

\* What the running call returns, before it has it and when it does.
LEMMA ResultIs ==
  \A call : /\ call.fn \notin HasResult /\ ResultShape(nodes, call) => call.node = 0
            /\ call.fn \in HasResult /\ ResultShape(nodes, call) => call.node \in 1..Len(nodes)
BY DEF ResultShape, NoNode

LEMMA Owning ==
  ASSUME IInv, TreeShape, Accounted
  PROVE  /\ nodes \in Seq(Node) /\ Len(nodes) \in Nat /\ stack \in Seq(Frame)
         /\ Result \in Seq(Nat) /\ position \in Nat /\ Holds(nodes, stack, Result, position)
         /\ control.fn \notin HasResult => Result = <<>>
         /\ control.fn \in HasResult => Result = << control.node >> /\ control.node \in Nat
<1>1. nodes \in Seq(Node) /\ Len(nodes) \in Nat /\ stack \in Seq(Frame)
  BY DEF IInv, TypeOK
<1>2. control.fn \notin HasResult => Result = <<>>
  BY DEF TreeShape, ResultShape, Result
<1>3. control.fn \in HasResult => Result = << control.node >> /\ control.node \in Nat
  BY <1>1 DEF TreeShape, ResultShape, Result, NoNode
<1>4. Result \in Seq(Nat)
  <2>1. CASE control.fn \in HasResult
    <3>1. PICK node \in Nat : node = control.node /\ Result = << node >>
      BY <1>3, <2>1
    <3> QED
      BY <3>1
  <2>2. <<>> \in Seq(Nat)
    OBVIOUS
  <2> QED
    BY <1>2, <2>1, <2>2
<1>5. Owned(nodes, stack, Result)
  BY <1>1, <1>4 DEF Accounted, EachNodeOwnedOnce, Owned
<1>6. Older(nodes)
  <2>1. \A n \in 1..Len(nodes) : WellBuilt(nodes, n)
    BY DEF TreeShape, HeapShape
  <2> QED
    BY <2>1 DEF WellBuilt, Older
<1>7. Reads(nodes, stack, Result, position)
  BY <1>6 DEF Accounted, TreeSpellsConsumedTokens, Reads
<1>8. position \in Nat
  BY DEF IInv, TypeOK
<1> QED
  BY <1>1, <1>2, <1>3, <1>4, <1>5, <1>7, <1>8 DEF Holds

LEMMA AccountedStep ==
  ASSUME NEW heap, heap = nodes', NEW calls, calls = stack', NEW result, result = Result',
         NEW p, p = position', Holds(heap, calls, result, p)
  PROVE  Accounted'
<1>1. EachNodeOwnedOnce'
  <2>1. Owned(nodes', stack', Result')
    BY DEF Holds
  <2> QED
    BY <2>1 DEF EachNodeOwnedOnce, Owned
<1>2. TreeSpellsConsumedTokens'
  <2>1. SpelledByAll(nodes', stack', Result') = [ i \in 1..position' |-> i ]
    BY DEF Holds, Reads
  <2> QED
    BY <2>1 DEF TreeSpellsConsumedTokens
<1> QED
  BY <1>1, <1>2 DEF Accounted

LEMMA NoResultNext == control'.node = NoNode => Result' = <<>>
BY DEF Result

LEMMA ResultNext ==
  ASSUME NEW got \in Nat, got # 0, control'.node = got
  PROVE  Result' = << got >>
BY DEF Result, NoNode

\* match_token or next_token, then a recursive call.
LEMMA PickAndSuspend ==
  ASSUME IInv, TreeShape, Accounted,
         NEW leaf, IsLeaf(leaf), nodes' = Append(nodes, leaf),
         NEW frame \in Frame, stack' = Append(stack, frame),
         frame.held = Append(Result, Len(nodes) + 1), control'.node = NoNode,
         Copies(leaf, position, position')
  PROVE  Accounted'
<1>1. PICK heap : heap = Append(nodes, leaf)
  OBVIOUS
<1>2. PICK got : got = Append(Result, Len(nodes) + 1)
  OBVIOUS
<1>3. PICK calls : calls = Append(stack, frame)
  OBVIOUS
<1>4. PICK q : q = position'
  OBVIOUS
<1>5. Holds(heap, stack, got, q) /\ q \in Nat
  BY <1>1, <1>2, <1>4, Owning, PickHolds
<1>6. Holds(heap, calls, <<>>, q)
  BY <1>2, <1>3, <1>5, SuspendHolds
<1> QED
  BY <1>1, <1>3, <1>4, <1>6, NoResultNext, AccountedStep

LEMMA ParseAssignmentAccounted ==
  IInv /\ TreeShape /\ Accounted /\ ParseAssignment => Accounted'
<1> SUFFICES ASSUME IInv, TreeShape, Accounted, ParseAssignment PROVE Accounted'
  OBVIOUS
<1>1. /\ control.fn = "parse_assignment_expression" /\ control' = control /\ position' = position + 2
      /\ nodes' = nodes \o << Leaf(position + 1), Leaf(position + 2) >>
      /\ stack' = Append(stack, Suspend("ASSIGNMENT_EXPRESSION", << Len(nodes) + 1, Len(nodes) + 2 >>, 0))
  BY DEF ParseAssignment
<1>2. position + 1 \in 1..Len(tokens) /\ position + 2 \in 1..Len(tokens)
  BY <1>1, AssignmentIsInText, Reading DEF ParseAssignment
<1>3. PICK a : a = Leaf(position + 1) /\ IsLeaf(a)
  BY <1>1, <1>2, LeavesAreLeaves
<1>4. PICK b : b = Leaf(position + 2) /\ IsLeaf(b)
  BY <1>1, <1>2, LeavesAreLeaves
<1>5. PICK n \in Nat : n = Len(nodes)
  BY Owning
<1>6. Result = <<>> /\ control.node = NoNode
  BY <1>1, Owning DEF HasResult, TreeShape, ResultShape
<1>7. PICK half : half = Append(nodes, a)
  OBVIOUS
<1>8. PICK one : one = Append(<<>>, n + 1)
  OBVIOUS
<1>9. Holds(half, stack, one, position + 1) /\ Len(half) = n + 1
  <2>1. one = Append(Result, Len(nodes) + 1)
    BY <1>5, <1>6, <1>8
  <2>2. Holds(half, stack, one, position + 1)
    BY <1>3, <1>7, <2>1, Owning, CopiesNext, PickHolds
  <2> QED
    BY <1>3, <1>5, <1>7, <2>2, Owning, PushOne DEF IsLeaf
<1>10. PICK heap : heap = Append(half, b)
  OBVIOUS
<1>11. PICK two : two = Append(one, Len(half) + 1)
  OBVIOUS
<1>12. Holds(heap, stack, two, position + 2)
  <2>1. position + 1 \in Nat
    BY Owning
  <2> QED
    BY <1>4, <1>9, <1>10, <1>11, <2>1, CopiesNext, PickHolds
<1>13. two = << n + 1, n + 2 >>
  <2>1. one = << n + 1 >>
    BY <1>8
  <2>2. PICK second \in Nat : second = n + 2 /\ second = Len(half) + 1
    BY <1>9
  <2>3. PICK first \in Nat : first = n + 1
    OBVIOUS
  <2>4. PICK both : both = << first, second >>
    OBVIOUS
  <2>5. one = << first >> /\ two = Append(one, second)
    BY <1>11, <2>1, <2>2, <2>3
  <2>6. both = Append(one, second)
    BY <2>4, <2>5
  <2> QED
    BY <2>2, <2>3, <2>4, <2>5, <2>6
<1>14. PICK frame : frame = Suspend("ASSIGNMENT_EXPRESSION", two, 0)
  OBVIOUS
<1>15. frame \in Frame /\ frame.held = two
  <2>1. two \in Seq(Nat) /\ "ASSIGNMENT_EXPRESSION" \in NodeKinds /\ 0 \in Precedences
    BY <1>13 DEF NodeKinds, ExpressionKinds, Precedences
  <2> QED
    BY <1>14, <2>1, Constructors DEF Suspend
<1>16. PICK calls : calls = Append(stack, frame)
  OBVIOUS
<1>17. Holds(heap, calls, <<>>, position + 2)
  <2>1. position + 2 \in Nat
    BY Owning
  <2> QED
    BY <1>12, <1>15, <1>16, <2>1, SuspendHolds
<1>18. heap = nodes'
  <2>1. a \in Node /\ b \in Node
    BY <1>3, <1>4 DEF IsLeaf
  <2>2. nodes \o << a, b >> = Append(Append(nodes, a), b)
    BY <2>1, Owning, AppendTwice
  <2> QED
    BY <1>1, <1>3, <1>4, <1>7, <1>10, <2>2
<1>19. calls = stack'
  BY <1>1, <1>5, <1>13, <1>14, <1>16
<1> QED
  BY <1>1, <1>6, <1>17, <1>18, <1>19, NoResultNext, AccountedStep

LEMMA RecursionAccounted ==
  IInv /\ TreeShape /\ Accounted /\ (ParseUnary \/ ParseParenthesized \/ ParseBinaryRight)
     => Accounted'
<1> SUFFICES ASSUME IInv, TreeShape, Accounted,
                    ParseUnary \/ ParseParenthesized \/ ParseBinaryRight
             PROVE  Accounted'
  OBVIOUS
<1>1. PICK n \in Nat : n = Len(nodes)
  BY Owning
<1>2. ASSUME NEW leaf, IsLeaf(leaf), nodes' = Append(nodes, leaf),
             NEW building \in NodeKinds, NEW held, held = Append(Result, n + 1), held \in Seq(Nat),
             control.parent \in Precedences, Copies(leaf, position, position'),
             stack' = Append(stack, Suspend(building, held, control.parent)), control'.node = NoNode
      PROVE  Accounted'
  <2>1. PICK frame : frame = Suspend(building, held, control.parent)
    OBVIOUS
  <2>2. frame \in Frame /\ frame.held = held
    BY <1>2, <2>1, Constructors DEF Suspend
  <2> QED
    BY <1>1, <1>2, <2>1, <2>2, PickAndSuspend
<1>3. << n + 1 >> = Append(<<>>, n + 1) /\ << n + 1 >> \in Seq(Nat)
  OBVIOUS
<1>4. { "UNARY_EXPRESSION", "BINARY_EXPRESSION", "PARENTHESIZED_EXPRESSION" } \subseteq NodeKinds
  BY DEF NodeKinds, ExpressionKinds
<1>5. CASE ParseUnary
  <2>1. /\ control.fn = "parse_binary_expression" /\ control'.node = NoNode
        /\ nodes' = Append(nodes, Leaf(position + 1))
        /\ stack' = Append(stack, Suspend("UNARY_EXPRESSION", << n + 1 >>, control.parent))
    BY <1>1, <1>5 DEF ParseUnary, Run
  <2>2. Copies(Leaf(position + 1), position, position')
    BY <1>5, CopiesNext DEF ParseUnary
  <2>3. IsLeaf(Leaf(position + 1)) /\ control.parent \in Precedences
    BY <2>1, LeavesAreLeaves, Reading
  <2>4. Result = <<>>
    BY <2>1, Owning DEF HasResult
  <2> QED
    BY <1>2, <1>3, <1>4, <2>1, <2>3, <2>4, <2>2
<1>6. CASE ParseParenthesized
  <2>1. /\ control.fn = "parse_binary_expression" /\ control'.node = NoNode
        /\ nodes' = Append(nodes, Matched("OPEN_PARENTHESIS_TOKEN"))
        /\ stack' = Append(stack, Suspend("PARENTHESIZED_EXPRESSION", << n + 1 >>, control.parent))
    BY <1>1, <1>6 DEF ParseParenthesized, ParsesPrimary, Run
  <2>2. Copies(Matched("OPEN_PARENTHESIS_TOKEN"), position, position')
    BY <1>6, CopiesNext DEF ParseParenthesized
  <2>3. "OPEN_PARENTHESIS_TOKEN" \in LeafKinds
    BY DEF LeafKinds, TokenKinds, FixedTextKinds, ParenthesisKinds
  <2>4. IsLeaf(Matched("OPEN_PARENTHESIS_TOKEN")) /\ control.parent \in Precedences
    BY <2>1, <2>3, LeavesAreLeaves, Reading
  <2>5. Result = <<>>
    BY <2>1, Owning DEF HasResult
  <2> QED
    BY <1>2, <1>3, <1>4, <2>1, <2>4, <2>5, <2>2
<1>7. CASE ParseBinaryRight
  <2>1. /\ control.fn = "parse_binary_expression_loop" /\ control'.node = NoNode
        /\ nodes' = Append(nodes, Leaf(position + 1))
        /\ stack' = Append(stack, Suspend("BINARY_EXPRESSION", << control.node, n + 1 >>, control.parent))
    BY <1>1, <1>7 DEF ParseBinaryRight, Run
  <2>2. Copies(Leaf(position + 1), position, position')
    BY <1>7, CopiesNext DEF ParseBinaryRight
  <2>3. IsLeaf(Leaf(position + 1)) /\ control.parent \in Precedences
    BY <2>1, LeavesAreLeaves, Reading
  <2>4. PICK left \in Nat : left = control.node /\ Result = << left >>
    BY <2>1, Owning DEF HasResult
  <2>5. PICK held : held = << left, n + 1 >>
    OBVIOUS
  <2>6. held = Append(Result, n + 1) /\ held \in Seq(Nat)
    BY <2>4, <2>5
  <2> QED
    BY <1>2, <1>4, <2>1, <2>3, <2>4, <2>5, <2>6, <2>2
<1> QED
  BY <1>5, <1>6, <1>7

\* An inner node over the result and a last leaf.
LEMMA PickAndBuild ==
  ASSUME NEW heap, NEW calls, NEW result, NEW p \in Nat, Holds(heap, calls, result, p),
         NEW leaf, IsLeaf(leaf), NEW q, Copies(leaf, p, q), NEW kind \in NodeKinds,
         NEW kids, kids = Append(result, Len(heap) + 1),
         NEW new, new = heap \o << leaf, Inner(kind, kids) >>
  PROVE  Holds(new, calls, << Len(heap) + 2 >>, q)
<1>1. PICK half : half = Append(heap, leaf)
  OBVIOUS
<1>2. Holds(half, calls, kids, q) /\ q \in Nat
  <2>1. Holds(half, calls, kids, q)
    BY <1>1, PickHolds
  <2>2. q \in Nat
    BY DEF Copies
  <2> QED
    BY <2>1, <2>2
<1>3. PICK node : node = Inner(kind, kids)
  OBVIOUS
<1>4. PICK whole : whole = Append(half, node)
  OBVIOUS
<1>5. /\ node \in Node /\ node.kids = kids /\ kids # <<>>
      /\ leaf \in Node /\ heap \in Seq(Node)
  <2>1. kids \in Seq(Nat)
    BY <1>2 DEF Holds, Owned
  <2>2. node \in Node
    BY <1>3, <2>1, Constructors
  <2>3. kids # <<>>
    <3>1. PICK n \in Nat : n = Len(heap) + 1
      BY DEF Holds, Owned
    <3> QED
      BY <3>1 DEF Holds, Owned
  <2> QED
    BY <1>3, <2>2, <2>3 DEF Inner, Holds, Owned, IsLeaf
<1>6. Holds(whole, calls, << Len(half) + 1 >>, q)
  BY <1>2, <1>4, <1>5, BuildHolds
<1>7. Len(half) + 1 = Len(heap) + 2
  <2>1. Len(half) = Len(heap) + 1 /\ Len(heap) \in Nat
    BY <1>1, <1>5, PushOne
  <2> QED
    BY <2>1
<1>8. whole = new
  BY <1>1, <1>3, <1>4, <1>5, AppendTwice
<1> QED
  BY <1>6, <1>7, <1>8

LEMMA PrimaryAccounted ==
  IInv /\ TreeShape /\ Accounted /\ (ParseBooleanLiteral \/ ParseNumberLiteral \/ ParseName)
     => Accounted'
<1> SUFFICES ASSUME IInv, TreeShape, Accounted,
                    ParseBooleanLiteral \/ ParseNumberLiteral \/ ParseName
             PROVE  Accounted'
  OBVIOUS
<1>1. PICK kind \in LeafKinds, expression \in { "LITERAL_EXPRESSION", "NAME_EXPRESSION" } :
         ParseSingle(expression, kind)
  <2>1. {"NUMBER_TOKEN", "IDENTIFIER_TOKEN"} \cup KeywordKinds \subseteq LeafKinds
    BY DEF LeafKinds, TokenKinds, FixedTextKinds, KeywordKinds
  <2> QED
    BY <2>1 DEF ParseBooleanLiteral, ParseNumberLiteral, ParseName
<1>2. control.fn = "parse_binary_expression"
  BY DEF ParseBooleanLiteral, ParseNumberLiteral, ParseName, ParsesPrimary
<1>3. PICK n \in Nat : n = Len(nodes)
  BY Owning
<1>4. /\ nodes' = nodes \o << Matched(kind), Inner(expression, << n + 1 >>) >>
      /\ control'.node = n + 2 /\ stack' = stack
  BY <1>1, <1>3 DEF ParseSingle, Run
<1>5. Result = <<>>
  BY <1>2, Owning DEF HasResult
<1>6. PICK leaf : leaf = Matched(kind) /\ IsLeaf(leaf)
  BY <1>2, LeavesAreLeaves
<1>7. PICK kids : kids = << n + 1 >>
  OBVIOUS
<1>8. kids = Append(Result, Len(nodes) + 1)
  BY <1>3, <1>5, <1>7
<1>9. PICK heap : heap = nodes \o << leaf, Inner(expression, kids) >>
  OBVIOUS
<1>10. expression \in NodeKinds
  BY DEF NodeKinds, ExpressionKinds
<1>11. PICK q : q = position' /\ Copies(leaf, position, q)
  BY <1>1, <1>6, CopiesNext DEF ParseSingle
<1>12. Holds(heap, stack, << n + 2 >>, q)
  BY <1>3, <1>6, <1>8, <1>9, <1>10, <1>11, Owning, PickAndBuild
<1>13. heap = nodes'
  BY <1>4, <1>6, <1>7, <1>9
<1>14. Result' = << n + 2 >>
  BY <1>4, ResultNext
<1> QED
  BY <1>4, <1>12, <1>13, <1>14, <1>11, AccountedStep

\* Back in the suspended call, with what it held and its callee's result.
LEMMA Resumed ==
  ASSUME IInv, TreeShape, Accounted, control.fn = "return"
  PROVE  Holds(nodes, Pop, Append(Top.held, control.node), position)
<1>1. stack # <<>>
  BY DEF IInv, StackShape
<1>2. PICK held \in Seq(Nat) : held = Top.held
  BY HeldKids
<1>3. PICK node \in Nat : node = control.node /\ Result = << node >>
  BY Owning DEF HasResult
<1>4. PICK got : got = Append(held, node)
  OBVIOUS
<1>5. got = Append(stack[Len(stack)].held, node)
  BY <1>2, <1>4 DEF Top
<1>6. PICK popped : popped = SubSeq(stack, 1, Len(stack) - 1)
  OBVIOUS
<1>7. Holds(nodes, popped, got, position)
  BY <1>1, <1>3, <1>5, <1>6, Owning, ResumeHolds
<1> QED
  BY <1>2, <1>3, <1>4, <1>6, <1>7 DEF Pop

LEMMA FinishAccounted ==
  IInv /\ TreeShape /\ Accounted /\ (FinishOperator \/ FinishAssignment) => Accounted'
<1> SUFFICES ASSUME IInv, TreeShape, Accounted, FinishOperator \/ FinishAssignment
             PROVE  Accounted'
  OBVIOUS
<1>1. PICK n \in Nat : n = Len(nodes)
  BY Owning
<1>2. PICK building \in NodeKinds :
         /\ control.fn = "return"
         /\ nodes' = Append(nodes, Inner(building, Append(Top.held, control.node)))
         /\ control'.node = n + 1 /\ stack' = Pop /\ position' = position
  BY <1>1 DEF FinishOperator, FinishAssignment, Returning, Run, NodeKinds, ExpressionKinds
<1>3. PICK kids : kids = Append(Top.held, control.node)
  OBVIOUS
<1>4. PICK calls : calls = Pop
  OBVIOUS
<1>5. Holds(nodes, calls, kids, position)
  BY <1>2, <1>3, <1>4, Resumed
<1>6. PICK node : node = Inner(building, kids)
  OBVIOUS
<1>7. node \in Node /\ node.kids = kids /\ kids # <<>>
  <2>1. kids \in Seq(Nat)
    BY <1>5 DEF Holds, Owned
  <2>2. node \in Node
    BY <1>6, <2>1, Constructors
  <2>3. kids # <<>>
    <3>1. Top.held \in Seq(Nat)
      BY <1>2, HeldKids
    <3> QED
      BY <1>3, <3>1
  <2> QED
    BY <1>6, <2>2, <2>3 DEF Inner
<1>8. PICK heap : heap = Append(nodes, node)
  OBVIOUS
<1>9. Holds(heap, calls, << n + 1 >>, position)
  BY <1>1, <1>5, <1>8, <1>7, Owning, BuildHolds
<1>10. Result' = << n + 1 >>
  BY <1>2, ResultNext
<1>11. heap = nodes'
  BY <1>2, <1>3, <1>6, <1>8
<1> QED
  BY <1>2, <1>4, <1>9, <1>10, <1>11, AccountedStep

LEMMA FinishWithAccounted ==
  IInv /\ TreeShape /\ Accounted /\ (FinishParenthesized \/ FinishCompilationUnit)
     => Accounted'
<1> SUFFICES ASSUME IInv, TreeShape, Accounted, FinishParenthesized \/ FinishCompilationUnit
             PROVE  Accounted'
  OBVIOUS
<1>1. PICK building \in NodeKinds, closing \in LeafKinds : \E next : FinishWith(building, closing, next)
  <2>1. "CLOSE_PARENTHESIS_TOKEN" \in LeafKinds /\ EOF \in LeafKinds
    BY DEF LeafKinds, TokenKinds, FixedTextKinds, ParenthesisKinds, EOF
  <2>2. "PARENTHESIZED_EXPRESSION" \in NodeKinds /\ "COMPILATION_UNIT" \in NodeKinds
    BY DEF NodeKinds, ExpressionKinds
  <2> QED
    BY <2>1, <2>2 DEF FinishParenthesized, FinishCompilationUnit
<1>2. PICK n \in Nat : n = Len(nodes)
  BY Owning
<1>3. /\ control.fn = "return" /\ stack' = Pop /\ control'.node = n + 2
      /\ nodes' = nodes \o << Matched(closing),
                              Inner(building, Top.held \o << control.node, n + 1 >>) >>
  BY <1>1, <1>2 DEF FinishWith, Returning, Run
<1>4. PICK calls : calls = Pop
  OBVIOUS
<1>5. PICK got : got = Append(Top.held, control.node)
  OBVIOUS
<1>6. Holds(nodes, calls, got, position)
  BY <1>3, <1>4, <1>5, Resumed
<1>7. PICK leaf : leaf = Matched(closing) /\ IsLeaf(leaf)
  BY <1>3, LeavesAreLeaves
<1>8. PICK kids : kids = Append(got, Len(nodes) + 1)
  OBVIOUS
<1>9. PICK heap : heap = nodes \o << leaf, Inner(building, kids) >>
  OBVIOUS
<1>10. PICK q : q = position' /\ Copies(leaf, position, q)
  BY <1>1, <1>7, CopiesNext DEF FinishWith
<1>11. Holds(heap, calls, << n + 2 >>, q)
  BY <1>2, <1>6, <1>7, <1>8, <1>9, <1>10, Owning, PickAndBuild
<1>12. kids = Top.held \o << control.node, n + 1 >>
  <2>1. PICK held \in Seq(Nat) : held = Top.held
    BY <1>3, HeldKids
  <2>2. PICK node \in Nat : node = control.node
    BY <1>3, Reading
  <2>3. PICK k \in Nat : k = n + 1
    OBVIOUS
  <2>4. held \o << node, k >> = Append(Append(held, node), k)
    BY AppendTwice
  <2> QED
    BY <1>2, <1>5, <1>8, <2>1, <2>2, <2>3, <2>4
<1>13. heap = nodes'
  BY <1>3, <1>7, <1>9, <1>12
<1>14. Result' = << n + 2 >>
  BY <1>3, ResultNext
<1> QED
  BY <1>3, <1>4, <1>11, <1>13, <1>14, <1>10, AccountedStep

LEMMA LexTokenAccounted ==
  IInv /\ TreeShape /\ Accounted /\ LexToken => Accounted'
<1> SUFFICES ASSUME IInv, TreeShape, Accounted, LexToken PROVE Accounted'
  OBVIOUS
<1>1. control.fn = "parser_new" /\ nodes' = nodes /\ stack = <<>> /\ position' = position
  BY DEF LexToken, IInv, StackShape
<1>2. Result = <<>> /\ control.node = NoNode
  BY <1>1, Owning DEF HasResult, TreeShape, ResultShape
<1>3. CASE stack' = stack /\ control' = control
  BY <1>1, <1>2, <1>3, Owning, NoResultNext, AccountedStep
<1>4. CASE stack' = << Suspend("COMPILATION_UNIT", <<>>, 0) >> /\ control'.node = NoNode
  <2>1. PICK frame : frame = Suspend("COMPILATION_UNIT", <<>>, 0)
    OBVIOUS
  <2>2. frame \in Frame /\ frame.held = <<>>
    <3>1. "COMPILATION_UNIT" \in NodeKinds /\ 0 \in Precedences /\ <<>> \in Seq(Nat)
      BY DEF NodeKinds, Precedences
    <3>2. Suspend("COMPILATION_UNIT", <<>>, 0) \in Frame
      BY <3>1, Constructors
    <3> QED
      BY <2>1, <3>2 DEF Suspend
  <2>3. PICK calls : calls = Append(stack, frame)
    OBVIOUS
  <2>4. Holds(nodes, calls, <<>>, position)
    BY <1>2, <2>2, <2>3, Owning, SuspendHolds
  <2>5. calls = stack'
    BY <1>1, <1>4, <2>1, <2>3
  <2> QED
    BY <1>1, <1>4, <2>4, <2>5, NoResultNext, AccountedStep
<1> QED
  BY <1>3, <1>4 DEF LexToken, Run

LEMMA AccountedKept == IInv /\ TreeShape /\ Accounted /\ [Next]_vars => Accounted'
<1> SUFFICES ASSUME IInv, TreeShape, Accounted, [Next]_vars PROVE Accounted'
  OBVIOUS
<1>1. CASE ParseNoAssignment
  <2>1. /\ control.fn = "parse_assignment_expression" /\ nodes' = nodes /\ stack' = stack
        /\ control'.node = NoNode /\ position' = position
    BY <1>1 DEF ParseNoAssignment, Run
  <2>2. Result = <<>>
    BY <2>1, Owning DEF HasResult
  <2> QED
    BY <2>1, <2>2, Owning, NoResultNext, AccountedStep
<1>2. CASE ReturnLeft \/ UNCHANGED vars
  <2>1. nodes' = nodes /\ stack' = stack /\ control'.node = control.node /\ position' = position
    BY <1>2 DEF ReturnLeft, Run, vars
  <2>2. Result' = Result
    BY <2>1 DEF Result
  <2> QED
    BY <2>1, <2>2, Owning, AccountedStep
<1> QED
  BY <1>1, <1>2, LexTokenAccounted, ParseAssignmentAccounted, RecursionAccounted, PrimaryAccounted, FinishAccounted,
     FinishWithAccounted DEF Next

--------------------------------------------------------------------------------
(* All of it.                                                                    *)

LEMMA InitTreeInv == Init => TreeInv
<1> SUFFICES ASSUME Init PROVE TreeInv
  OBVIOUS
<1>1. IInv /\ TreeShape /\ TreeCasts
  BY InitInvariant, InitTree, InitCast
<1>2. nodes = <<>> /\ stack = <<>> /\ diagnostics = <<>> /\ Result = <<>>
  BY DEF Init, Run, Result
<1>3. HolesAreReported
  <2>1. Holes(nodes) = {} /\ Unexpected(diagnostics) = {}
    BY <1>2 DEF Holes, Unexpected
  <2> QED
    BY <2>1 DEF HolesAreReported
<1>4. EachNodeOwnedOnce
  <2>1. PICK lists : lists = Lists(nodes, stack, Result)
    OBVIOUS
  <2>2. Lays(lists, nodes, stack, Result, 0, 0)
    BY <1>2, <2>1, ListsAre
  <2>3. DOMAIN lists = { 0 } /\ Len(lists[0]) = 0 /\ Len(nodes) = 0
    BY <1>2, <2>2 DEF Lays
  <2>4. Once(lists, 0)
    BY <2>3 DEF Once
  <2> QED
    BY <2>1, <2>3, <2>4 DEF EachNodeOwnedOnce
<1>5. TreeSpellsConsumedTokens
  <2>1. PICK calls \in Seq(Frame) : calls = <<>>
    <3>1. <<>> \in Seq(Frame)
      OBVIOUS
    <3> QED
      BY <3>1
  <2>2. PICK words : words = [ i \in 1..Len(calls) |-> Spelled(nodes, calls[i].held) ]
    OBVIOUS
  <2>3. words = <<>> /\ Len(words) = 0
    BY <2>1, <2>2
  <2>4. SpelledByCalls(nodes, stack) = <<>>
    BY <1>2, <2>1, <2>2, <2>3, FlattenNone DEF SpelledByCalls
  <2>5. <<>> \o <<>> = [ i \in 1..0 |-> i ]
    OBVIOUS
  <2>6. position = 0
    BY DEF Init
  <2> QED
    BY <1>2, <2>4, <2>5, <2>6, SpelledNone, SpelledByAllIs DEF TreeSpellsConsumedTokens
<1> QED
  BY <1>1, <1>3, <1>4, <1>5 DEF TreeInv

LEMMA TreeInvKept == TreeInv /\ [Next]_vars => TreeInv'
BY StepInvariant, TreeShapeKept, TreeCastsKept, HolesKept, AccountedKept DEF TreeInv, Accounted

\* Everything the trees are known for, for texts of any length: the invariant of the steps,
\* the shape that the order of the precedences gives, the casts, the reports, the owners,
\* the tokens.
THEOREM TreeInvariant == Spec => []TreeInv
BY InitTreeInv, TreeInvKept, PTL DEF Spec

\* Whatever the text, and whatever the depth of its parentheses and operators, the
\* loop of parse_binary_expression builds the tree the precedences ask for: tighter
\* operators below, equal ones to the left.
THEOREM PrecedenceShapesEveryTree == Spec => []PrecedenceShapesTree
<1>1. TreeInv => PrecedenceShapesTree
  BY DEF TreeInv, TreeShape, HeapShape, PrecedenceShapesTree, NodeIds
<1> QED
  BY <1>1, TreeInvariant, PTL

\* match_token manufactures exactly as many tokens as it reports, however many calls
\* recover from the same token.
THEOREM EveryHoleIsReported == Spec => []HolesAreReported
<1>1. TreeInv => HolesAreReported
  BY DEF TreeInv
<1> QED
  BY <1>1, TreeInvariant, PTL

\* No node is lost and none is shared between the suspended calls, the result and the
\* tree, at any depth of the recursion: expression_syntax_free of the root frees each
\* node once.
THEOREM EveryNodeIsOwnedOnce == Spec => []EachNodeOwnedOnce
<1>1. TreeInv => EachNodeOwnedOnce
  BY DEF TreeInv
<1> QED
  BY <1>1, TreeInvariant, PTL

\* Whatever the text, error recovery included: at every moment the leaves under all that
\* the parser points to read back as the consumed tokens in source order, none dropped,
\* repeated or moved.
THEOREM TreesSpellTheTokens == Spec => []TreeSpellsConsumedTokens
<1>1. TreeInv => TreeSpellsConsumedTokens
  BY DEF TreeInv
<1> QED
  BY <1>1, TreeInvariant, PTL

\* Whatever the text, and however match_token recovered from it: binder.c finds below each
\* node the kinds of nodes that it casts without looking, literals and assigned names have
\* tokens, and a text without a report has no number without a value.
THEOREM BinderCastsWhatIsThere == Spec => []TreeCasts
<1>1. TreeInv => TreeCasts
  BY DEF TreeInv
<1> QED
  BY <1>1, TreeInvariant, PTL

--------------------------------------------------------------------------------
(* The grammar.                                                                   *)

\* What a span derives from depends on the shorter ones alone.
AgreeBelow(length, f, g, n) == \A a, b \in 1..n : b - a < length => f[<< a, b >>] = g[<< a, b >>]

LEMMA ShorterSpans ==
  ASSUME NEW text, NEW n \in Nat, n = Len(text), NEW i \in 1..n, NEW j \in 1..n, NEW f, NEW g,
         AgreeBelow(j - i, f, g, n)
  PROVE  Symbols(text, f, i, j) = Symbols(text, g, i, j)
<1>1. IsP(text, f, i, j) <=> IsP(text, g, i, j)
  <2>1. ASSUME j > i + 2 PROVE f[<< i + 1, j - 1 >>] = g[<< i + 1, j - 1 >>]
    <3>1. i + 1 \in 1..n /\ j - 1 \in 1..n /\ (j - 1) - (i + 1) < j - i
      BY <2>1
    <3> QED
      BY <3>1 DEF AgreeBelow
  <2> QED
    BY <2>1 DEF IsP
<1>2. IsB(text, f, i, j) <=> IsB(text, g, i, j)
  <2>1. ASSUME j > i + 1 PROVE f[<< i + 1, j >>] = g[<< i + 1, j >>]
    <3>1. i + 1 \in 1..n /\ j - (i + 1) < j - i
      BY <2>1
    <3> QED
      BY <3>1 DEF AgreeBelow
  <2>2. ASSUME NEW k \in i + 1 .. j - 2
        PROVE  f[<< i, k >>] = g[<< i, k >>] /\ f[<< k + 1, j >>] = g[<< k + 1, j >>]
    <3>1. k \in 1..n /\ k + 1 \in 1..n /\ k - i < j - i /\ j - (k + 1) < j - i
      OBVIOUS
    <3> QED
      BY <3>1 DEF AgreeBelow
  <2> QED
    BY <1>1, <2>1, <2>2 DEF IsB
<1>3. IsA(text, f, i, j) <=> IsA(text, g, i, j)
  <2>1. ASSUME j > i + 2 PROVE f[<< i + 2, j >>] = g[<< i + 2, j >>]
    <3>1. i + 2 \in 1..n /\ j - (i + 2) < j - i
      BY <2>1
    <3> QED
      BY <3>1 DEF AgreeBelow
  <2> QED
    BY <1>2, <2>1 DEF IsA
<1> QED
  BY <1>2, <1>3 DEF Symbols

\* The recursive function of Derivations, for the spans shorter than m - Len(text).
Rules(f, text, m) ==
    \A i, j \in 1..Len(text) : (j + Len(text)) - i < m => f[<< i, j >>] = Symbols(text, f, i, j)

LEMMA RulesExist ==
  ASSUME NEW text, NEW n \in Nat, n = Len(text)
  PROVE  \E f : Rules(f, text, n + n)
<1> DEFINE T == { m \in 0..n + n : ~\E f : Rules(f, text, m) }
<1>1. T = {}
  <2> SUFFICES ASSUME T # {} PROVE FALSE
    OBVIOUS
  <2>1. PICK m \in T : \A other \in T : m <= other
    <3>1. T \subseteq Nat
      OBVIOUS
    <3> QED
      BY <3>1, LeastElement
  <2> HIDE DEF T
  <2>2. m \in 0..n + n /\ ~\E f : Rules(f, text, m)
    BY <2>1 DEF T
  <2>3. CASE m = 0
    <3>1. \A i, j \in 1..n : ~((j + n) - i < 0)
      OBVIOUS
    <3>2. Rules(<<>>, text, 0)
      BY <3>1 DEF Rules
    <3> QED
      BY <2>2, <2>3, <3>2
  <2>4. CASE m # 0
    <3>1. PICK l \in 0..n + n : m = l + 1
      BY <2>2, <2>4
    <3>2. l \notin T
      BY <2>1, <3>1
    <3>3. PICK f : Rules(f, text, l)
      BY <3>1, <3>2 DEF T
    <3>4. PICK g : g = [ span \in (1..n) \X (1..n) |-> Symbols(text, f, span[1], span[2]) ]
      OBVIOUS
    <3>5. \A i, j \in 1..n : g[<< i, j >>] = Symbols(text, f, i, j)
      BY <3>4
    <3>6. ASSUME NEW i \in 1..n, NEW j \in 1..n, (j + n) - i < m
          PROVE  g[<< i, j >>] = Symbols(text, g, i, j)
      <4>1. \A a, b \in 1..n : b - a < j - i => (b + n) - a < l
        BY <3>1, <3>6
      <4>2. AgreeBelow(j - i, f, g, n)
        BY <3>3, <3>5, <4>1 DEF Rules, AgreeBelow
      <4>3. Symbols(text, f, i, j) = Symbols(text, g, i, j)
        BY <4>2, ShorterSpans
      <4> QED
        BY <3>5, <4>3
    <3>7. Rules(g, text, m)
      BY <3>6 DEF Rules
    <3> QED
      BY <2>2, <3>7
  <2> QED
    BY <2>3, <2>4
<1>2. n + n \in 0..n + n
  OBVIOUS
<1> QED
  BY <1>1, <1>2

LEMMA DerivationsAre ==
  ASSUME NEW text, NEW n \in Nat, n = Len(text), NEW i \in 1..n, NEW j \in 1..n
  PROVE  Derivations(text)[<< i, j >>] = Symbols(text, Derivations(text), i, j)
<1> DEFINE Is(f) == f = [ span \in (1..n) \X (1..n) |-> Symbols(text, f, span[1], span[2]) ]
<1>1. \E f : Is(f)
  <2>1. PICK f : Rules(f, text, n + n)
    BY RulesExist
  <2>2. PICK g : g = [ span \in (1..n) \X (1..n) |-> Symbols(text, f, span[1], span[2]) ]
    OBVIOUS
  <2>3. \A a, b \in 1..n : g[<< a, b >>] = Symbols(text, f, a, b)
    BY <2>2
  <2>4. \A a, b \in 1..n : (b + n) - a < n + n
    OBVIOUS
  <2>5. ASSUME NEW a \in 1..n, NEW b \in 1..n PROVE f[<< a, b >>] = g[<< a, b >>]
    <3>1. f[<< a, b >>] = Symbols(text, f, a, b)
      BY <2>1, <2>4 DEF Rules
    <3>2. g[<< a, b >>] = Symbols(text, f, a, b)
      BY <2>3
    <3> QED
      BY <3>1, <3>2
  <2>6. ASSUME NEW a \in 1..n, NEW b \in 1..n PROVE Symbols(text, f, a, b) = Symbols(text, g, a, b)
    <3>1. AgreeBelow(b - a, f, g, n)
      BY <2>5 DEF AgreeBelow
    <3> QED
      BY <3>1, ShorterSpans
  <2>7. \A span \in (1..n) \X (1..n) : g[span] = Symbols(text, g, span[1], span[2])
    BY <2>2, <2>6
  <2>8. Is(g)
    <3>1. g = [ span \in (1..n) \X (1..n) |-> g[span] ]
      BY <2>2
    <3>2. [ span \in (1..n) \X (1..n) |-> g[span] ]
            = [ span \in (1..n) \X (1..n) |-> Symbols(text, g, span[1], span[2]) ]
      BY <2>7
    <3> QED
      BY <3>1, <3>2
  <2> QED
    BY <2>8
<1> DEFINE D == CHOOSE f : f = [ span \in (1..n) \X (1..n) |-> Symbols(text, f, span[1], span[2]) ]
<1>2. Is(D)
  BY <1>1
<1>3. Derivations(text) = D
  BY DEF Derivations
<1>4. D[<< i, j >>] = Symbols(text, D, i, j)
  <2> HIDE DEF D
  <2>1. << i, j >> \in (1..n) \X (1..n) /\ << i, j >>[1] = i /\ << i, j >>[2] = j
    OBVIOUS
  <2> QED
    BY <1>2, <2>1
<1> QED
  BY <1>3, <1>4

LEMMA DerivesIff ==
  ASSUME NEW text, NEW n \in Nat, n = Len(text), NEW i \in 1..n, NEW j \in 1..n,
         NEW D, D = Derivations(text)
  PROVE  /\ ("A" \in D[<< i, j >>]) <=> IsA(text, D, i, j)
         /\ ("B" \in D[<< i, j >>]) <=> IsB(text, D, i, j)
<1>1. D[<< i, j >>] = Symbols(text, D, i, j)
  BY DerivationsAre
<1> QED
  BY <1>1 DEF Symbols

--------------------------------------------------------------------------------
(* A tree without a hole is a derivation of the tokens it spells.                 *)

Span(a, b) == [ k \in 1..b - a |-> (a + k) - 1 ]

Place(word, a, b) == word = Span(a, b)
Joins(word, x, y) == word = x \o y
Cut(a, b, c, x, y) == a <= c /\ c <= b /\ Place(x, a, c) /\ Place(y, c, b)

LEMMA SpanSplits ==
  ASSUME NEW a \in Nat, NEW b \in Nat, a <= b, NEW x \in Seq(Nat), NEW y \in Seq(Nat),
         x \o y = Span(a, b)
  PROVE  \E c \in a..b : Cut(a, b, c, x, y)
<1>1. PICK l, m \in Nat : l = Len(x) /\ m = Len(y)
  OBVIOUS
<1>2. Len(x \o y) = l + m /\ Len(Span(a, b)) = b - a
  BY <1>1 DEF Span
<1>3. l + m = b - a
  BY <1>2
<1>4. PICK c \in a..b : c = a + l
  BY <1>1, <1>3
<1>5. c - a = l /\ b - c = m
  BY <1>1, <1>3, <1>4
<1>6. ASSUME NEW k \in 1..l PROVE x[k] = (a + k) - 1
  <2>1. (x \o y)[k] = x[k] /\ k \in 1..b - a
    BY <1>1, <1>3
  <2>2. Span(a, b)[k] = (a + k) - 1
    BY <2>1 DEF Span
  <2> QED
    BY <2>1, <2>2
<1>7. ASSUME NEW k \in 1..m PROVE y[k] = (c + k) - 1
  <2>1. (x \o y)[l + k] = y[k] /\ l + k \in 1..b - a
    BY <1>1, <1>3
  <2>2. Span(a, b)[l + k] = (a + (l + k)) - 1
    BY <2>1 DEF Span
  <2>3. (a + (l + k)) - 1 = (c + k) - 1
    BY <1>1, <1>4
  <2> QED
    BY <2>1, <2>2, <2>3
<1>8. x = [ k \in 1..l |-> x[k] ] /\ y = [ k \in 1..m |-> y[k] ]
  BY <1>1
<1>9. x = Span(a, c)
  BY <1>5, <1>6, <1>8 DEF Span
<1>10. y = Span(c, b)
  BY <1>5, <1>7, <1>8 DEF Span
<1>11. Cut(a, b, c, x, y)
  BY <1>4, <1>9, <1>10 DEF Cut, Place
<1> QED
  BY <1>4, <1>11

LEMMA CutPlace ==
  ASSUME NEW a \in Nat, NEW b \in Nat, a <= b, NEW x \in Seq(Nat), NEW y \in Seq(Nat),
         NEW word, Joins(word, x, y), Place(word, a, b)
  PROVE  \E c \in a..b : Cut(a, b, c, x, y)
<1>1. x \o y = Span(a, b)
  BY DEF Joins, Place
<1> QED
  BY <1>1, SpanSplits

LEMMA SpanOfOne ==
  ASSUME NEW a \in Nat, NEW b \in Nat, a <= b, NEW t \in Nat, << t >> = Span(a, b)
  PROVE  b = a + 1 /\ t = a
<1>1. PICK x : x = << t >> /\ Len(x) = 1 /\ x[1] = t
  OBVIOUS
<1>2. PICK y : y = Span(a, b) /\ Len(y) = b - a /\ \A k \in 1..b - a : y[k] = (a + k) - 1
  <2>1. PICK m \in Nat : m = b - a
    OBVIOUS
  <2>2. PICK y : y = [ k \in 1..m |-> (a + k) - 1 ]
    OBVIOUS
  <2>3. Len(y) = m /\ \A k \in 1..m : y[k] = (a + k) - 1
    BY <2>2
  <2> QED
    BY <2>1, <2>2, <2>3 DEF Span
<1>3. x = y
  BY <1>1, <1>2
<1>4. b - a = 1
  BY <1>1, <1>2, <1>3
<1>5. b = a + 1 /\ 1 \in 1..b - a /\ (a + 1) - 1 = a
  BY <1>4
<1>6. y[1] = a
  BY <1>2, <1>5
<1> QED
  BY <1>1, <1>3, <1>5, <1>6

LEMMA PlaceOfOne ==
  ASSUME NEW a \in Nat, NEW b \in Nat, a <= b, NEW t \in Nat, Place(<< t >>, a, b)
  PROVE  b = a + 1 /\ t = a
<1>1. << t >> = Span(a, b)
  BY DEF Place
<1> QED
  BY <1>1, SpanOfOne

\* A tree as the parser leaves it for a text it has nothing to say about.
Finished(heap, text) ==
    heap \in Seq(Node) /\ HeapShape(heap) /\ NodesCast(heap, text) /\ Whole(heap)

LEMMA FinishedHeap ==
  ASSUME NEW heap, NEW text, Finished(heap, text)
  PROVE  /\ Len(heap) \in Nat /\ Older(heap)
         /\ \A n \in 1..Len(heap) :
              /\ Spelling(heap)[n] = Word(Spelling(heap), heap[n]) /\ Spelling(heap)[n] \in Seq(Nat)
              /\ heap[n].kids \in Seq(Nat) /\ heap[n].token \in Nat
<1>1. heap \in Seq(Node) /\ Len(heap) \in Nat
  BY DEF Finished
<1>2. Older(heap)
  BY DEF Finished, HeapShape, WellBuilt, Older
<1>3. \A n \in 1..Len(heap) : heap[n] \in Node
  BY <1>1
<1>4. \A n \in 1..Len(heap) : heap[n].kids \in Seq(Nat) /\ heap[n].token \in Nat
  BY <1>3 DEF Node
<1>5. \A n \in 1..Len(heap) : Spelling(heap)[n] = Word(Spelling(heap), heap[n])
  BY <1>1, <1>2, WordsAre
<1>6. \A n \in 1..Len(heap) : Spelling(heap)[n] \in Seq(Nat)
  BY <1>1, <1>2, WordsTyped
<1> QED
  BY <1>1, <1>2, <1>4, <1>5, <1>6

LEMMA LeafWord ==
  ASSUME NEW heap, NEW text, Finished(heap, text), NEW m \in 1..Len(heap), heap[m].kind \in LeafKinds
  PROVE  \E t \in 1..Len(text) : Spelling(heap)[m] = << t >> /\ text[t].kind = heap[m].kind
<1>1. heap[m].token # 0 /\ Copy(heap[m], text)
  BY DEF Finished, Whole, NodesCast
<1>2. heap[m].kids = <<>>
  <2>1. heap[m].kind \notin ExpressionKinds \cup { "COMPILATION_UNIT" }
    BY LeafOrInner DEF NodeKinds
  <2>2. Arity(heap[m].kind) = 0
    BY <2>1 DEF Arity, ExpressionKinds
  <2>3. Len(heap[m].kids) = 0
    BY <2>2 DEF Finished, HeapShape, WellBuilt
  <2>4. heap[m].kids \in Seq(Nat)
    BY FinishedHeap
  <2> QED
    BY <2>3, <2>4, EmptySeq
<1>3. Spelling(heap)[m] = << heap[m].token >>
  BY <1>1, <1>2, FinishedHeap DEF Word
<1> QED
  BY <1>1, <1>3 DEF Copy

\* The word of a node is that of its kids.
KidsSpell(f, n, kids, arity) ==
    /\ arity = 1 => f[n] = f[kids[1]]
    /\ arity = 2 => f[n] = f[kids[1]] \o f[kids[2]]
    /\ arity = 3 => f[n] = (f[kids[1]] \o f[kids[2]]) \o f[kids[3]]

LEMMA WordOfKids ==
  ASSUME NEW heap, NEW text, Finished(heap, text), NEW n \in 1..Len(heap),
         NEW kids, kids = heap[n].kids, NEW f, f = Spelling(heap), NEW a, a = Arity(heap[n].kind)
  PROVE  /\ \A k \in 1..a : kids[k] \in 1..n - 1 /\ kids[k] \in 1..Len(heap)
         /\ KidsSpell(f, n, kids, a)
<1>1. WellBuilt(heap, n) /\ Len(heap) \in Nat
  BY FinishedHeap DEF Finished, HeapShape
<1>2. Len(kids) = a /\ (\A k \in 1..a : kids[k] \in 1..n - 1) /\ kids \in Seq(Nat)
  BY <1>1, FinishedHeap DEF WellBuilt
<1>3. \A k \in 1..a : kids[k] \in 1..Len(heap)
  BY <1>1, <1>2
<1>4. heap \in Seq(Node) /\ Older(heap)
  BY FinishedHeap DEF Finished
<1>5. ASSUME a \in { 1, 2, 3 } PROVE f[n] = Spelled(heap, kids)
  <2>1. kids # <<>>
    BY <1>2, <1>5
  <2> QED
    BY <2>1, FinishedHeap DEF Word, Spelled
<1>6. ASSUME a = 1 PROVE f[n] = f[kids[1]]
  <2>1. PICK p : p = kids[1] /\ p \in 1..Len(heap)
    BY <1>3, <1>6
  <2>2. kids = << p >>
    BY <1>2, <1>6, <2>1
  <2> QED
    BY <1>4, <1>5, <1>6, <2>1, <2>2, SpelledOne
<1>7. ASSUME a = 2 PROVE f[n] = f[kids[1]] \o f[kids[2]]
  <2>1. PICK p, q : p = kids[1] /\ q = kids[2] /\ p \in 1..Len(heap) /\ q \in 1..Len(heap)
    BY <1>3, <1>7
  <2>2. PICK one \in Seq(Nat) : one = << p >> /\ Within(one, Len(heap))
    <3>1. << p >> \in Seq(Nat) /\ Len(<< p >>) = 1 /\ << p >>[1] = p
      BY <2>1
    <3>2. \A k \in 1..1 : << p >>[k] \in 1..Len(heap)
      BY <2>1, <3>1
    <3> QED
      BY <3>1, <3>2 DEF Within
  <2>3. kids = Append(one, q)
    BY <1>2, <1>7, <2>1, <2>2
  <2>4. Spelled(heap, kids) = Spelled(heap, one) \o f[q]
    BY <1>4, <2>1, <2>2, <2>3, SpelledAppend
  <2>5. Spelled(heap, one) = f[p]
    BY <1>4, <2>1, <2>2, SpelledOne
  <2> QED
    BY <1>5, <1>7, <2>1, <2>4, <2>5
<1>8. ASSUME a = 3 PROVE f[n] = (f[kids[1]] \o f[kids[2]]) \o f[kids[3]]
  <2>1. PICK p, q, r : /\ p = kids[1] /\ q = kids[2] /\ r = kids[3]
                       /\ p \in 1..Len(heap) /\ q \in 1..Len(heap) /\ r \in 1..Len(heap)
    BY <1>3, <1>8
  <2>2. PICK one \in Seq(Nat) : one = << p >> /\ Within(one, Len(heap))
    <3>1. << p >> \in Seq(Nat) /\ Len(<< p >>) = 1 /\ << p >>[1] = p
      BY <2>1
    <3>2. \A k \in 1..1 : << p >>[k] \in 1..Len(heap)
      BY <2>1, <3>1
    <3> QED
      BY <3>1, <3>2 DEF Within
  <2>3. PICK two : two = Append(one, q)
    OBVIOUS
  <2>4. /\ two \in Seq(Nat) /\ Within(two, Len(heap))
        /\ Spelled(heap, two) = Spelled(heap, one) \o f[q]
    BY <1>4, <2>1, <2>2, <2>3, SpelledAppend
  <2>5. kids = Append(two, r)
    BY <1>2, <1>8, <2>1, <2>2, <2>3
  <2>6. Spelled(heap, kids) = Spelled(heap, two) \o f[r]
    BY <1>4, <2>1, <2>4, <2>5, SpelledAppend
  <2>7. Spelled(heap, one) = f[p]
    BY <1>4, <2>1, <2>2, SpelledOne
  <2> QED
    BY <1>5, <1>8, <2>1, <2>4, <2>6, <2>7
<1> QED
  BY <1>2, <1>3, <1>6, <1>7, <1>8 DEF KidsSpell

\* Wherever in the text a word is, it derives from these symbols.
Derived(word, text, symbols) ==
    /\ word \in Seq(Nat) /\ word # <<>>
    /\ \A a, b \in 1..Len(text) : a <= b /\ Place(word, a, b) => symbols \subseteq Derivations(text)[<< a, b >>]

\* A place of it, split where the word is.
LEMMA SplitPlace ==
  ASSUME NEW text, Len(text) \in Nat, NEW a \in 1..Len(text), NEW b \in 1..Len(text), a <= b,
         NEW x \in Seq(Nat), NEW y \in Seq(Nat), NEW word, Joins(word, x, y), Place(word, a, b)
  PROVE  \E c \in 1..Len(text) : Cut(a, b, c, x, y)
<1>1. a \in Nat /\ b \in Nat
  OBVIOUS
<1>2. PICK c \in a..b : Cut(a, b, c, x, y)
  BY <1>1, CutPlace
<1>3. c \in 1..Len(text)
  BY <1>1
<1> QED
  BY <1>2, <1>3

LEMMA JoinWords ==
  ASSUME NEW x \in Seq(Nat), NEW y \in Seq(Nat), NEW xy, Joins(xy, x, y)
  PROVE  xy \in Seq(Nat) /\ (x # <<>> \/ y # <<>> => xy # <<>>)
<1>1. xy \in Seq(Nat) /\ Len(xy) = Len(x) + Len(y)
  BY DEF Joins
<1>2. Len(x) \in Nat /\ Len(y) \in Nat
  OBVIOUS
<1>3. xy = <<>> => Len(x) = 0 /\ Len(y) = 0
  BY <1>1, <1>2
<1> QED
  BY <1>1, <1>3, EmptySeq

LEMMA NotEmpty ==
  ASSUME NEW word \in Seq(Nat), word # <<>>, NEW a \in Nat, NEW b \in Nat, a <= b, Place(word, a, b)
  PROVE  a < b
<1>1. Len(word) # 0
  BY EmptySeq
<1>2. PICK m \in Nat : m = b - a
  OBVIOUS
<1>3. Len(word) = m
  BY <1>2 DEF Span, Place
<1> QED
  BY <1>1, <1>2, <1>3

LEMMA PrimaryDerived ==
  ASSUME NEW text, Len(text) \in Nat, NEW t \in 1..Len(text), NEW word, word = << t >>,
         text[t].kind \in KeywordKinds \cup { "IDENTIFIER_TOKEN", "NUMBER_TOKEN" }
  PROVE  Derived(word, text, { "A", "B" })
<1>1. t \in Nat /\ word \in Seq(Nat) /\ word # <<>>
  OBVIOUS
<1>2. ASSUME NEW a \in 1..Len(text), NEW b \in 1..Len(text), a <= b, Place(word, a, b)
      PROVE  { "A", "B" } \subseteq Derivations(text)[<< a, b >>]
  <2>1. b = a + 1 /\ t = a
    BY <1>1, <1>2, PlaceOfOne DEF Cut
  <2>2. PICK D : D = Derivations(text)
    OBVIOUS
  <2>3. IsP(text, D, a, b)
    BY <2>1 DEF IsP
  <2>4. IsB(text, D, a, b) /\ IsA(text, D, a, b)
    BY <2>3 DEF IsB, IsA
  <2> QED
    BY <2>2, <2>4, DerivesIff
<1> QED
  BY <1>1, <1>2 DEF Derived

LEMMA ParenthesizedDerived ==
  ASSUME NEW text, Len(text) \in Nat, NEW s \in 1..Len(text), NEW t \in 1..Len(text),
         text[s].kind = "OPEN_PARENTHESIS_TOKEN", text[t].kind = "CLOSE_PARENTHESIS_TOKEN",
         NEW x, x = << s >>, NEW z, z = << t >>, NEW y, Derived(y, text, { "A" })
  PROVE  Derived((x \o y) \o z, text, { "A", "B" })
<1>1. /\ s \in Nat /\ t \in Nat /\ x \in Seq(Nat) /\ z \in Seq(Nat) /\ y \in Seq(Nat)
      /\ x # <<>> /\ y # <<>>
  BY DEF Derived
<1>2. PICK xy : xy = x \o y /\ Joins(xy, x, y) /\ xy \in Seq(Nat) /\ xy # <<>>
  <2>1. Joins(x \o y, x, y)
    BY DEF Joins
  <2> QED
    BY <1>1, <2>1, JoinWords
<1>3. PICK word : word = xy \o z /\ Joins(word, xy, z) /\ word \in Seq(Nat) /\ word # <<>>
  <2>1. Joins(xy \o z, xy, z)
    BY DEF Joins
  <2> QED
    BY <1>1, <1>2, <2>1, JoinWords
<1>4. ASSUME NEW a \in 1..Len(text), NEW b \in 1..Len(text), a <= b, Place(word, a, b)
      PROVE  { "A", "B" } \subseteq Derivations(text)[<< a, b >>]
  <2>1. PICK d \in 1..Len(text) : Cut(a, b, d, xy, z)
    BY <1>1, <1>2, <1>3, <1>4, SplitPlace
  <2>2. PICK c \in 1..Len(text) : Cut(a, d, c, x, y)
    BY <1>1, <1>2, <2>1, SplitPlace DEF Cut
  <2>3. b = d + 1 /\ t = d
    <3>1. d \in Nat /\ b \in Nat /\ d <= b /\ Place(<< t >>, d, b)
      BY <1>1, <2>1 DEF Cut
    <3> QED
      BY <1>1, <3>1, PlaceOfOne
  <2>4. c = a + 1 /\ s = a
    <3>1. a \in Nat /\ c \in Nat /\ a <= c /\ Place(<< s >>, a, c)
      BY <1>1, <2>2 DEF Cut
    <3> QED
      BY <1>1, <3>1, PlaceOfOne
  <2>5. c < d
    BY <1>1, <2>2, NotEmpty DEF Cut
  <2>6. PICK D : D = Derivations(text)
    OBVIOUS
  <2>7. "A" \in D[<< c, d >>]
    BY <2>2, <2>6 DEF Derived, Cut
  <2>8. b > a + 2 /\ b - 1 = d
    BY <2>3, <2>4, <2>5
  <2>9. IsP(text, D, a, b)
    BY <2>3, <2>4, <2>7, <2>8 DEF IsP
  <2>10. IsB(text, D, a, b) /\ IsA(text, D, a, b)
    BY <2>9 DEF IsB, IsA
  <2> QED
    BY <2>6, <2>10, DerivesIff
<1>5. Derived(word, text, { "A", "B" })
  BY <1>3, <1>4 DEF Derived
<1> QED
  BY <1>2, <1>3, <1>5

LEMMA UnaryDerived ==
  ASSUME NEW text, Len(text) \in Nat, NEW t \in 1..Len(text), text[t].kind \in UnaryOperatorKinds,
         NEW x, x = << t >>, NEW y, Derived(y, text, { "A", "B" })
  PROVE  Derived(x \o y, text, { "A", "B" })
<1>1. t \in Nat /\ x \in Seq(Nat) /\ y \in Seq(Nat) /\ y # <<>>
  BY DEF Derived
<1>2. PICK word : word = x \o y /\ Joins(word, x, y) /\ word \in Seq(Nat) /\ word # <<>>
  <2>1. Joins(x \o y, x, y)
    BY DEF Joins
  <2> QED
    BY <1>1, <2>1, JoinWords
<1>3. ASSUME NEW a \in 1..Len(text), NEW b \in 1..Len(text), a <= b, Place(word, a, b)
      PROVE  { "A", "B" } \subseteq Derivations(text)[<< a, b >>]
  <2>1. PICK c \in 1..Len(text) : Cut(a, b, c, x, y)
    BY <1>1, <1>2, <1>3, SplitPlace
  <2>2. c = a + 1 /\ t = a
    BY <1>1, <2>1, PlaceOfOne DEF Cut
  <2>3. c < b
    BY <1>1, <2>1, NotEmpty DEF Cut
  <2>4. PICK D : D = Derivations(text)
    OBVIOUS
  <2>5. "B" \in D[<< c, b >>]
    BY <2>1, <2>4 DEF Derived, Cut
  <2>6. b > a + 1
    BY <2>2, <2>3
  <2>7. IsB(text, D, a, b)
    BY <2>2, <2>5, <2>6 DEF IsB
  <2>8. IsA(text, D, a, b)
    BY <2>7 DEF IsA
  <2> QED
    BY <2>4, <2>7, <2>8, DerivesIff
<1>4. Derived(word, text, { "A", "B" })
  BY <1>2, <1>3 DEF Derived
<1> QED
  BY <1>2, <1>4

LEMMA BinaryDerived ==
  ASSUME NEW text, Len(text) \in Nat, NEW t \in 1..Len(text), text[t].kind \in BinaryOperatorKinds,
         NEW x, Derived(x, text, { "A", "B" }), NEW y, y = << t >>, NEW z, Derived(z, text, { "A", "B" })
  PROVE  Derived((x \o y) \o z, text, { "A", "B" })
<1>1. t \in Nat /\ x \in Seq(Nat) /\ x # <<>> /\ z \in Seq(Nat) /\ z # <<>> /\ y \in Seq(Nat)
  BY DEF Derived
<1>2. PICK xy : xy = x \o y /\ Joins(xy, x, y) /\ xy \in Seq(Nat) /\ xy # <<>>
  <2>1. Joins(x \o y, x, y)
    BY DEF Joins
  <2> QED
    BY <1>1, <2>1, JoinWords
<1>3. PICK word : word = xy \o z /\ Joins(word, xy, z) /\ word \in Seq(Nat) /\ word # <<>>
  <2>1. Joins(xy \o z, xy, z)
    BY DEF Joins
  <2> QED
    BY <1>1, <1>2, <2>1, JoinWords
<1>4. ASSUME NEW a \in 1..Len(text), NEW b \in 1..Len(text), a <= b, Place(word, a, b)
      PROVE  { "A", "B" } \subseteq Derivations(text)[<< a, b >>]
  <2>1. PICK d \in 1..Len(text) : Cut(a, b, d, xy, z)
    BY <1>1, <1>2, <1>3, <1>4, SplitPlace
  <2>2. PICK c \in 1..Len(text) : Cut(a, d, c, x, y)
    BY <1>1, <1>2, <2>1, SplitPlace DEF Cut
  <2>3. d = c + 1 /\ t = c
    BY <1>1, <2>2, PlaceOfOne DEF Cut
  <2>4. a < c /\ d < b
    BY <1>1, <2>1, <2>2, NotEmpty DEF Cut
  <2>5. PICK D : D = Derivations(text)
    OBVIOUS
  <2>6. "B" \in D[<< a, c >>]
    BY <2>2, <2>5 DEF Derived, Cut
  <2>7. "B" \in D[<< c + 1, b >>]
    BY <2>1, <2>3, <2>5 DEF Derived, Cut
  <2>8. c \in a + 1 .. b - 2
    BY <2>3, <2>4
  <2>9. IsB(text, D, a, b)
    BY <2>3, <2>6, <2>7, <2>8 DEF IsB
  <2>10. IsA(text, D, a, b)
    BY <2>9 DEF IsA
  <2> QED
    BY <2>5, <2>9, <2>10, DerivesIff
<1>5. Derived(word, text, { "A", "B" })
  BY <1>3, <1>4 DEF Derived
<1> QED
  BY <1>2, <1>3, <1>5

LEMMA AssignmentDerived ==
  ASSUME NEW text, Len(text) \in Nat, NEW s \in 1..Len(text), NEW t \in 1..Len(text),
         text[s].kind = "IDENTIFIER_TOKEN", text[t].kind = "EQUALS_TOKEN",
         NEW x, x = << s >>, NEW y, y = << t >>, NEW z, Derived(z, text, { "A" })
  PROVE  Derived((x \o y) \o z, text, { "A" })
<1>1. /\ s \in Nat /\ t \in Nat /\ x \in Seq(Nat) /\ y \in Seq(Nat) /\ z \in Seq(Nat)
      /\ x # <<>> /\ z # <<>>
  BY DEF Derived
<1>2. PICK xy : xy = x \o y /\ Joins(xy, x, y) /\ xy \in Seq(Nat) /\ xy # <<>>
  <2>1. Joins(x \o y, x, y)
    BY DEF Joins
  <2> QED
    BY <1>1, <2>1, JoinWords
<1>3. PICK word : word = xy \o z /\ Joins(word, xy, z) /\ word \in Seq(Nat) /\ word # <<>>
  <2>1. Joins(xy \o z, xy, z)
    BY DEF Joins
  <2> QED
    BY <1>1, <1>2, <2>1, JoinWords
<1>4. ASSUME NEW a \in 1..Len(text), NEW b \in 1..Len(text), a <= b, Place(word, a, b)
      PROVE  { "A" } \subseteq Derivations(text)[<< a, b >>]
  <2>1. PICK d \in 1..Len(text) : Cut(a, b, d, xy, z)
    BY <1>1, <1>2, <1>3, <1>4, SplitPlace
  <2>2. PICK c \in 1..Len(text) : Cut(a, d, c, x, y)
    BY <1>1, <1>2, <2>1, SplitPlace DEF Cut
  <2>3. d = c + 1 /\ t = c
    BY <1>1, <2>2, PlaceOfOne DEF Cut
  <2>4. c = a + 1 /\ s = a
    BY <1>1, <2>2, PlaceOfOne DEF Cut
  <2>5. d < b
    BY <1>1, <2>1, NotEmpty DEF Cut
  <2>6. PICK D : D = Derivations(text)
    OBVIOUS
  <2>7. "A" \in D[<< d, b >>]
    BY <2>1, <2>6 DEF Derived, Cut
  <2>8. d = a + 2 /\ b > a + 2
    BY <2>3, <2>4, <2>5
  <2>9. IsA(text, D, a, b)
    BY <2>3, <2>4, <2>7, <2>8 DEF IsA
  <2> QED
    BY <2>6, <2>9, DerivesIff
<1>5. Derived(word, text, { "A" })
  BY <1>3, <1>4 DEF Derived
<1> QED
  BY <1>2, <1>3, <1>5

\* The symbols an expression of this kind derives from.
Labels(kind) == IF kind = "ASSIGNMENT_EXPRESSION" THEN { "A" } ELSE { "A", "B" }

LEMMA DerivedLess ==
  ASSUME NEW word, NEW text, NEW kind, Derived(word, text, Labels(kind))
  PROVE  Derived(word, text, { "A" })
BY DEF Derived, Labels

LEMMA OperandsAreNoAssignments ==
  ASSUME NEW heap, NEW text, Finished(heap, text), NEW n \in 1..Len(heap), NEW kids, kids = heap[n].kids
  PROVE  /\ heap[n].kind = "UNARY_EXPRESSION" => heap[kids[2]].kind # "ASSIGNMENT_EXPRESSION"
         /\ heap[n].kind = "BINARY_EXPRESSION" =>
              heap[kids[1]].kind # "ASSIGNMENT_EXPRESSION" /\ heap[kids[3]].kind # "ASSIGNMENT_EXPRESSION"
<1>1. Shaped(heap, n) /\ Casts(heap, heap[n].kind, kids)
  BY DEF Finished, HeapShape, NodesCast
<1>2. \A m : heap[m].kind = "ASSIGNMENT_EXPRESSION" => TopPrecedence(heap, m) = 0
  BY DEF TopPrecedence
<1>3. \A m : TopPrecedence(heap, m) \in 0..7
  BY TopLevels
<1>4. ASSUME heap[n].kind = "UNARY_EXPRESSION"
      PROVE  heap[kids[2]].kind # "ASSIGNMENT_EXPRESSION"
  <2>1. heap[kids[1]].kind \in UnaryOperatorKinds
    BY <1>1, <1>4 DEF Casts
  <2>2. TopPrecedence(heap, n) = UnaryOperatorPrecedence(heap[kids[1]].kind)
    BY <1>4 DEF TopPrecedence
  <2>3. TopPrecedence(heap, n) > 0
    BY <2>1, <2>2 DEF UnaryOperatorKinds
  <2>4. TopPrecedence(heap, kids[2]) >= TopPrecedence(heap, n)
    BY <1>1, <1>4 DEF Shaped
  <2>5. TopPrecedence(heap, kids[2]) # 0
    BY <1>3, <2>3, <2>4
  <2> QED
    BY <1>2, <2>5
<1>5. ASSUME heap[n].kind = "BINARY_EXPRESSION"
      PROVE  heap[kids[1]].kind # "ASSIGNMENT_EXPRESSION" /\ heap[kids[3]].kind # "ASSIGNMENT_EXPRESSION"
  <2>1. heap[kids[2]].kind \in BinaryOperatorKinds
    BY <1>1, <1>5 DEF Casts
  <2>2. TopPrecedence(heap, n) = BinaryOperatorPrecedence(heap[kids[2]].kind)
    BY <1>5 DEF TopPrecedence
  <2>3. TopPrecedence(heap, n) > 0
    BY <2>1, <2>2 DEF BinaryOperatorKinds
  <2>4. TopPrecedence(heap, kids[1]) >= TopPrecedence(heap, n)
        /\ TopPrecedence(heap, kids[3]) > TopPrecedence(heap, n)
    BY <1>1, <1>5 DEF Shaped
  <2>5. TopPrecedence(heap, kids[1]) # 0 /\ TopPrecedence(heap, kids[3]) # 0
    BY <1>3, <2>3, <2>4
  <2> QED
    BY <1>2, <2>5
<1> QED
  BY <1>4, <1>5

LEMMA OperatorsAreLeaves ==
  /\ UnaryOperatorKinds \subseteq LeafKinds /\ BinaryOperatorKinds \subseteq LeafKinds
  /\ KeywordKinds \cup { "NUMBER_TOKEN", "IDENTIFIER_TOKEN", "EQUALS_TOKEN", EOF,
                         "OPEN_PARENTHESIS_TOKEN", "CLOSE_PARENTHESIS_TOKEN" } \subseteq LeafKinds
<1>1. \A kind : UnaryOperatorPrecedence(kind) > 0 => kind \in LeafKinds
  BY DEF UnaryOperatorPrecedence, LeafKinds, TokenKinds, FixedTextKinds, OperatorKinds
<1>2. \A kind : BinaryOperatorPrecedence(kind) > 0 => kind \in LeafKinds
  BY DEF BinaryOperatorPrecedence, LeafKinds, TokenKinds, FixedTextKinds, OperatorKinds
<1>3. KeywordKinds \cup { "NUMBER_TOKEN", "IDENTIFIER_TOKEN", "EQUALS_TOKEN", EOF,
                          "OPEN_PARENTHESIS_TOKEN", "CLOSE_PARENTHESIS_TOKEN" } \subseteq LeafKinds
  BY DEF LeafKinds, TokenKinds, FixedTextKinds, OperatorKinds, KeywordKinds, ParenthesisKinds, EOF
<1> QED
  BY <1>1, <1>2, <1>3 DEF UnaryOperatorKinds, BinaryOperatorKinds

Sound(heap, text, n) ==
    heap[n].kind \in ExpressionKinds => Derived(Spelling(heap)[n], text, Labels(heap[n].kind))

LEMMA NodeSound ==
  ASSUME NEW heap, NEW text, Len(text) \in Nat, Finished(heap, text), NEW n \in 1..Len(heap),
         \A m \in 1..n - 1 : Sound(heap, text, m)
  PROVE  Sound(heap, text, n)
<1> SUFFICES ASSUME heap[n].kind \in ExpressionKinds
             PROVE  Derived(Spelling(heap)[n], text, Labels(heap[n].kind))
  BY DEF Sound
<1> DEFINE f == Spelling(heap)
           kids == heap[n].kids
           kind == heap[n].kind
<1>1. /\ \A k \in 1..Arity(kind) : kids[k] \in 1..n - 1 /\ kids[k] \in 1..Len(heap)
      /\ Arity(kind) = 1 => f[n] = f[kids[1]]
      /\ Arity(kind) = 2 => f[n] = f[kids[1]] \o f[kids[2]]
      /\ Arity(kind) = 3 => f[n] = (f[kids[1]] \o f[kids[2]]) \o f[kids[3]]
  <2>1. (\A k \in 1..Arity(kind) : kids[k] \in 1..n - 1 /\ kids[k] \in 1..Len(heap))
        /\ KidsSpell(f, n, kids, Arity(kind))
    BY WordOfKids
  <2> QED
    BY <2>1 DEF KidsSpell
<1>2. Casts(heap, kind, kids)
  BY DEF Finished, NodesCast
<1>3. \A k \in 1..Arity(kind) : IsExpression(heap, kids[k]) =>
          Derived(f[kids[k]], text, Labels(heap[kids[k]].kind)) /\ Derived(f[kids[k]], text, { "A" })
  BY <1>1, DerivedLess DEF Sound, IsExpression
<1>4. \A k \in 1..Arity(kind) : heap[kids[k]].kind \in LeafKinds =>
          \E t \in 1..Len(text) : f[kids[k]] = << t >> /\ text[t].kind = heap[kids[k]].kind
  <2> SUFFICES ASSUME NEW k \in 1..Arity(kind), heap[kids[k]].kind \in LeafKinds
               PROVE  \E t \in 1..Len(text) : f[kids[k]] = << t >> /\ text[t].kind = heap[kids[k]].kind
    OBVIOUS
  <2>1. PICK m \in 1..Len(heap) : m = kids[k]
    BY <1>1
  <2>2. \E t \in 1..Len(text) : Spelling(heap)[m] = << t >> /\ text[t].kind = heap[m].kind
    BY <2>1, LeafWord
  <2> QED
    BY <2>1, <2>2
<1>5. \A m : heap[m].kind # "ASSIGNMENT_EXPRESSION" => Labels(heap[m].kind) = { "A", "B" }
  BY DEF Labels
<1>6. CASE kind \in { "LITERAL_EXPRESSION", "NAME_EXPRESSION" }
  <2>1. Arity(kind) = 1 /\ 1 \in 1..Arity(kind) /\ Labels(kind) = { "A", "B" }
    BY <1>6 DEF Arity, Labels
  <2>2. heap[kids[1]].kind \in KeywordKinds \cup { "IDENTIFIER_TOKEN", "NUMBER_TOKEN" }
    BY <1>2, <1>6 DEF Casts
  <2>3. heap[kids[1]].kind \in LeafKinds
    BY <2>2, OperatorsAreLeaves
  <2>4. PICK t \in 1..Len(text) : f[kids[1]] = << t >> /\ text[t].kind = heap[kids[1]].kind
    BY <1>4, <2>1, <2>3
  <2>5. f[n] = << t >>
    BY <1>1, <2>1, <2>4
  <2>6. text[t].kind \in KeywordKinds \cup { "IDENTIFIER_TOKEN", "NUMBER_TOKEN" }
    BY <2>2, <2>4
  <2>7. Derived(f[n], text, { "A", "B" })
    BY <2>5, <2>6, PrimaryDerived
  <2> QED
    BY <2>1, <2>7
<1>7. CASE kind = "PARENTHESIZED_EXPRESSION"
  <2>1. /\ Arity(kind) = 3 /\ 1 \in 1..Arity(kind) /\ 2 \in 1..Arity(kind) /\ 3 \in 1..Arity(kind)
        /\ Labels(kind) = { "A", "B" }
    BY <1>7 DEF Arity, Labels
  <2>2. /\ heap[kids[1]].kind = "OPEN_PARENTHESIS_TOKEN" /\ IsExpression(heap, kids[2])
        /\ heap[kids[3]].kind = "CLOSE_PARENTHESIS_TOKEN"
    BY <1>2, <1>7 DEF Casts
  <2>3. heap[kids[1]].kind \in LeafKinds /\ heap[kids[3]].kind \in LeafKinds
    BY <2>2, OperatorsAreLeaves
  <2>4. PICK s \in 1..Len(text) : f[kids[1]] = << s >> /\ text[s].kind = heap[kids[1]].kind
    BY <1>4, <2>1, <2>3
  <2>5. PICK t \in 1..Len(text) : f[kids[3]] = << t >> /\ text[t].kind = heap[kids[3]].kind
    BY <1>4, <2>1, <2>3
  <2>6. Derived(f[kids[2]], text, { "A" })
    BY <1>3, <2>1, <2>2
  <2>7. Derived((<< s >> \o f[kids[2]]) \o << t >>, text, { "A", "B" })
    BY <2>2, <2>4, <2>5, <2>6, ParenthesizedDerived
  <2> QED
    BY <1>1, <2>1, <2>4, <2>5, <2>7
<1>8. CASE kind = "UNARY_EXPRESSION"
  <2>1. /\ Arity(kind) = 2 /\ 1 \in 1..Arity(kind) /\ 2 \in 1..Arity(kind)
        /\ Labels(kind) = { "A", "B" }
    BY <1>8 DEF Arity, Labels
  <2>2. heap[kids[1]].kind \in UnaryOperatorKinds /\ IsExpression(heap, kids[2])
    BY <1>2, <1>8 DEF Casts
  <2>3. heap[kids[1]].kind \in LeafKinds
    BY <2>2, OperatorsAreLeaves
  <2>4. PICK t \in 1..Len(text) : f[kids[1]] = << t >> /\ text[t].kind = heap[kids[1]].kind
    BY <1>4, <2>1, <2>3
  <2>5. heap[kids[2]].kind # "ASSIGNMENT_EXPRESSION"
    BY <1>8, OperandsAreNoAssignments
  <2>6. Derived(f[kids[2]], text, { "A", "B" })
    BY <1>3, <1>5, <2>1, <2>2, <2>5
  <2>7. Derived(<< t >> \o f[kids[2]], text, { "A", "B" })
    BY <2>2, <2>4, <2>6, UnaryDerived
  <2> QED
    BY <1>1, <2>1, <2>4, <2>7
<1>9. CASE kind = "BINARY_EXPRESSION"
  <2>1. /\ Arity(kind) = 3 /\ 1 \in 1..Arity(kind) /\ 2 \in 1..Arity(kind) /\ 3 \in 1..Arity(kind)
        /\ Labels(kind) = { "A", "B" }
    BY <1>9 DEF Arity, Labels
  <2>2. /\ heap[kids[2]].kind \in BinaryOperatorKinds
        /\ IsExpression(heap, kids[1]) /\ IsExpression(heap, kids[3])
    BY <1>2, <1>9 DEF Casts
  <2>3. heap[kids[2]].kind \in LeafKinds
    BY <2>2, OperatorsAreLeaves
  <2>4. PICK t \in 1..Len(text) : f[kids[2]] = << t >> /\ text[t].kind = heap[kids[2]].kind
    BY <1>4, <2>1, <2>3
  <2>5. heap[kids[1]].kind # "ASSIGNMENT_EXPRESSION" /\ heap[kids[3]].kind # "ASSIGNMENT_EXPRESSION"
    BY <1>9, OperandsAreNoAssignments
  <2>6. Derived(f[kids[1]], text, { "A", "B" })
    BY <1>3, <1>5, <2>1, <2>2, <2>5
  <2>7. Derived(f[kids[3]], text, { "A", "B" })
    BY <1>3, <1>5, <2>1, <2>2, <2>5
  <2>8. Derived((f[kids[1]] \o << t >>) \o f[kids[3]], text, { "A", "B" })
    BY <2>2, <2>4, <2>6, <2>7, BinaryDerived
  <2> QED
    BY <1>1, <2>1, <2>4, <2>8
<1>10. CASE kind = "ASSIGNMENT_EXPRESSION"
  <2>1. /\ Arity(kind) = 3 /\ 1 \in 1..Arity(kind) /\ 2 \in 1..Arity(kind) /\ 3 \in 1..Arity(kind)
        /\ Labels(kind) = { "A" }
    BY <1>10 DEF Arity, Labels
  <2>2. /\ heap[kids[1]].kind = "IDENTIFIER_TOKEN" /\ heap[kids[2]].kind = "EQUALS_TOKEN"
        /\ IsExpression(heap, kids[3])
    BY <1>2, <1>10 DEF Casts
  <2>3. heap[kids[1]].kind \in LeafKinds /\ heap[kids[2]].kind \in LeafKinds
    BY <2>2, OperatorsAreLeaves
  <2>4. PICK s \in 1..Len(text) : f[kids[1]] = << s >> /\ text[s].kind = heap[kids[1]].kind
    BY <1>4, <2>1, <2>3
  <2>5. PICK t \in 1..Len(text) : f[kids[2]] = << t >> /\ text[t].kind = heap[kids[2]].kind
    BY <1>4, <2>1, <2>3
  <2>6. Derived(f[kids[3]], text, { "A" })
    BY <1>3, <2>1, <2>2
  <2>7. Derived((<< s >> \o << t >>) \o f[kids[3]], text, { "A" })
    BY <2>2, <2>4, <2>5, <2>6, AssignmentDerived
  <2> QED
    BY <1>1, <2>1, <2>4, <2>5, <2>7
<1> QED
  BY <1>6, <1>7, <1>8, <1>9, <1>10 DEF ExpressionKinds

LEMMA AllSound ==
  ASSUME NEW heap, NEW text, Len(text) \in Nat, Finished(heap, text)
  PROVE  \A n \in 1..Len(heap) : Sound(heap, text, n)
<1> DEFINE T == { n \in 1..Len(heap) : ~Sound(heap, text, n) }
<1>1. Len(heap) \in Nat
  BY FinishedHeap
<1>2. T = {}
  <2> SUFFICES ASSUME T # {} PROVE FALSE
    OBVIOUS
  <2>1. PICK n \in T : \A other \in T : n <= other
    <3>1. T \subseteq Nat
      BY <1>1
    <3> QED
      BY <3>1, LeastElement
  <2>2. n \in 1..Len(heap) /\ ~Sound(heap, text, n)
    OBVIOUS
  <2>3. \A m \in 1..n - 1 : Sound(heap, text, m)
    BY <1>1, <2>1, <2>2
  <2> QED
    BY <2>2, <2>3, NodeSound
<1> QED
  BY <1>2

\* A tree that was built without a report is whole, and so a derivation of the text.
LEMMA NoHoles ==
  ASSUME IInv, HolesAreReported, Unexpected(diagnostics) = {}
  PROVE  Whole(nodes)
<1>1. PICK n \in Nat : n = Len(nodes)
  BY DEF IInv, TypeOK
<1>2. Cardinality(Holes(nodes)) = 0
  BY FS_EmptySet DEF HolesAreReported
<1>3. IsFiniteSet(Holes(nodes))
  <2>1. IsFiniteSet(1..n) /\ Holes(nodes) \subseteq 1..n
    BY <1>1, FS_Interval DEF Holes
  <2> QED
    BY <2>1, FS_Subset
<1>4. Holes(nodes) = {}
  BY <1>2, <1>3, FS_EmptySet
<1> QED
  BY <1>4 DEF Holes, Whole

LEMMA RootSpells ==
  ASSUME TreeInv, control.fn = "done"
  PROVE  control.node \in 1..Len(nodes) /\ Spelling(nodes)[control.node] = [ i \in 1..position |-> i ]
<1>1. PICK root : root = control.node /\ root \in 1..Len(nodes) /\ root # NoNode
  <2>1. control.node \in 1..Len(nodes)
    BY DEF TreeInv, TreeShape, ResultShape, HasResult
  <2>2. control.node # 0
    BY <2>1
  <2> QED
    BY <2>1, <2>2 DEF NoNode
<1>2. stack = <<>> /\ Result = << root >>
  BY <1>1 DEF TreeInv, IInv, StackShape, Result
<1>3. nodes \in Seq(Node) /\ Older(nodes)
  BY DEF TreeInv, IInv, TypeOK, TreeShape, HeapShape, WellBuilt, Older
<1>4. SpelledByCalls(nodes, stack) = <<>>
  <2>1. PICK calls \in Seq(Frame) : calls = <<>>
    <3>1. <<>> \in Seq(Frame)
      OBVIOUS
    <3> QED
      BY <3>1
  <2>2. PICK words : words = [ i \in 1..Len(calls) |-> Spelled(nodes, calls[i].held) ]
    OBVIOUS
  <2>3. words = <<>> /\ Len(words) = 0
    BY <2>1, <2>2
  <2> QED
    BY <1>2, <2>1, <2>2, <2>3, FlattenNone DEF SpelledByCalls
<1>5. PICK word \in Seq(Nat) : word = Spelling(nodes)[root]
  BY <1>1, <1>3, WordsTyped
<1>6. Spelled(nodes, << root >>) = word
  BY <1>1, <1>3, <1>5, SpelledOne
<1>7. <<>> \o word = word
  OBVIOUS
<1>8. SpelledByAll(nodes, stack, << root >>) = word
  BY <1>4, <1>6, <1>7, SpelledByAllIs
<1> QED
  BY <1>1, <1>2, <1>5, <1>8 DEF TreeInv, TreeSpellsConsumedTokens

LEMMA CleanParseIsSentence ==
  ASSUME TreeInv, control.fn = "done", Unexpected(diagnostics) = {}
  PROVE  IsSentence(tokens)
<1>1. PICK n \in Nat : n = Len(tokens) /\ n >= 1 /\ tokens \in Seq(KeptToken)
  <2>1. tokens \in Seq(KeptToken) /\ tokens # <<>>
    BY DEF TreeInv, IInv, TypeOK, EndedByEOF
  <2> QED
    BY <2>1, EmptySeq
<1>2. Finished(nodes, tokens)
  BY NoHoles DEF TreeInv, TreeShape, TreeCasts, IInv, TypeOK, Finished
<1>3. PICK root : /\ root = control.node /\ root \in 1..Len(nodes)
                  /\ Spelling(nodes)[root] = [ i \in 1..position |-> i ]
  BY RootSpells
<1>4. nodes[root].kind = "COMPILATION_UNIT"
  BY <1>3 DEF TreeInv, TreeCasts, CastsResult
<1>5. PICK p, q : p = nodes[root].kids[1] /\ q = nodes[root].kids[2]
  OBVIOUS
<1>6. /\ p \in 1..Len(nodes) /\ q \in 1..Len(nodes)
      /\ Spelling(nodes)[root] = Spelling(nodes)[p] \o Spelling(nodes)[q]
  <2>1. Arity(nodes[root].kind) = 2 /\ 1 \in 1..2 /\ 2 \in 1..2
    BY <1>4 DEF Arity
  <2>2. (\A k \in 1..2 : nodes[root].kids[k] \in 1..Len(nodes))
        /\ KidsSpell(Spelling(nodes), root, nodes[root].kids, 2)
    BY <1>2, <1>3, <2>1, WordOfKids
  <2> QED
    BY <1>5, <2>1, <2>2 DEF KidsSpell
<1>7. IsExpression(nodes, p) /\ nodes[q].kind = EOF
  BY <1>2, <1>3, <1>4, <1>5 DEF Finished, NodesCast, Casts
<1>8. PICK t \in 1..n : Spelling(nodes)[q] = << t >> /\ tokens[t].kind = EOF
  BY <1>1, <1>2, <1>6, <1>7, LeafWord, OperatorsAreLeaves
<1>9. t = n
  BY <1>1, <1>8 DEF TreeInv, IInv, EndedByEOF
<1>10. PICK word \in Seq(Nat) : word = Spelling(nodes)[p] /\ Derived(word, tokens, { "A" })
  <2>1. Sound(nodes, tokens, p)
    BY <1>1, <1>2, <1>6, AllSound
  <2>2. Derived(Spelling(nodes)[p], tokens, { "A" })
    BY <1>7, <2>1, DerivedLess DEF Sound, IsExpression
  <2> QED
    BY <2>2 DEF Derived
<1>11. PICK m \in Nat : m = position
  BY DEF TreeInv, IInv, TypeOK
<1>12. PICK e \in Nat : e = m + 1 /\ 1 <= e
  OBVIOUS
<1>13. Place(word \o << t >>, 1, e)
  <2>1. word \o << t >> = [ i \in 1..m |-> i ]
    BY <1>3, <1>6, <1>8, <1>10, <1>11
  <2>2. e - 1 = m /\ \A i \in 1..m : (1 + i) - 1 = i
    BY <1>12
  <2>3. Span(1, e) = [ i \in 1..m |-> i ]
    BY <2>2 DEF Span
  <2> QED
    BY <2>1, <2>3 DEF Place
<1>14. PICK c \in 1..e : Cut(1, e, c, word, << t >>)
  <2>1. Joins(word \o << t >>, word, << t >>)
    BY DEF Joins
  <2>2. << t >> \in Seq(Nat) /\ 1 \in Nat
    OBVIOUS
  <2> QED
    BY <1>12, <1>13, <2>1, <2>2, CutPlace
<1>15. c \in Nat /\ c <= e /\ Place(word, 1, c) /\ Place(<< t >>, c, e)
  BY <1>14 DEF Cut
<1>16. e = c + 1 /\ t = c
  BY <1>15, PlaceOfOne
<1>17. "A" \in Derivations(tokens)[<< 1, n >>]
  <2>1. 1 \in 1..n /\ n \in 1..n /\ 1 <= n
    BY <1>1
  <2>2. Place(word, 1, n)
    BY <1>9, <1>15, <1>16
  <2> QED
    BY <1>1, <1>10, <2>1, <2>2 DEF Derived
<1> QED
  BY <1>1, <1>17 DEF IsSentence

--------------------------------------------------------------------------------
(* A derivation is what the reader from left to right accepts.                    *)

\* The recursive function of Scan, for the first m tokens.
ScanStep(f, text, p) == IF p = 0 THEN Reader("assignment", 0) ELSE Advance(f[p - 1], text[p].kind)
Scans(f, text, m) == \A p \in 0..m : f[p] = ScanStep(f, text, p)

LEMMA ScansExist ==
  ASSUME NEW text, NEW n \in Nat, n = Len(text)
  PROVE  \E f : Scans(f, text, n)
<1> DEFINE T == { m \in 0..n : ~\E f : Scans(f, text, m) }
<1>1. T = {}
  <2> SUFFICES ASSUME T # {} PROVE FALSE
    OBVIOUS
  <2>1. PICK m \in T : \A other \in T : m <= other
    <3>1. T \subseteq Nat
      OBVIOUS
    <3> QED
      BY <3>1, LeastElement
  <2> HIDE DEF T
  <2>2. m \in 0..n /\ ~\E f : Scans(f, text, m)
    BY <2>1 DEF T
  <2>3. CASE m = 0
    <3>1. PICK f : f = [ p \in 0..0 |-> Reader("assignment", 0) ]
      OBVIOUS
    <3>2. Scans(f, text, 0)
      BY <3>1 DEF Scans, ScanStep
    <3> QED
      BY <2>2, <2>3, <3>2
  <2>4. CASE m # 0
    <3>1. PICK l \in 0..n : m = l + 1
      BY <2>2, <2>4
    <3>2. l \notin T
      BY <2>1, <3>1
    <3>3. PICK f : Scans(f, text, l)
      BY <3>1, <3>2 DEF T
    <3>4. PICK g : g = [ p \in 0..m |-> ScanStep(f, text, p) ]
      OBVIOUS
    <3>5. \A p \in 0..m : g[p] = ScanStep(f, text, p)
      BY <3>4
    <3>6. \A p \in 0..l : g[p] = f[p]
      BY <3>1, <3>3, <3>5 DEF Scans
    <3>7. \A p \in 0..m : p # 0 => g[p - 1] = f[p - 1]
      BY <3>1, <3>6
    <3>8. Scans(g, text, m)
      BY <3>5, <3>7 DEF Scans, ScanStep
    <3> QED
      BY <2>2, <3>8
  <2> QED
    BY <2>3, <2>4
<1>2. n \in 0..n
  OBVIOUS
<1> QED
  BY <1>1, <1>2

LEMMA ScanIs ==
  ASSUME NEW text, NEW n \in Nat, n = Len(text)
  PROVE  /\ Scan(text)[0] = Reader("assignment", 0)
         /\ \A p \in 1..n : Scan(text)[p] = Advance(Scan(text)[p - 1], text[p].kind)
<1> DEFINE Is(f) == f = [ p \in 0..n |-> ScanStep(f, text, p) ]
<1>1. \E f : Is(f)
  <2>1. PICK f : Scans(f, text, n)
    BY ScansExist
  <2>2. PICK g : g = [ p \in 0..n |-> ScanStep(f, text, p) ]
    OBVIOUS
  <2>3. \A p \in 0..n : g[p] = ScanStep(f, text, p)
    BY <2>2
  <2>4. \A p \in 0..n : g[p] = f[p]
    BY <2>1, <2>3 DEF Scans
  <2>5. \A p \in 0..n : p # 0 => g[p - 1] = f[p - 1]
    BY <2>4
  <2>6. \A p \in 0..n : ScanStep(f, text, p) = ScanStep(g, text, p)
    BY <2>5 DEF ScanStep
  <2>7. Is(g)
    <3>1. [ p \in 0..n |-> ScanStep(f, text, p) ] = [ p \in 0..n |-> ScanStep(g, text, p) ]
      BY <2>6
    <3> QED
      BY <2>2, <3>1
  <2> QED
    BY <2>7
<1> DEFINE S == CHOOSE f : f = [ p \in 0..n |-> ScanStep(f, text, p) ]
<1>2. Is(S)
  BY <1>1
<1>3. Scan(text) = S
  BY DEF Scan, ScanStep
<1>4. \A p \in 0..n : S[p] = ScanStep(S, text, p)
  <2> HIDE DEF S
  <2> QED
    BY <1>2
<1> HIDE DEF S
<1>5. S[0] = Reader("assignment", 0)
  <2>1. 0 \in 0..n
    OBVIOUS
  <2> QED
    BY <1>4, <2>1 DEF ScanStep
<1>6. \A p \in 1..n : S[p] = Advance(S[p - 1], text[p].kind)
  <2>1. \A p \in 1..n : p \in 0..n /\ p # 0
    OBVIOUS
  <2> QED
    BY <1>4, <2>1 DEF ScanStep
<1> QED
  BY <1>3, <1>5, <1>6

Readers == [ what : Expects, open : Nat ]

LEMMA AdvanceTyped == \A reader \in Readers : \A kind : Advance(reader, kind) \in Readers
<1>1. \A what \in Expects, open \in Nat : Reader(what, open) \in Readers
  BY DEF Reader, Readers
<1> SUFFICES ASSUME NEW reader \in Readers, NEW kind PROVE Advance(reader, kind) \in Readers
  OBVIOUS
<1>2. reader.open \in Nat /\ reader.open + 1 \in Nat /\ (reader.open > 0 => reader.open - 1 \in Nat)
  BY DEF Readers
<1>3. { "assignment", "operand", "name", "operator", "nothing" } \subseteq Expects
  BY DEF Expects
<1> QED
  BY <1>1, <1>2, <1>3 DEF Advance

LEMMA ScanTyped ==
  ASSUME NEW text, NEW n \in Nat, n = Len(text)
  PROVE  \A p \in 0..n : Scan(text)[p] \in Readers
<1> DEFINE T == { p \in 0..n : Scan(text)[p] \notin Readers }
<1>1. T = {}
  <2> SUFFICES ASSUME T # {} PROVE FALSE
    OBVIOUS
  <2>1. PICK p \in T : \A other \in T : p <= other
    <3>1. T \subseteq Nat
      OBVIOUS
    <3> QED
      BY <3>1, LeastElement
  <2>2. CASE p = 0
    <3>1. Reader("assignment", 0) \in Readers
      BY DEF Reader, Readers, Expects
    <3> QED
      BY <2>2, <3>1, ScanIs
  <2>3. CASE p # 0
    <3>1. p \in 1..n /\ p - 1 \in 0..n /\ p - 1 < p
      BY <2>3
    <3>2. Scan(text)[p - 1] \in Readers
      BY <2>1, <3>1
    <3>3. Scan(text)[p] = Advance(Scan(text)[p - 1], text[p].kind)
      BY <3>1, ScanIs
    <3> QED
      BY <3>2, <3>3, AdvanceTyped
  <2> QED
    BY <2>2, <2>3
<1> QED
  BY <1>1

\* A reader that has met a token nothing goes on with stays where it is.
LEMMA ScanStuck ==
  ASSUME NEW text, NEW n \in Nat, n = Len(text), NEW p \in 0..n, Scan(text)[p].what = "nothing"
  PROVE  \A q \in p..n : Scan(text)[q].what = "nothing"
<1> DEFINE T == { q \in p..n : Scan(text)[q].what # "nothing" }
<1>1. T = {}
  <2> SUFFICES ASSUME T # {} PROVE FALSE
    OBVIOUS
  <2>1. PICK q \in T : \A other \in T : q <= other
    <3>1. T \subseteq Nat
      OBVIOUS
    <3> QED
      BY <3>1, LeastElement
  <2>2. q # p
    BY <2>1
  <2>3. q \in 1..n /\ q - 1 \in p..n /\ q - 1 < q
    BY <2>2
  <2>4. Scan(text)[q - 1].what = "nothing"
    BY <2>1, <2>3
  <2>5. Scan(text)[q] = Advance(Scan(text)[q - 1], text[q].kind)
    BY <2>3, ScanIs
  <2> QED
    BY <2>1, <2>4, <2>5 DEF Advance, Reader
<1> QED
  BY <1>1

\* The kinds, one by one.
LEMMA KindsAre ==
  /\ UnaryOperatorKinds = { "PLUS_TOKEN", "MINUS_TOKEN", "BANG_TOKEN" }
  /\ BinaryOperatorKinds = { "STAR_TOKEN", "SLASH_TOKEN", "PLUS_TOKEN", "MINUS_TOKEN", "EQUALS_EQUALS_TOKEN",
                             "BANG_EQUALS_TOKEN", "AMPERSAND_AMPERSAND_TOKEN", "PIPE_PIPE_TOKEN" }
<1>1. \A kind : UnaryOperatorPrecedence(kind) > 0 <=> kind \in { "PLUS_TOKEN", "MINUS_TOKEN", "BANG_TOKEN" }
  BY DEF UnaryOperatorPrecedence
<1>2. \A kind : BinaryOperatorPrecedence(kind) > 0 <=>
        kind \in { "STAR_TOKEN", "SLASH_TOKEN", "PLUS_TOKEN", "MINUS_TOKEN", "EQUALS_EQUALS_TOKEN",
                   "BANG_EQUALS_TOKEN", "AMPERSAND_AMPERSAND_TOKEN", "PIPE_PIPE_TOKEN" }
  BY DEF BinaryOperatorPrecedence
<1>3. { "STAR_TOKEN", "SLASH_TOKEN", "PLUS_TOKEN", "MINUS_TOKEN", "EQUALS_EQUALS_TOKEN", "BANG_TOKEN",
        "BANG_EQUALS_TOKEN", "AMPERSAND_AMPERSAND_TOKEN", "PIPE_PIPE_TOKEN" } \subseteq SyntaxKinds
  BY DEF SyntaxKinds, TokenKinds, FixedTextKinds, OperatorKinds
<1>4. UnaryOperatorKinds = { "PLUS_TOKEN", "MINUS_TOKEN", "BANG_TOKEN" }
  BY <1>1, <1>3 DEF UnaryOperatorKinds
<1>5. BinaryOperatorKinds = { "STAR_TOKEN", "SLASH_TOKEN", "PLUS_TOKEN", "MINUS_TOKEN", "EQUALS_EQUALS_TOKEN",
                             "BANG_EQUALS_TOKEN", "AMPERSAND_AMPERSAND_TOKEN", "PIPE_PIPE_TOKEN" }
  BY <1>2, <1>3 DEF BinaryOperatorKinds
<1> QED
  BY <1>4, <1>5

\* Before an operand and after one.
Before(reader) == reader.what \in { "assignment", "operand" }
Behind(reader) == reader.what \in { "name", "operator" }

LEMMA AdvancesBefore ==
  ASSUME NEW reader \in Readers, Before(reader), NEW kind, NEW next, next = Advance(reader, kind)
  PROVE  /\ kind \in KeywordKinds \cup { "NUMBER_TOKEN" } => next.what = "operator" /\ next.open = reader.open
         /\ kind = "IDENTIFIER_TOKEN" =>
              /\ next.what = (IF reader.what = "assignment" THEN "name" ELSE "operator")
              /\ next.open = reader.open
         /\ kind \in UnaryOperatorKinds => next.what = "operand" /\ next.open = reader.open
         /\ kind = "OPEN_PARENTHESIS_TOKEN" => next.what = "assignment" /\ next.open = reader.open + 1
         /\ kind \notin KeywordKinds \cup { "NUMBER_TOKEN", "IDENTIFIER_TOKEN", "OPEN_PARENTHESIS_TOKEN" }
                          \cup UnaryOperatorKinds => next.what = "nothing"
<1>1. KeywordKinds = { "TRUE_KEYWORD", "FALSE_KEYWORD" }
  BY DEF KeywordKinds
<1> QED
  BY <1>1, KindsAre DEF Before, Advance, Reader

LEMMA AdvancesBehind ==
  ASSUME NEW reader \in Readers, Behind(reader), NEW kind, NEW next, next = Advance(reader, kind)
  PROVE  /\ kind \in BinaryOperatorKinds => next.what = "operand" /\ next.open = reader.open
         /\ kind = "CLOSE_PARENTHESIS_TOKEN" /\ reader.open > 0 =>
              next.what = "operator" /\ next.open = reader.open - 1
         /\ kind = "EQUALS_TOKEN" /\ reader.what = "name" =>
              next.what = "assignment" /\ next.open = reader.open
         /\ kind \notin BinaryOperatorKinds /\ (kind = "CLOSE_PARENTHESIS_TOKEN" => reader.open = 0)
              /\ (kind = "EQUALS_TOKEN" => reader.what # "name") => next.what = "nothing"
BY KindsAre DEF Behind, Advance, Reader, Readers

\* The reader goes through a span and is behind an operand, as many parentheses deep as before.
After(scan, i, j) == i < j /\ Behind(scan[j - 1]) /\ scan[j - 1].open = scan[i - 1].open
GoesThrough(scan, derivations, i, j) ==
    /\ "A" \in derivations[<< i, j >>] /\ scan[i - 1].what = "assignment" => After(scan, i, j)
    /\ "B" \in derivations[<< i, j >>] /\ Before(scan[i - 1]) => After(scan, i, j)

\* The two functions of a text of n tokens.
Both(text, n, scan, derivations) ==
    n \in Nat /\ n = Len(text) /\ scan = Scan(text) /\ derivations = Derivations(text)
Shorter(scan, derivations, n, length) ==
    \A a, b \in 1..n : b - a < length => GoesThrough(scan, derivations, a, b)

LEMMA ScanHas ==
  ASSUME NEW text, NEW n, NEW scan, NEW derivations, Both(text, n, scan, derivations), NEW p \in 1..n
  PROVE  scan[p - 1] \in Readers /\ scan[p] \in Readers /\ scan[p] = Advance(scan[p - 1], text[p].kind)
<1>1. n \in Nat /\ n = Len(text) /\ scan = Scan(text)
  BY DEF Both
<1>2. p \in 0..n /\ p - 1 \in 0..n
  BY <1>1
<1> QED
  BY <1>1, <1>2, ScanIs, ScanTyped

LEMMA ThroughPrimary ==
  ASSUME NEW text, NEW n, NEW scan, NEW derivations, Both(text, n, scan, derivations),
         NEW i \in 1..n, NEW j \in 1..n, Shorter(scan, derivations, n, j - i),
         IsP(text, derivations, i, j), Before(scan[i - 1])
  PROVE  After(scan, i, j)
<1>0. n \in Nat
  BY DEF Both
<1>1. CASE j = i + 1 /\ text[i].kind \in KeywordKinds \cup { "IDENTIFIER_TOKEN", "NUMBER_TOKEN" }
  <2>1. j - 1 = i /\ i < j
    BY <1>0, <1>1
  <2>2. scan[i - 1] \in Readers /\ scan[i] = Advance(scan[i - 1], text[i].kind)
    BY ScanHas
  <2>3. Behind(scan[i]) /\ scan[i].open = scan[i - 1].open
    BY <1>1, <2>2, AdvancesBefore DEF Behind
  <2> QED
    BY <2>1, <2>3 DEF After
<1>2. CASE /\ j > i + 2 /\ text[i].kind = "OPEN_PARENTHESIS_TOKEN"
           /\ text[j - 1].kind = "CLOSE_PARENTHESIS_TOKEN" /\ "A" \in derivations[<< i + 1, j - 1 >>]
  <2>1. PICK k \in 1..n : k = i + 1 /\ k - 1 = i
    BY <1>0, <1>2
  <2>2. PICK l \in 1..n : l = j - 1 /\ l - k < j - i /\ i < j
    BY <1>0, <1>2, <2>1
  <2>3. scan[i - 1] \in Readers /\ scan[i] \in Readers /\ scan[i] = Advance(scan[i - 1], text[i].kind)
    BY ScanHas
  <2>4. scan[i].what = "assignment" /\ scan[i].open = scan[i - 1].open + 1
    BY <1>2, <2>3, AdvancesBefore
  <2>5. GoesThrough(scan, derivations, k, l)
    BY <2>2 DEF Shorter
  <2>6. After(scan, k, l)
    BY <1>2, <2>1, <2>2, <2>4, <2>5 DEF GoesThrough
  <2>7. Behind(scan[l - 1]) /\ scan[l - 1].open = scan[i - 1].open + 1
    BY <2>1, <2>4, <2>6 DEF After
  <2>8. scan[l - 1] \in Readers /\ scan[l] = Advance(scan[l - 1], text[l].kind)
    BY ScanHas
  <2>9. scan[i - 1].open \in Nat
    BY <2>3 DEF Readers
  <2>10. scan[l - 1].open > 0 /\ scan[l - 1].open - 1 = scan[i - 1].open
    BY <2>7, <2>9
  <2>11. scan[l].what = "operator" /\ scan[l].open = scan[i - 1].open
    BY <1>2, <2>2, <2>7, <2>8, <2>10, AdvancesBehind
  <2> QED
    BY <2>2, <2>11 DEF After, Behind
<1> QED
  BY <1>1, <1>2 DEF IsP

LEMMA ThroughOperand ==
  ASSUME NEW text, NEW n, NEW scan, NEW derivations, Both(text, n, scan, derivations),
         NEW i \in 1..n, NEW j \in 1..n, Shorter(scan, derivations, n, j - i),
         IsB(text, derivations, i, j), Before(scan[i - 1])
  PROVE  After(scan, i, j)
<1>0. n \in Nat
  BY DEF Both
<1>1. scan[i - 1] \in Readers /\ scan[i] \in Readers /\ scan[i] = Advance(scan[i - 1], text[i].kind)
  BY ScanHas
<1>2. CASE IsP(text, derivations, i, j)
  BY <1>2, ThroughPrimary
<1>3. CASE j > i + 1 /\ text[i].kind \in UnaryOperatorKinds /\ "B" \in derivations[<< i + 1, j >>]
  <2>1. PICK k \in 1..n : k = i + 1 /\ k - 1 = i /\ j - k < j - i /\ i < k
    BY <1>0, <1>3
  <2>2. scan[i].what = "operand" /\ scan[i].open = scan[i - 1].open
    BY <1>1, <1>3, AdvancesBefore
  <2>3. GoesThrough(scan, derivations, k, j)
    BY <2>1 DEF Shorter
  <2>4. After(scan, k, j)
    BY <1>3, <2>1, <2>2, <2>3 DEF GoesThrough, Before
  <2>5. i < j
    BY <1>3
  <2> QED
    BY <2>1, <2>2, <2>4, <2>5 DEF After
<1>4. CASE \E k \in i + 1 .. j - 2 :
              /\ text[k].kind \in BinaryOperatorKinds
              /\ "B" \in derivations[<< i, k >>] /\ "B" \in derivations[<< k + 1, j >>]
  <2>1. PICK k \in i + 1 .. j - 2 :
              /\ text[k].kind \in BinaryOperatorKinds
              /\ "B" \in derivations[<< i, k >>] /\ "B" \in derivations[<< k + 1, j >>]
    BY <1>4
  <2>2. k \in 1..n /\ k - i < j - i /\ i < j
    BY <1>0
  <2>3. PICK l \in 1..n : l = k + 1 /\ l - 1 = k /\ j - l < j - i
    BY <1>0
  <2>4. GoesThrough(scan, derivations, i, k) /\ GoesThrough(scan, derivations, l, j)
    BY <2>2, <2>3 DEF Shorter
  <2>5. After(scan, i, k)
    BY <2>1, <2>4 DEF GoesThrough
  <2>6. scan[k - 1] \in Readers /\ scan[k] = Advance(scan[k - 1], text[k].kind)
    BY <2>2, ScanHas
  <2>7. scan[k].what = "operand" /\ scan[k].open = scan[k - 1].open
    BY <2>1, <2>5, <2>6, AdvancesBehind DEF After
  <2>8. After(scan, l, j)
    BY <2>1, <2>3, <2>4, <2>7 DEF GoesThrough, Before
  <2> QED
    BY <2>2, <2>3, <2>5, <2>7, <2>8 DEF After
<1> QED
  BY <1>2, <1>3, <1>4 DEF IsB

LEMMA ThroughAssignment ==
  ASSUME NEW text, NEW n, NEW scan, NEW derivations, Both(text, n, scan, derivations),
         NEW i \in 1..n, NEW j \in 1..n, Shorter(scan, derivations, n, j - i),
         IsA(text, derivations, i, j), scan[i - 1].what = "assignment"
  PROVE  After(scan, i, j)
<1>0. n \in Nat /\ Before(scan[i - 1])
  BY DEF Both, Before
<1>1. CASE IsB(text, derivations, i, j)
  BY <1>0, <1>1, ThroughOperand
<1>2. CASE /\ j > i + 2 /\ text[i].kind = "IDENTIFIER_TOKEN" /\ text[i + 1].kind = "EQUALS_TOKEN"
           /\ "A" \in derivations[<< i + 2, j >>]
  <2>1. PICK k \in 1..n : k = i + 1 /\ k - 1 = i
    BY <1>0, <1>2
  <2>2. PICK l \in 1..n : l = i + 2 /\ l - 1 = k /\ j - l < j - i /\ i < j
    BY <1>0, <1>2, <2>1
  <2>3. /\ scan[i - 1] \in Readers /\ scan[i] \in Readers /\ scan[i] = Advance(scan[i - 1], text[i].kind)
        /\ scan[k] = Advance(scan[i], text[k].kind)
    BY <2>1, ScanHas
  <2>4. scan[i].what = "name" /\ scan[i].open = scan[i - 1].open
    BY <1>0, <1>2, <2>3, AdvancesBefore
  <2>5. scan[k].what = "assignment" /\ scan[k].open = scan[i].open
    <3>1. Behind(scan[i])
      BY <2>4 DEF Behind
    <3> QED
      BY <1>2, <2>1, <2>3, <2>4, <3>1, AdvancesBehind
  <2>6. GoesThrough(scan, derivations, l, j)
    BY <2>2 DEF Shorter
  <2>7. After(scan, l, j)
    BY <1>2, <2>2, <2>5, <2>6 DEF GoesThrough
  <2> QED
    BY <2>2, <2>4, <2>5, <2>7 DEF After
<1> QED
  BY <1>1, <1>2 DEF IsA

LEMMA ThroughAll ==
  ASSUME NEW text, NEW n, NEW scan, NEW derivations, Both(text, n, scan, derivations)
  PROVE  Shorter(scan, derivations, n, n)
<1> DEFINE T == { d \in 0..n + n : ~Shorter(scan, derivations, n, d - n) }
<1>0. n \in Nat /\ n = Len(text) /\ derivations = Derivations(text)
  BY DEF Both
<1>1. T = {}
  <2> SUFFICES ASSUME T # {} PROVE FALSE
    OBVIOUS
  <2>1. PICK d \in T : \A other \in T : d <= other
    <3>1. T \subseteq Nat
      BY <1>0
    <3> QED
      BY <3>1, LeastElement
  <2>2. d \in 0..n + n /\ ~Shorter(scan, derivations, n, d - n)
    OBVIOUS
  <2>3. PICK i, j \in 1..n : j - i < d - n /\ ~GoesThrough(scan, derivations, i, j)
    BY <2>2 DEF Shorter
  <2>4. PICK e \in 0..n + n : e = (j - i) + n /\ e < d /\ e - n = j - i
    <3>1. PICK h \in Int : h = (j - i) + n
      <4>1. i \in Int /\ j \in Int /\ n \in Int
        BY <1>0
      <4>2. (j - i) + n \in Int
        BY <4>1
      <4> QED
        BY <4>2
    <3>2. d \in Nat
      BY <1>0, <2>2
    <3>3. h \in 0..n + n /\ h < d /\ h - n = j - i
      BY <1>0, <2>3, <3>1, <3>2
    <3> QED
      BY <3>1, <3>3
  <2>5. e \notin T
    BY <1>0, <2>1, <2>2, <2>4
  <2>6. Shorter(scan, derivations, n, j - i)
    BY <2>4, <2>5
  <2>7. /\ ("A" \in derivations[<< i, j >>]) <=> IsA(text, derivations, i, j)
        /\ ("B" \in derivations[<< i, j >>]) <=> IsB(text, derivations, i, j)
    BY <1>0, DerivesIff
  <2>8. GoesThrough(scan, derivations, i, j)
    BY <2>6, <2>7, ThroughAssignment, ThroughOperand DEF GoesThrough
  <2> QED
    BY <2>3, <2>8
<1>2. n + n \in 0..n + n /\ (n + n) - n = n
  BY <1>0
<1>3. n + n \notin T
  BY <1>1
<1> QED
  BY <1>2, <1>3

\* The last token of a text that is a sentence comes where the reader is behind the
\* whole of it.
LEMMA SentenceIsComplete ==
  ASSUME NEW text, NEW n \in Nat, n = Len(text), n >= 1, IsSentence(text)
  PROVE  Complete(Scan(text)[n - 1])
<1>1. PICK scan, derivations : Both(text, n, scan, derivations)
  BY DEF Both
<1>2. scan = Scan(text) /\ derivations = Derivations(text)
  BY <1>1 DEF Both
<1>3. 1 \in 1..n /\ n \in 1..n /\ n - 1 < n
  OBVIOUS
<1>4. GoesThrough(scan, derivations, 1, n)
  BY <1>1, <1>3, ThroughAll DEF Shorter
<1>5. scan[1 - 1] = Reader("assignment", 0)
  <2>1. 1 - 1 = 0
    OBVIOUS
  <2> QED
    BY <1>2, <2>1, ScanIs
<1>6. "A" \in derivations[<< 1, n >>]
  BY <1>2 DEF IsSentence
<1>7. After(scan, 1, n)
  BY <1>4, <1>5, <1>6 DEF GoesThrough, Reader
<1> QED
  BY <1>2, <1>5, <1>7 DEF After, Behind, Complete, Reader

--------------------------------------------------------------------------------
(* The parser is the reader from left to right.                                   *)

LEMMA OpenPushed ==
  ASSUME NEW calls \in Seq(Frame), NEW frame, NEW pushed, pushed = Append(calls, frame)
  PROVE  /\ Cardinality(Open(calls)) \in Nat
         /\ frame.building = "PARENTHESIZED_EXPRESSION" =>
              Cardinality(Open(pushed)) = Cardinality(Open(calls)) + 1
         /\ frame.building # "PARENTHESIZED_EXPRESSION" =>
              Cardinality(Open(pushed)) = Cardinality(Open(calls))
<1>1. PICK n \in Nat : n = Len(calls)
  OBVIOUS
<1>2. Len(pushed) = n + 1 /\ pushed[n + 1] = frame /\ \A i \in 1..n : pushed[i] = calls[i]
  <2>1. calls \in Seq(Frame \cup { frame }) /\ frame \in Frame \cup { frame }
    OBVIOUS
  <2> QED
    BY <1>1, <2>1, PushOne
<1>3. \A i \in 1..n + 1 : i \in 1..n \/ i = n + 1
  OBVIOUS
<1>4. \A i \in 1..n : i \in 1..n + 1 /\ i # n + 1
  OBVIOUS
<1>5. Open(calls) \subseteq 1..n
  BY <1>1 DEF Open
<1>6. IsFiniteSet(Open(calls))
  <2>1. IsFiniteSet(1..n)
    BY <1>1, FS_Interval
  <2> QED
    BY <1>5, <2>1, FS_Subset
<1>7. n + 1 \notin Open(calls)
  BY <1>5
<1>8. frame.building = "PARENTHESIZED_EXPRESSION" => Open(pushed) = Open(calls) \cup { n + 1 }
  BY <1>1, <1>2, <1>3, <1>4 DEF Open
<1>9. frame.building # "PARENTHESIZED_EXPRESSION" => Open(pushed) = Open(calls)
  BY <1>1, <1>2, <1>3, <1>4 DEF Open
<1>10. Cardinality(Open(calls) \cup { n + 1 }) = Cardinality(Open(calls)) + 1
  BY <1>6, <1>7, FS_AddElement
<1> QED
  BY <1>6, <1>8, <1>9, <1>10, FS_CardinalityType

LEMMA OpenPopped ==
  ASSUME IInv, control.fn = "return"
  PROVE  /\ Cardinality(Open(Pop)) \in Nat
         /\ Top.building = "PARENTHESIZED_EXPRESSION" =>
              Cardinality(Open(stack)) = Cardinality(Open(Pop)) + 1
         /\ Top.building # "PARENTHESIZED_EXPRESSION" =>
              Cardinality(Open(stack)) = Cardinality(Open(Pop))
<1>1. stack \in Seq(Frame) /\ stack # <<>>
  BY DEF IInv, TypeOK, StackShape
<1>2. PICK popped \in Seq(Frame) : popped = Pop
  BY PopFrame
<1>3. stack = Append(popped, Top)
  BY <1>1, <1>2, EmptySeq DEF Pop, Top
<1> QED
  BY <1>2, <1>3, OpenPushed

\* The reader is before the token at hand.
LEMMA AtHand ==
  ASSUME IInv, ReadsSentence, Unexpected(diagnostics) = {}, control.fn \notin { "parser_new", "done" },
         NEW reader, reader = Scan(tokens)[position], NEW next, next = Scan(tokens)[position + 1]
  PROVE  /\ reader \in Readers /\ next \in Readers /\ Awaits(reader, stack, control)
         /\ next = Advance(reader, Current.kind)
         /\ stack \in Seq(Frame) /\ reader.open \in Nat
<1>1. PICK n \in Nat : n = Len(tokens)
  BY Reading
<1>2. /\ position \in Nat /\ position \in 0..n /\ position + 1 \in 1..n /\ position + 1 \in 0..n
      /\ (position + 1) - 1 = position
  BY <1>1, Reading
<1>3. reader \in Readers /\ next \in Readers
  BY <1>1, <1>2, ScanTyped
<1>4. next = Advance(reader, Current.kind)
  <2>1. PICK p \in 1..n : p = position + 1 /\ p - 1 = position
    BY <1>2
  <2>2. Scan(tokens)[p] = Advance(Scan(tokens)[p - 1], tokens[p].kind)
    BY <1>1, ScanIs
  <2>3. Current.kind = tokens[p].kind
    BY <2>1, LeavesAreCopies
  <2> QED
    BY <2>1, <2>2, <2>3
<1>5. Awaits(reader, stack, control)
  BY DEF ReadsSentence
<1> QED
  BY <1>3, <1>4, <1>5 DEF IInv, TypeOK, Readers

\* What is left to show of a step without a report.
LEMMA GoesOn ==
  ASSUME tokens' = tokens, Unexpected(diagnostics) = {}, diagnostics' = diagnostics,
         NEW reader, reader = Scan(tokens)[position'],
         NEW open, open = Cardinality(Open(stack')), reader.open = open,
         control'.fn \notin { "parser_new", "done" },
         control'.fn = "parse_assignment_expression" => reader.what = "assignment",
         control'.fn = "parse_binary_expression" =>
             Before(reader) /\ (reader.what = "assignment" => ~StartsAssignment'),
         control'.fn \in { "parse_binary_expression_loop", "return" } =>
             Behind(reader) /\ (reader.what = "name" => Current.kind' # "EQUALS_TOKEN"),
         control'.fn = "return" => BinaryOperatorPrecedence(Current.kind') <= Given(nodes', Top')
  PROVE  ReadsSentence'
<1>1. Awaits(reader, stack, control)'
  BY DEF Awaits, Before, Behind
<1> QED
  BY <1>1 DEF ReadsSentence

\* What is left to show of a step with one.
LEMMA StopsHere ==
  ASSUME IInv, tokens' = tokens, control.fn \notin { "parser_new", "done" }, control'.fn # "parser_new",
         diagnostics' = Append(diagnostics, "unexpected_token"),
         NEW reader, reader = Scan(tokens)[position], NEW next, next = Scan(tokens)[position + 1],
         position + 1 < Len(tokens) => next.what = "nothing",
         position + 1 = Len(tokens) => ~Complete(reader)
  PROVE  ReadsSentence'
<1>1. PICK n \in Nat : n = Len(tokens) /\ position \in Nat /\ position < n
  BY Reading
<1>2. Unexpected(diagnostics') # {}
  <2>1. PICK k \in Nat : k = Len(diagnostics) /\ Append(diagnostics, "unexpected_token")[k + 1] = "unexpected_token"
                         /\ Len(Append(diagnostics, "unexpected_token")) = k + 1
    BY Reading, PushOne
  <2>2. k + 1 \in 1..k + 1
    OBVIOUS
  <2>3. k + 1 \in Unexpected(diagnostics')
    BY <2>1, <2>2 DEF Unexpected
  <2> QED
    BY <2>3
<1>3. ~Complete(Scan(tokens)[n - 1])
  <2>1. CASE position + 1 = n
    <3>1. n - 1 = position
      BY <1>1, <2>1
    <3> QED
      BY <1>1, <2>1, <3>1
  <2>2. CASE position + 1 < n
    <3>1. position + 1 \in 0..n /\ n - 1 \in position + 1 .. n
      BY <1>1, <2>2
    <3>2. Scan(tokens)[n - 1].what = "nothing"
      BY <1>1, <2>2, <3>1, ScanStuck
    <3> QED
      BY <3>2 DEF Complete
  <2> QED
    BY <1>1, <2>1, <2>2
<1> QED
  BY <1>1, <1>2, <1>3 DEF ReadsSentence

LEMMA LexTokenReads == IInv /\ ReadsSentence /\ LexToken => ReadsSentence'
<1> SUFFICES ASSUME IInv, ReadsSentence, LexToken PROVE ReadsSentence'
  OBVIOUS
<1>1. control.fn = "parser_new" /\ position' = position /\ position = 0
  BY DEF LexToken, IInv, PositionInBounds
<1>2. Unexpected(diagnostics) = {}
  BY <1>1 DEF ReadsSentence
<1>3. Unexpected(diagnostics') = {}
  <2>1. diagnostics \in Seq({ "lexical_error", "unexpected_token" })
    BY DEF IInv, TypeOK
  <2>2. PICK bag : bag = Append(diagnostics, "lexical_error")
    OBVIOUS
  <2>3. Cardinality(Unexpected(bag)) = Cardinality(Unexpected(diagnostics))
    BY <2>1, <2>2, AddReport
  <2>4. IsFiniteSet(Unexpected(bag))
    <3>1. PICK k \in Nat : k = Len(bag)
      BY <2>1, <2>2, PushOne
    <3>2. IsFiniteSet(1..k) /\ Unexpected(bag) \subseteq 1..k
      BY <3>1, FS_Interval DEF Unexpected
    <3> QED
      BY <3>2, FS_Subset
  <2>5. Unexpected(bag) = {}
    BY <1>2, <2>3, <2>4, FS_EmptySet
  <2> QED
    BY <1>2, <2>2, <2>5 DEF LexToken
<1>4. CASE control' = control
  BY <1>1, <1>3, <1>4 DEF ReadsSentence
<1>5. CASE /\ stack' = << Suspend("COMPILATION_UNIT", <<>>, 0) >>
           /\ control' = Run("parse_assignment_expression", 0, NoNode)
  <2>1. PICK frame : frame = Suspend("COMPILATION_UNIT", <<>>, 0)
    OBVIOUS
  <2>2. stack' = << frame >> /\ Len(<< frame >>) = 1 /\ << frame >>[1] = frame /\ Open(<< frame >>) = {}
    BY <1>5, <2>1 DEF Open, Suspend
  <2>3. Cardinality(Open(stack')) = 0
    BY <2>2, FS_EmptySet
  <2>4. Scan(tokens')[0] = Reader("assignment", 0)
    <3>1. PICK text : text = tokens'
      OBVIOUS
    <3>2. PICK m \in Nat : m = Len(text)
      <4>1. IInv'
        BY LexTokenStep
      <4>2. tokens' \in Seq(KeptToken)
        BY <4>1 DEF IInv, TypeOK
      <4> QED
        BY <3>1, <4>2
    <3> QED
      BY <3>1, <3>2, ScanIs
  <2>5. Awaits(Scan(tokens)[position], stack, control)'
    BY <1>1, <1>5, <2>3, <2>4 DEF Awaits, Run, Reader
  <2> QED
    BY <1>3, <2>5 DEF ReadsSentence
<1> QED
  BY <1>4, <1>5 DEF LexToken

LEMMA ParseAssignmentReads ==
  ASSUME IInv, TreeShape, ReadsSentence, Unexpected(diagnostics) = {}, ParseAssignment PROVE ReadsSentence'
<1>1. /\ control.fn = "parse_assignment_expression" /\ StartsAssignment /\ control' = control
      /\ tokens' = tokens /\ diagnostics' = diagnostics /\ position' = position + 2
  BY DEF ParseAssignment, InputUnchanged
<1>2. PICK n \in Nat : n = Len(tokens) /\ position \in Nat /\ position + 2 < n
  BY <1>1, AssignmentIsInText, Reading
<1>3. PICK reader, name : reader = Scan(tokens)[position] /\ name = Scan(tokens)[position + 1]
  OBVIOUS
<1>4. /\ reader \in Readers /\ name \in Readers /\ name = Advance(reader, Current.kind)
      /\ reader.what = "assignment" /\ reader.open = Cardinality(Open(stack)) /\ stack \in Seq(Frame)
  BY <1>1, <1>3, AtHand DEF Awaits
<1>5. name.what = "name" /\ name.open = reader.open
  <2>1. Current.kind = "IDENTIFIER_TOKEN" /\ Before(reader)
    BY <1>1, <1>4 DEF StartsAssignment, Current, Before
  <2> QED
    BY <1>4, <2>1, AdvancesBefore
<1>6. PICK next : next = Scan(tokens)[position']
  OBVIOUS
<1>7. next.what = "assignment" /\ next.open = reader.open
  <2>1. PICK p \in 1..n : p = position + 2 /\ p - 1 = position + 1
    BY <1>2
  <2>2. Scan(tokens)[p] = Advance(Scan(tokens)[p - 1], tokens[p].kind)
    BY <1>2, ScanIs
  <2>3. next = Advance(name, "EQUALS_TOKEN")
    BY <1>1, <1>3, <1>6, <2>1, <2>2, AssignmentTokens
  <2>4. Behind(name)
    BY <1>5 DEF Behind
  <2> QED
    BY <1>4, <1>5, <2>3, <2>4, AdvancesBehind
<1>8. PICK open : open = Cardinality(Open(stack')) /\ open = reader.open
  <2>1. PICK frame : stack' = Append(stack, frame) /\ frame.building = "ASSIGNMENT_EXPRESSION"
    BY DEF ParseAssignment, Suspend
  <2>2. PICK calls : calls = Append(stack, frame)
    OBVIOUS
  <2>3. Cardinality(Open(calls)) = Cardinality(Open(stack))
    BY <1>4, <2>1, <2>2, OpenPushed
  <2> QED
    BY <1>4, <2>1, <2>2, <2>3
<1> QED
  BY <1>1, <1>6, <1>7, <1>8, GoesOn

LEMMA ParseNoAssignmentReads ==
  ASSUME IInv, TreeShape, ReadsSentence, Unexpected(diagnostics) = {}, ParseNoAssignment PROVE ReadsSentence'
<1>1. /\ control.fn = "parse_assignment_expression" /\ ~StartsAssignment
      /\ control'.fn = "parse_binary_expression"
      /\ tokens' = tokens /\ diagnostics' = diagnostics /\ position' = position /\ stack' = stack
  BY DEF ParseNoAssignment, InputUnchanged, Run
<1>2. PICK reader, next : reader = Scan(tokens)[position] /\ next = Scan(tokens)[position + 1]
  OBVIOUS
<1>3. reader.what = "assignment" /\ reader.open = Cardinality(Open(stack))
  BY <1>1, <1>2, AtHand DEF Awaits
<1>4. ~StartsAssignment' /\ Before(reader)
  BY <1>1, <1>3 DEF StartsAssignment, Peek, Before
<1>5. PICK open : open = Cardinality(Open(stack')) /\ open = reader.open
  BY <1>1, <1>3
<1> QED
  BY <1>1, <1>2, <1>4, <1>5, GoesOn

\* A token that opens an operand, or goes between two, makes a call wait.
LEMMA PushReads ==
  ASSUME IInv, ReadsSentence, Unexpected(diagnostics) = {}, control.fn \notin { "parser_new", "done" },
         tokens' = tokens, diagnostics' = diagnostics, position' = position + 1,
         NEW frame, stack' = Append(stack, frame),
         NEW next, next = Scan(tokens)[position + 1],
         \/ /\ control'.fn = "parse_binary_expression" /\ next.what = "operand"
            /\ next.open = Cardinality(Open(stack)) /\ frame.building # "PARENTHESIZED_EXPRESSION"
         \/ /\ control'.fn = "parse_assignment_expression" /\ next.what = "assignment"
            /\ next.open = Cardinality(Open(stack)) + 1 /\ frame.building = "PARENTHESIZED_EXPRESSION"
  PROVE  ReadsSentence'
<1>1. PICK calls : calls = stack'
  OBVIOUS
<1>2. next = Scan(tokens)[position']
  OBVIOUS
<1>3. stack \in Seq(Frame)
  BY DEF IInv, TypeOK
<1>4. PICK open : open = Cardinality(Open(stack')) /\ open = next.open
  BY <1>1, <1>3, OpenPushed
<1>5. Before(next)
  BY DEF Before
<1> QED
  BY <1>2, <1>4, <1>5, GoesOn

LEMMA ParseUnaryReads ==
  ASSUME IInv, TreeShape, ReadsSentence, Unexpected(diagnostics) = {}, ParseUnary PROVE ReadsSentence'
<1>1. /\ control.fn = "parse_binary_expression" /\ control'.fn = "parse_binary_expression"
      /\ UnaryOperatorPrecedence(Current.kind) # 0
      /\ tokens' = tokens /\ diagnostics' = diagnostics /\ position' = position + 1
  BY DEF ParseUnary, InputUnchanged, Run, StartsUnary
<1>2. PICK frame : stack' = Append(stack, frame) /\ frame.building = "UNARY_EXPRESSION"
  BY DEF ParseUnary, Suspend
<1>3. PICK reader, next : reader = Scan(tokens)[position] /\ next = Scan(tokens)[position + 1]
  OBVIOUS
<1>4. /\ reader \in Readers /\ next = Advance(reader, Current.kind)
      /\ Before(reader) /\ reader.open = Cardinality(Open(stack))
  BY <1>1, <1>3, AtHand DEF Awaits, Before
<1>5. Current.kind \in UnaryOperatorKinds
  BY <1>1, CurrentHasKind, OperatorsHaveKinds
<1>6. next.what = "operand" /\ next.open = reader.open
  BY <1>4, <1>5, AdvancesBefore
<1> QED
  BY <1>1, <1>2, <1>3, <1>4, <1>6, PushReads

LEMMA ParseParenthesizedReads ==
  ASSUME IInv, TreeShape, ReadsSentence, Unexpected(diagnostics) = {}, ParseParenthesized PROVE ReadsSentence'
<1>1. /\ control.fn = "parse_binary_expression" /\ control'.fn = "parse_assignment_expression"
      /\ Current.kind = "OPEN_PARENTHESIS_TOKEN" /\ tokens' = tokens
  BY DEF ParseParenthesized, ParsesPrimary, InputUnchanged, Run
<1>2. diagnostics' = diagnostics /\ position' = position + 1
  BY <1>1 DEF ParseParenthesized, MatchToken, Matches
<1>3. PICK frame : stack' = Append(stack, frame) /\ frame.building = "PARENTHESIZED_EXPRESSION"
  BY DEF ParseParenthesized, Suspend
<1>4. PICK reader, next : reader = Scan(tokens)[position] /\ next = Scan(tokens)[position + 1]
  OBVIOUS
<1>5. /\ reader \in Readers /\ next = Advance(reader, Current.kind)
      /\ Before(reader) /\ reader.open = Cardinality(Open(stack))
  BY <1>1, <1>4, AtHand DEF Awaits, Before
<1>6. next.what = "assignment" /\ next.open = reader.open + 1
  BY <1>1, <1>5, AdvancesBefore
<1> QED
  BY <1>1, <1>2, <1>3, <1>4, <1>5, <1>6, PushReads

LEMMA ParseBinaryRightReads ==
  ASSUME IInv, TreeShape, ReadsSentence, Unexpected(diagnostics) = {}, ParseBinaryRight PROVE ReadsSentence'
<1>1. /\ control.fn = "parse_binary_expression_loop" /\ control'.fn = "parse_binary_expression"
      /\ BinaryOperatorPrecedence(Current.kind) # 0
      /\ tokens' = tokens /\ diagnostics' = diagnostics /\ position' = position + 1
  BY DEF ParseBinaryRight, InputUnchanged, Run, Extends
<1>2. PICK frame : stack' = Append(stack, frame) /\ frame.building = "BINARY_EXPRESSION"
  BY DEF ParseBinaryRight, Suspend
<1>3. PICK reader, next : reader = Scan(tokens)[position] /\ next = Scan(tokens)[position + 1]
  OBVIOUS
<1>4. /\ reader \in Readers /\ next = Advance(reader, Current.kind)
      /\ Behind(reader) /\ reader.open = Cardinality(Open(stack))
  BY <1>1, <1>3, AtHand DEF Awaits, Behind
<1>5. Current.kind \in BinaryOperatorKinds
  BY <1>1, CurrentHasKind, OperatorsHaveKinds
<1>6. next.what = "operand" /\ next.open = reader.open
  BY <1>4, <1>5, AdvancesBehind
<1> QED
  BY <1>1, <1>2, <1>3, <1>4, <1>6, PushReads

LEMMA ReturnLeftReads ==
  ASSUME IInv, TreeShape, ReadsSentence, Unexpected(diagnostics) = {}, ReturnLeft PROVE ReadsSentence'
<1>1. /\ control.fn = "parse_binary_expression_loop" /\ ~Extends /\ control'.fn = "return"
      /\ tokens' = tokens /\ diagnostics' = diagnostics /\ position' = position /\ stack' = stack
      /\ nodes' = nodes
  BY DEF ReturnLeft, InputUnchanged, Run
<1>2. PICK reader, next : reader = Scan(tokens)[position] /\ next = Scan(tokens)[position + 1]
  OBVIOUS
<1>3. /\ Behind(reader) /\ reader.open = Cardinality(Open(stack))
      /\ reader.what = "name" => Current.kind # "EQUALS_TOKEN"
  BY <1>1, <1>2, AtHand DEF Awaits, Behind
<1>4. Current' = Current /\ Top' = Top
  BY <1>1 DEF Current, Peek, Top
<1>5. BinaryOperatorPrecedence(Current.kind) <= Given(nodes, Top)
  <2>1. control.parent = Given(nodes, Top) /\ Given(nodes, Top) \in 0..6
    BY <1>1, TopFrame DEF CallShape
  <2>2. BinaryOperatorPrecedence(Current.kind) \in 0..5
    BY OperatorLevels
  <2> QED
    BY <1>1, <2>1, <2>2 DEF Extends
<1>6. PICK open : open = Cardinality(Open(stack')) /\ open = reader.open
  BY <1>1, <1>3
<1> QED
  BY <1>1, <1>2, <1>3, <1>4, <1>5, <1>6, GoesOn

\* A token that is an operand of its own.
LEMMA ParseSingleReads ==
  ASSUME IInv, ReadsSentence, Unexpected(diagnostics) = {},
         ParsesPrimary, Matches(Current.kind), tokens' = tokens, diagnostics' = diagnostics,
         position' = position + 1, stack' = stack, control'.fn = "parse_binary_expression_loop",
         NEW reader, reader = Scan(tokens)[position], NEW next, next = Scan(tokens)[position + 1],
         Behind(next), next.open = reader.open,
         next.what = "name" => reader.what = "assignment" /\ Current.kind = "IDENTIFIER_TOKEN"
  PROVE  ReadsSentence'
<1>1. control.fn = "parse_binary_expression"
  BY DEF ParsesPrimary
<1>2. reader.open = Cardinality(Open(stack)) /\ (reader.what = "assignment" => ~StartsAssignment)
  BY <1>1, AtHand DEF Awaits
<1>3. Current' = Peek(1)
  BY <1>1, Reading DEF Current, Peek
<1>4. next.what = "name" => Current.kind' # "EQUALS_TOKEN"
  BY <1>2, <1>3 DEF StartsAssignment, Current
<1>5. next = Scan(tokens)[position']
  OBVIOUS
<1>6. PICK open : open = Cardinality(Open(stack')) /\ open = next.open
  BY <1>2
<1> QED
  BY <1>4, <1>5, <1>6, GoesOn

LEMMA PrimaryReads ==
  ASSUME IInv, TreeShape, ReadsSentence, Unexpected(diagnostics) = {},
         ParseBooleanLiteral \/ ParseNumberLiteral \/ ParseName
  PROVE  ReadsSentence'
<1>1. PICK kind, expression : /\ ParseSingle(expression, kind) /\ ParsesPrimary
                              /\ Current.kind \in KeywordKinds \cup { "NUMBER_TOKEN" } => kind = Current.kind
                              /\ Current.kind \notin KeywordKinds \cup { "NUMBER_TOKEN" } =>
                                   kind = "IDENTIFIER_TOKEN" /\ Current.kind # "OPEN_PARENTHESIS_TOKEN"
  <2>1. CASE ParseBooleanLiteral
    BY <2>1 DEF ParseBooleanLiteral
  <2>2. CASE ParseNumberLiteral
    BY <2>2 DEF ParseNumberLiteral
  <2>3. CASE ParseName
    BY <2>3 DEF ParseName
  <2> QED
    BY <2>1, <2>2, <2>3
<1>2. /\ control.fn = "parse_binary_expression" /\ control'.fn = "parse_binary_expression_loop"
      /\ tokens' = tokens /\ stack' = stack /\ MatchToken(kind)
  BY <1>1 DEF ParseSingle, ParsesPrimary, InputUnchanged, Run
<1>3. PICK reader, next : reader = Scan(tokens)[position] /\ next = Scan(tokens)[position + 1]
  OBVIOUS
<1>4. reader \in Readers /\ next = Advance(reader, Current.kind) /\ Before(reader)
  BY <1>2, <1>3, AtHand DEF Awaits, Before
<1>5. CASE Matches(kind)
  <2>1. diagnostics' = diagnostics /\ position' = position + 1 /\ Matches(Current.kind) /\ Current.kind = kind
    BY <1>2, <1>5 DEF MatchToken, Matches
  <2>2. Behind(next) /\ next.open = reader.open
        /\ (next.what = "name" => reader.what = "assignment" /\ Current.kind = "IDENTIFIER_TOKEN")
    <3>1. CASE Current.kind \in KeywordKinds \cup { "NUMBER_TOKEN" }
      <4>1. next.what = "operator" /\ next.open = reader.open
        BY <1>4, <3>1, AdvancesBefore
      <4> QED
        BY <4>1 DEF Behind
    <3>2. CASE Current.kind \notin KeywordKinds \cup { "NUMBER_TOKEN" }
      <4>1. Current.kind = "IDENTIFIER_TOKEN"
        BY <1>1, <2>1, <3>2
      <4>2. next.what = (IF reader.what = "assignment" THEN "name" ELSE "operator") /\ next.open = reader.open
        BY <1>4, <4>1, AdvancesBefore
      <4> QED
        BY <4>1, <4>2 DEF Behind
    <3> QED
      BY <3>1, <3>2
  <2> QED
    BY <1>1, <1>2, <1>3, <2>1, <2>2, ParseSingleReads
<1>6. CASE ~Matches(kind)
  <2>1. diagnostics' = Append(diagnostics, "unexpected_token") /\ Current.kind # kind
    BY <1>2, <1>6 DEF MatchToken, Matches
  <2>2. Current.kind \notin KeywordKinds \cup { "NUMBER_TOKEN", "IDENTIFIER_TOKEN", "OPEN_PARENTHESIS_TOKEN" }
    BY <1>1, <2>1
  <2>3. Current.kind \notin UnaryOperatorKinds
    <3>1. ~StartsUnary /\ control.parent \in 0..6
      BY <1>1, <1>2, Reading DEF ParsesPrimary, Precedences
    <3>2. UnaryOperatorPrecedence(Current.kind) \in { 0, 6 }
      BY OperatorLevels
    <3>3. UnaryOperatorPrecedence(Current.kind) = 0
      BY <3>1, <3>2 DEF StartsUnary
    <3> QED
      BY <3>3 DEF UnaryOperatorKinds
  <2>4. next.what = "nothing"
    BY <1>4, <2>2, <2>3, AdvancesBefore
  <2>5. ~Complete(reader)
    BY <1>4 DEF Before, Complete
  <2> QED
    BY <1>2, <1>3, <2>1, <2>4, <2>5, StopsHere
<1> QED
  BY <1>5, <1>6

LEMMA FinishOperatorReads ==
  ASSUME IInv, TreeShape, ReadsSentence, Unexpected(diagnostics) = {}, FinishOperator PROVE ReadsSentence'
<1>1. /\ control.fn = "return" /\ Top.building \in { "UNARY_EXPRESSION", "BINARY_EXPRESSION" }
      /\ control'.fn = "parse_binary_expression_loop" /\ stack' = Pop
      /\ tokens' = tokens /\ diagnostics' = diagnostics /\ position' = position
  BY DEF FinishOperator, Returning, InputUnchanged, Run
<1>2. PICK reader, next : reader = Scan(tokens)[position] /\ next = Scan(tokens)[position + 1]
  OBVIOUS
<1>3. /\ Behind(reader) /\ reader.open = Cardinality(Open(stack))
      /\ reader.what = "name" => Current.kind # "EQUALS_TOKEN"
  BY <1>1, <1>2, AtHand DEF Awaits, Behind
<1>4. Current' = Current
  BY <1>1 DEF Current, Peek
<1>5. PICK open : open = Cardinality(Open(stack')) /\ open = reader.open
  BY <1>1, <1>3, OpenPopped
<1> QED
  BY <1>1, <1>2, <1>3, <1>4, <1>5, GoesOn

LEMMA FinishAssignmentReads ==
  ASSUME IInv, TreeShape, ReadsSentence, Unexpected(diagnostics) = {}, FinishAssignment PROVE ReadsSentence'
<1>1. /\ control.fn = "return" /\ Top.building = "ASSIGNMENT_EXPRESSION"
      /\ control'.fn = "return" /\ stack' = Pop
      /\ tokens' = tokens /\ diagnostics' = diagnostics /\ position' = position
  BY DEF FinishAssignment, Returning, InputUnchanged, Run
<1>2. PICK reader, next : reader = Scan(tokens)[position] /\ next = Scan(tokens)[position + 1]
  OBVIOUS
<1>3. /\ Behind(reader) /\ reader.open = Cardinality(Open(stack))
      /\ reader.what = "name" => Current.kind # "EQUALS_TOKEN"
      /\ BinaryOperatorPrecedence(Current.kind) <= Given(nodes, Top)
  BY <1>1, <1>2, AtHand DEF Awaits, Behind
<1>4. Current' = Current
  BY <1>1 DEF Current, Peek
<1>5. PICK open : open = Cardinality(Open(stack')) /\ open = reader.open
  BY <1>1, <1>3, OpenPopped
<1>6. BinaryOperatorPrecedence(Current.kind') <= Given(nodes', Top')
  <2>1. Given(nodes, Top) = 0
    BY <1>1 DEF Given
  <2>2. BinaryOperatorPrecedence(Current.kind) \in 0..5 /\ Given(nodes', Top') \in 0..6
    BY OperatorLevels DEF Given
  <2> QED
    BY <1>3, <1>4, <2>1, <2>2
<1> QED
  BY <1>1, <1>2, <1>3, <1>4, <1>5, <1>6, GoesOn

\* The call at hand returned before a token that is not the one that closes what it stands in.
LEMMA ClosesWith ==
  ASSUME IInv, TreeShape, ReadsSentence, Unexpected(diagnostics) = {}, control.fn = "return",
         Top.building \in { "PARENTHESIZED_EXPRESSION", "COMPILATION_UNIT" },
         NEW reader, reader = Scan(tokens)[position], NEW next, next = Scan(tokens)[position + 1]
  PROVE  /\ reader \in Readers /\ Behind(reader) /\ next = Advance(reader, Current.kind)
         /\ reader.open = Cardinality(Open(stack)) /\ reader.open \in Nat
         /\ Current.kind \notin BinaryOperatorKinds
         /\ reader.what = "name" => Current.kind # "EQUALS_TOKEN"
<1>1. /\ reader \in Readers /\ Behind(reader) /\ next = Advance(reader, Current.kind)
      /\ reader.open = Cardinality(Open(stack)) /\ reader.open \in Nat
      /\ reader.what = "name" => Current.kind # "EQUALS_TOKEN"
      /\ BinaryOperatorPrecedence(Current.kind) <= Given(nodes, Top)
  BY AtHand DEF Awaits, Behind
<1>2. Given(nodes, Top) = 0
  BY DEF Given
<1>3. BinaryOperatorPrecedence(Current.kind) \in 0..5
  BY OperatorLevels
<1>4. BinaryOperatorPrecedence(Current.kind) = 0
  BY <1>1, <1>2, <1>3
<1> QED
  BY <1>1, <1>4 DEF BinaryOperatorKinds

LEMMA FinishParenthesizedReads ==
  ASSUME IInv, TreeShape, ReadsSentence, Unexpected(diagnostics) = {}, FinishParenthesized PROVE ReadsSentence'
<1>1. /\ control.fn = "return" /\ Top.building = "PARENTHESIZED_EXPRESSION"
      /\ control'.fn = "parse_binary_expression_loop" /\ stack' = Pop /\ tokens' = tokens
      /\ MatchToken("CLOSE_PARENTHESIS_TOKEN")
  BY DEF FinishParenthesized, FinishWith, Returning, InputUnchanged, Run
<1>2. PICK reader, next : reader = Scan(tokens)[position] /\ next = Scan(tokens)[position + 1]
  OBVIOUS
<1>3. /\ reader \in Readers /\ Behind(reader) /\ next = Advance(reader, Current.kind)
      /\ reader.open = Cardinality(Open(stack)) /\ reader.open \in Nat
      /\ Current.kind \notin BinaryOperatorKinds
      /\ reader.what = "name" => Current.kind # "EQUALS_TOKEN"
  BY <1>1, <1>2, ClosesWith
<1>4. Cardinality(Open(Pop)) \in Nat /\ Cardinality(Open(stack)) = Cardinality(Open(Pop)) + 1
  BY <1>1, OpenPopped
<1>5. CASE Matches("CLOSE_PARENTHESIS_TOKEN")
  <2>1. diagnostics' = diagnostics /\ position' = position + 1 /\ Current.kind = "CLOSE_PARENTHESIS_TOKEN"
    BY <1>1, <1>5 DEF MatchToken, Matches
  <2>2. next.what = "operator" /\ next.open = reader.open - 1
    BY <1>3, <1>4, <2>1, AdvancesBehind
  <2>3. PICK open : open = Cardinality(Open(stack')) /\ open = next.open
    BY <1>1, <1>3, <1>4, <2>2
  <2>4. Behind(next) /\ next = Scan(tokens)[position']
    BY <1>2, <2>1, <2>2 DEF Behind
  <2> QED
    BY <1>1, <2>1, <2>2, <2>3, <2>4, GoesOn
<1>6. CASE ~Matches("CLOSE_PARENTHESIS_TOKEN")
  <2>1. diagnostics' = Append(diagnostics, "unexpected_token") /\ Current.kind # "CLOSE_PARENTHESIS_TOKEN"
    BY <1>1, <1>6 DEF MatchToken, Matches
  <2>2. next.what = "nothing"
    BY <1>3, <2>1, AdvancesBehind
  <2>3. ~Complete(reader)
    BY <1>3, <1>4 DEF Complete
  <2> QED
    BY <1>1, <1>2, <2>1, <2>2, <2>3, StopsHere
<1> QED
  BY <1>5, <1>6

LEMMA FinishCompilationUnitReads ==
  ASSUME IInv, TreeShape, ReadsSentence, Unexpected(diagnostics) = {}, FinishCompilationUnit
  PROVE  ReadsSentence'
<1>1. /\ control.fn = "return" /\ Top.building = "COMPILATION_UNIT"
      /\ control'.fn = "done" /\ tokens' = tokens /\ MatchToken(EOF)
  BY DEF FinishCompilationUnit, FinishWith, Returning, InputUnchanged, Run
<1>2. PICK reader, next : reader = Scan(tokens)[position] /\ next = Scan(tokens)[position + 1]
  OBVIOUS
<1>3. /\ reader \in Readers /\ Behind(reader) /\ next = Advance(reader, Current.kind)
      /\ reader.open = Cardinality(Open(stack))
      /\ Current.kind \notin BinaryOperatorKinds
      /\ reader.what = "name" => Current.kind # "EQUALS_TOKEN"
  BY <1>1, <1>2, ClosesWith
<1>4. reader.open = 0
  <2>1. Pop = <<>>
    BY <1>1, PopFrame
  <2>2. PICK popped : popped = Pop /\ Len(popped) = 0
    BY <2>1
  <2>3. Open(popped) = {}
    BY <2>2 DEF Open
  <2>4. Cardinality(Open(Pop)) = 0
    BY <2>2, <2>3, FS_EmptySet
  <2> QED
    BY <1>1, <1>3, <2>4, OpenPopped
<1>5. CASE Matches(EOF)
  BY <1>1, <1>5 DEF MatchToken, ReadsSentence
<1>6. CASE ~Matches(EOF)
  <2>1. diagnostics' = Append(diagnostics, "unexpected_token") /\ Current.kind # EOF
    BY <1>1, <1>6 DEF MatchToken, Matches
  <2>2. next.what = "nothing"
    BY <1>3, <1>4, AdvancesBehind
  <2>3. position + 1 # Len(tokens)
    BY <1>1, <2>1, CurrentIsReal
  <2> QED
    BY <1>1, <1>2, <2>1, <2>2, <2>3, StopsHere
<1> QED
  BY <1>5, <1>6

\* Once parser_new has read the text, a step reports at most an unexpected token.
LEMMA StepsAfterReading ==
  ASSUME Next, control.fn # "parser_new"
  PROVE  /\ UNCHANGED << lexed, read, tokens >> /\ control'.fn # "parser_new"
         /\ diagnostics' = diagnostics \/ diagnostics' = Append(diagnostics, "unexpected_token")
<1>1. CASE ParseAssignment \/ ParseNoAssignment \/ ParseUnary \/ ParseBinaryRight \/ ReturnLeft
  BY <1>1 DEF ParseAssignment, ParseNoAssignment, ParseUnary, ParseBinaryRight, ReturnLeft, Run,
              InputUnchanged
<1>2. CASE ParseParenthesized
  BY <1>2 DEF ParseParenthesized, MatchToken, Run, InputUnchanged
<1>3. CASE ParseBooleanLiteral \/ ParseNumberLiteral \/ ParseName
  BY <1>3 DEF ParseBooleanLiteral, ParseNumberLiteral, ParseName, ParseSingle, MatchToken, Run, InputUnchanged
<1>4. CASE FinishOperator \/ FinishAssignment
  BY <1>4 DEF FinishOperator, FinishAssignment, Run, InputUnchanged
<1>5. CASE FinishParenthesized \/ FinishCompilationUnit
  BY <1>5 DEF FinishParenthesized, FinishCompilationUnit, FinishWith, MatchToken, Run, InputUnchanged
<1> QED
  BY <1>1, <1>2, <1>3, <1>4, <1>5 DEF Next, LexToken

\* Once there is a report of an unexpected token there is one, and the text is not read again.
LEMMA ReportedReads ==
  ASSUME IInv, ReadsSentence, Unexpected(diagnostics) # {}, Next PROVE ReadsSentence'
<1>1. control.fn # "parser_new" /\ ~Complete(Scan(tokens)[Len(tokens) - 1])
  BY DEF ReadsSentence
<1>2. /\ tokens' = tokens /\ control'.fn # "parser_new"
      /\ diagnostics' = diagnostics \/ diagnostics' = Append(diagnostics, "unexpected_token")
  BY <1>1, StepsAfterReading
<1>3. Unexpected(diagnostics') # {}
  <2>1. PICK k \in Unexpected(diagnostics) : TRUE
    OBVIOUS
  <2>2. diagnostics \in Seq({ "lexical_error", "unexpected_token" })
    BY DEF IInv, TypeOK
  <2>3. PICK bag : bag = Append(diagnostics, "unexpected_token")
    OBVIOUS
  <2>4. k \in Unexpected(bag)
    <3>1. PICK l \in Nat : l = Len(diagnostics)
      BY <2>2
    <3>2. Len(bag) = l + 1 /\ \A i \in 1..l : bag[i] = diagnostics[i]
      BY <2>2, <2>3, <3>1, PushOne
    <3>3. k \in 1..l /\ k \in 1..l + 1 /\ diagnostics[k] = "unexpected_token"
      BY <3>1 DEF Unexpected
    <3> QED
      BY <3>2, <3>3 DEF Unexpected
  <2> QED
    BY <1>2, <2>3, <2>4
<1> QED
  BY <1>1, <1>2, <1>3 DEF ReadsSentence

LEMMA ReadsSentenceKept == IInv /\ TreeShape /\ ReadsSentence /\ [Next]_vars => ReadsSentence'
<1> SUFFICES ASSUME IInv, TreeShape, ReadsSentence, [Next]_vars PROVE ReadsSentence'
  OBVIOUS
<1>1. CASE UNCHANGED vars
  <2>1. /\ tokens' = tokens /\ position' = position /\ diagnostics' = diagnostics
        /\ nodes' = nodes /\ stack' = stack /\ control' = control
    BY <1>1 DEF vars
  <2>2. Current' = Current /\ Top' = Top /\ StartsAssignment' = StartsAssignment
    BY <2>1 DEF Current, Peek, Top, StartsAssignment
  <2> QED
    BY <2>1, <2>2 DEF ReadsSentence, Awaits
<1>2. CASE Next
  <2>1. CASE LexToken
    BY <2>1, LexTokenReads
  <2>2. CASE Unexpected(diagnostics) # {}
    BY <1>2, <2>2, ReportedReads
  <2>3. CASE Unexpected(diagnostics) = {} /\ ~LexToken
    BY <1>2, <2>3, ParseAssignmentReads, ParseNoAssignmentReads, ParseUnaryReads, ParseParenthesizedReads,
       PrimaryReads, ParseBinaryRightReads, ReturnLeftReads, FinishOperatorReads, FinishAssignmentReads,
       FinishParenthesizedReads, FinishCompilationUnitReads DEF Next
  <2> QED
    BY <2>1, <2>2, <2>3
<1> QED
  BY <1>1, <1>2

LEMMA InitReads == Init => ReadsSentence
<1> SUFFICES ASSUME Init PROVE ReadsSentence
  OBVIOUS
<1>1. diagnostics = <<>> /\ control.fn = "parser_new"
  BY DEF Init, Run
<1>2. Unexpected(diagnostics) = {}
  BY <1>1 DEF Unexpected
<1> QED
  BY <1>1, <1>2 DEF ReadsSentence

\* The parser is a reader that goes from left to right, for texts of any length: its first
\* report is of a token that no sentence with this beginning goes on with.
THEOREM ParserReadsSentences == Spec => []ReadsSentence
<1>1. TreeInv => IInv /\ TreeShape
  BY DEF TreeInv
<1> QED
  BY <1>1, InitReads, ReadsSentenceKept, TreeInvariant, PTL DEF Spec

LEMMA AcceptsTheLanguage == TreeInv /\ ReadsSentence => ReportsIffNotSentence
<1> SUFFICES ASSUME TreeInv, ReadsSentence, control.fn = "done"
             PROVE  (Unexpected(diagnostics) # {}) <=> ~IsSentence(tokens)
  BY DEF ReportsIffNotSentence, Unexpected
<1>1. ASSUME Unexpected(diagnostics) = {} PROVE IsSentence(tokens)
  BY <1>1, CleanParseIsSentence
<1>2. ASSUME Unexpected(diagnostics) # {}, IsSentence(tokens) PROVE FALSE
  <2>1. PICK n \in Nat : n = Len(tokens) /\ n >= 1
    <3>1. tokens \in Seq(KeptToken) /\ tokens # <<>>
      BY DEF TreeInv, IInv, TypeOK, EndedByEOF
    <3> QED
      BY <3>1, EmptySeq
  <2>2. Complete(Scan(tokens)[n - 1])
    BY <1>2, <2>1, SentenceIsComplete
  <2> QED
    BY <1>2, <2>1, <2>2 DEF ReadsSentence
<1> QED
  BY <1>1, <1>2

\* The parser is right about every text: it reports an unexpected token if and only if the
\* grammar does not derive the text, whatever its length and its depth.
THEOREM ParserAcceptsTheLanguage == Spec => []ReportsIffNotSentence
BY TreeInvariant, ParserReadsSentences, AcceptsTheLanguage, PTL

--------------------------------------------------------------------------------
(* The tokens that the parser keeps.                                              *)

Prefix(text, n) == SubSeq(text, 1, n)
KeptPieces(text) == [ i \in 1..Len(text) |-> IF text[i].kind \in TriviaKinds THEN <<>> ELSE << text[i] >> ]

LEMMA PrefixIs ==
  ASSUME NEW S, NEW text \in Seq(S), NEW n \in 0..Len(text)
  PROVE  /\ Prefix(text, n) \in Seq(S) /\ Len(Prefix(text, n)) = n
         /\ \A i \in 1..n : Prefix(text, n)[i] = text[i]
<1>1. PICK m \in Nat : m = Len(text)
  OBVIOUS
<1>2. n \in Nat /\ 0 \in Nat /\ 0 <= n /\ n <= m /\ 0 + 1 = 1 /\ n - 0 = n
  BY <1>1
<1>3. \A i \in 1..n : 0 + i = i
  BY <1>2
<1> QED
  BY <1>1, <1>2, <1>3, Slicing DEF Prefix

LEMMA PiecesTyped ==
  ASSUME NEW S, NEW text \in Seq(S)
  PROVE  KeptPieces(text) \in Seq(Seq(S)) /\ Len(KeptPieces(text)) = Len(text)
<1>1. PICK n \in Nat : n = Len(text)
  OBVIOUS
<1>2. \A i \in 1..n : text[i] \in S
  BY <1>1
<1>3. ASSUME NEW i \in 1..n
      PROVE  (IF text[i].kind \in TriviaKinds THEN <<>> ELSE << text[i] >>) \in Seq(S)
  <2>1. << text[i] >> \in Seq(S) /\ <<>> \in Seq(S)
    BY <1>2
  <2> QED
    BY <2>1
<1>4. KeptPieces(text) \in [ 1..n -> Seq(S) ]
  BY <1>1, <1>3 DEF KeptPieces
<1> QED
  BY <1>1, <1>4

LEMMA KeptTyped == ASSUME NEW S, NEW text \in Seq(S) PROVE Kept(text) \in Seq(S)
BY PiecesTyped, FlattenTyped DEF Kept, KeptPieces

LEMMA KeptNone == \A text : Len(text) = 0 => Kept(text) = <<>>
<1> SUFFICES ASSUME NEW text, Len(text) = 0 PROVE Kept(text) = <<>>
  OBVIOUS
<1>1. KeptPieces(text) = <<>>
  BY DEF KeptPieces
<1>2. Len(KeptPieces(text)) = 0
  BY <1>1
<1> QED
  BY <1>1, <1>2, FlattenNone DEF Kept, KeptPieces

LEMMA KeptOneMore ==
  ASSUME NEW S, NEW text \in Seq(S), NEW n \in Nat, n < Len(text)
  PROVE  Kept(Prefix(text, n + 1)) =
            IF text[n + 1].kind \in TriviaKinds THEN Kept(Prefix(text, n))
                                               ELSE Append(Kept(Prefix(text, n)), text[n + 1])
<1>1. PICK m \in Nat : m = Len(text)
  OBVIOUS
<1>2. n \in 0..m /\ n + 1 \in 0..m /\ n + 1 \in 1..n + 1 /\ \A i \in 1..n : i \in 1..n + 1
  BY <1>1
<1>3. PICK old : old = Prefix(text, n)
  OBVIOUS
<1>4. PICK new : new = Prefix(text, n + 1)
  OBVIOUS
<1>5. old \in Seq(S) /\ Len(old) = n /\ \A i \in 1..n : old[i] = text[i]
  BY <1>1, <1>2, <1>3, PrefixIs
<1>6. new \in Seq(S) /\ Len(new) = n + 1 /\ \A i \in 1..n + 1 : new[i] = text[i]
  BY <1>1, <1>2, <1>4, PrefixIs
<1>7. KeptPieces(old) \in Seq(Seq(S)) /\ Len(KeptPieces(old)) = n
  BY <1>5, PiecesTyped
<1>8. KeptPieces(new) \in Seq(Seq(S)) /\ Len(KeptPieces(new)) = n + 1
  BY <1>6, PiecesTyped
<1>9. \A i \in 1..n : KeptPieces(new)[i] = KeptPieces(old)[i]
  BY <1>2, <1>5, <1>6 DEF KeptPieces
<1>10. Begins(KeptPieces(old), Len(KeptPieces(old)), KeptPieces(new))
  BY <1>7, <1>9 DEF Begins
<1>11. KeptPieces(new)[n + 1] = IF text[n + 1].kind \in TriviaKinds THEN <<>> ELSE << text[n + 1] >>
  BY <1>2, <1>6 DEF KeptPieces
<1>12. Kept(new) = Kept(old) \o KeptPieces(new)[n + 1]
  <2>1. Seqs!FlattenSeq(KeptPieces(new))
           = Seqs!FlattenSeq(KeptPieces(old)) \o KeptPieces(new)[Len(KeptPieces(old)) + 1]
    BY <1>7, <1>8, <1>10, FlattenAppend
  <2> QED
    BY <1>7, <2>1 DEF Kept, KeptPieces
<1>13. PICK kept \in Seq(S) : kept = Kept(old)
  BY <1>5, KeptTyped
<1>14. kept \o <<>> = kept /\ kept \o << text[n + 1] >> = Append(kept, text[n + 1])
  <2>1. text[n + 1] \in S
    BY <1>1, <1>2
  <2> QED
    BY <1>13, <2>1
<1> QED
  BY <1>3, <1>4, <1>11, <1>12, <1>13, <1>14

\* That there is such a report in the bag.
Reported(report, bag) == report \in { bag[i] : i \in 1..Len(bag) }

LEMMA ReportedNext ==
  ASSUME NEW S, NEW bag \in Seq(S), NEW report \in S, NEW other
  PROVE  Reported(other, Append(bag, report)) <=> Reported(other, bag) \/ other = report
<1>1. PICK n \in Nat : n = Len(bag)
  OBVIOUS
<1>2. PICK new : new = Append(bag, report)
  OBVIOUS
<1>3. Len(new) = n + 1 /\ new[n + 1] = report /\ \A i \in 1..n : new[i] = bag[i]
  BY <1>1, <1>2, PushOne
<1>4. \A i \in 1..n + 1 : i \in 1..n \/ i = n + 1
  OBVIOUS
<1>5. n + 1 \in 1..n + 1 /\ \A i \in 1..n : i \in 1..n + 1
  OBVIOUS
<1>6. { new[i] : i \in 1..n + 1 } = { bag[i] : i \in 1..n } \cup { report }
  BY <1>3, <1>4, <1>5
<1> QED
  BY <1>1, <1>2, <1>3, <1>6 DEF Reported

LEMMA KeepsTokensInit == Init => KeepsTokens
<1> SUFFICES ASSUME Init PROVE KeepsTokens
  OBVIOUS
<1>1. /\ lexed \in Seq(Token) /\ read = 0 /\ tokens = <<>> /\ diagnostics = <<>>
      /\ control.fn = "parser_new"
  BY LexingsAssumption DEF Init, Run
<1>2. 0 \in 0..Len(lexed)
  <2>1. Len(lexed) \in Nat
    BY <1>1
  <2> QED
    BY <2>1
<1>3. Len(Prefix(lexed, 0)) = 0
  BY <1>1, <1>2, PrefixIs
<1>4. tokens = Kept(SubSeq(lexed, 1, read))
  BY <1>1, <1>3, KeptNone DEF Prefix
<1>5. 1..read = {} /\ 1..Len(diagnostics) = {}
  BY <1>1
<1>6. ~Reported("lexical_error", diagnostics) /\ ~\E i \in 1..read : LexicalError(lexed[i])
  BY <1>5 DEF Reported
<1> QED
  BY <1>1, <1>4, <1>6 DEF KeepsTokens, Reported

LEMMA LexTokenKeeps == ASSUME IInv, KeepsTokens, LexToken PROVE KeepsTokens'
<1>1. PICK token : token = lexed[read + 1]
  OBVIOUS
<1>2. /\ control.fn = "parser_new" /\ lexed' = lexed /\ read' = read + 1
      /\ tokens' = IF token.kind \in TriviaKinds THEN tokens ELSE Append(tokens, token)
      /\ diagnostics' = IF LexicalError(token) THEN Append(diagnostics, "lexical_error") ELSE diagnostics
      /\ token.kind # EOF => control' = control
  BY <1>1 DEF LexToken
<1>3. /\ lexed \in Seq(Token) /\ IsLexing(lexed) /\ read \in 0..Len(lexed)
      /\ diagnostics \in Seq({ "lexical_error", "unexpected_token" })
  BY DEF IInv, TypeOK
<1>4. read < Len(lexed)
  BY <1>2 DEF IInv, EndedByEOF
<1>5. PICK m \in Nat : m = Len(lexed)
  BY <1>3
<1>6. read \in Nat /\ read + 1 \in 1..m
  BY <1>3, <1>4, <1>5
<1>7. tokens' = Kept(SubSeq(lexed', 1, read'))
  <2>1. Kept(Prefix(lexed, read + 1)) =
           IF token.kind \in TriviaKinds THEN Kept(Prefix(lexed, read))
                                        ELSE Append(Kept(Prefix(lexed, read)), token)
    BY <1>1, <1>3, <1>4, <1>6, KeptOneMore
  <2>2. tokens = Kept(Prefix(lexed, read))
    BY DEF KeepsTokens, Prefix
  <2> QED
    BY <1>2, <2>1, <2>2 DEF Prefix
<1>8. control'.fn # "parser_new" => read' = Len(lexed')
  <2>1. token.kind = EOF => read + 1 = m
    BY <1>1, <1>3, <1>5, <1>6 DEF IsLexing
  <2> QED
    BY <1>2, <1>5, <2>1
<1>9. Reported("lexical_error", diagnostics') <=> \E i \in 1..read' : LexicalError(lexed'[i])
  <2>1. Reported("lexical_error", diagnostics) <=> \E i \in 1..read : LexicalError(lexed[i])
    BY DEF KeepsTokens, Reported
  <2>2. Reported("lexical_error", diagnostics')
           <=> Reported("lexical_error", diagnostics) \/ LexicalError(token)
    <3>1. Reported("lexical_error", Append(diagnostics, "lexical_error"))
      BY <1>3, ReportedNext
    <3> QED
      BY <1>2, <3>1
  <2>3. (\E i \in 1..read + 1 : LexicalError(lexed[i]))
           <=> (\E i \in 1..read : LexicalError(lexed[i])) \/ LexicalError(token)
    <3>1. \A i \in 1..read + 1 : i \in 1..read \/ i = read + 1
      BY <1>6
    <3>2. read + 1 \in 1..read + 1 /\ \A i \in 1..read : i \in 1..read + 1
      BY <1>6
    <3> QED
      BY <1>1, <3>1, <3>2
  <2> QED
    BY <1>2, <2>1, <2>2, <2>3
<1> QED
  BY <1>7, <1>8, <1>9 DEF KeepsTokens, Reported

LEMMA KeepsTokensKept == IInv /\ KeepsTokens /\ [Next]_vars => KeepsTokens'
<1> SUFFICES ASSUME IInv, KeepsTokens, [Next]_vars PROVE KeepsTokens'
  OBVIOUS
<1>1. CASE LexToken
  BY <1>1, LexTokenKeeps
<1>2. CASE UNCHANGED vars
  BY <1>2 DEF KeepsTokens, vars
<1>3. CASE Next /\ ~LexToken
  <2>1. control.fn # "parser_new"
    BY <1>3 DEF Next, ParseAssignment, ParseNoAssignment, ParseUnary, ParseParenthesized, ParseBooleanLiteral,
                ParseNumberLiteral, ParseName, ParsesPrimary, ParseBinaryRight, ReturnLeft, FinishOperator,
                FinishAssignment, FinishParenthesized, FinishCompilationUnit, FinishWith, Returning
  <2>2. /\ UNCHANGED << lexed, read, tokens >> /\ control'.fn # "parser_new"
        /\ diagnostics' = diagnostics \/ diagnostics' = Append(diagnostics, "unexpected_token")
    BY <1>3, <2>1, StepsAfterReading
  <2>3. diagnostics \in Seq({ "lexical_error", "unexpected_token" })
    BY DEF IInv, TypeOK
  <2>4. Reported("lexical_error", diagnostics') <=> Reported("lexical_error", diagnostics)
    <3>1. Reported("lexical_error", Append(diagnostics, "unexpected_token"))
             <=> Reported("lexical_error", diagnostics) \/ "lexical_error" = "unexpected_token"
      BY <2>3, ReportedNext
    <3> QED
      BY <2>2, <3>1
  <2> QED
    BY <2>1, <2>2, <2>4 DEF KeepsTokens, Reported
<1> QED
  BY <1>1, <1>2, <1>3

\* What the parser is given is what its reports are about, and nothing of it is lost: the
\* kept tokens are the text without its trivia.
LEMMA NothingIsReported ==
  ASSUME TreeInv, ReadsSentence, KeepsTokens, control.fn = "done"
  PROVE  diagnostics = <<>>
            <=> (\A i \in 1..Len(lexed) : ~LexicalError(lexed[i])) /\ IsSentence(Kept(lexed))
<1>1. /\ lexed \in Seq(Token) /\ diagnostics \in Seq({ "lexical_error", "unexpected_token" })
  BY DEF TreeInv, IInv, TypeOK
<1>2. read = Len(lexed) /\ tokens = Kept(SubSeq(lexed, 1, read))
  BY DEF KeepsTokens
<1>3. tokens = Kept(lexed)
  <2>1. PICK n \in Nat : n = Len(lexed)
    BY <1>1
  <2>2. SubSeq(lexed, 1, n) = lexed
    BY <1>1, <2>1
  <2> QED
    BY <1>2, <2>1, <2>2
<1>4. Reported("lexical_error", diagnostics) <=> \E i \in 1..Len(lexed) : LexicalError(lexed[i])
  BY <1>2 DEF KeepsTokens, Reported
<1>5. Reported("unexpected_token", diagnostics) <=> ~IsSentence(tokens)
  BY AcceptsTheLanguage DEF ReportsIffNotSentence, Reported
<1>6. diagnostics = <<>>
         <=> ~Reported("lexical_error", diagnostics) /\ ~Reported("unexpected_token", diagnostics)
  <2>1. PICK n \in Nat : n = Len(diagnostics)
    BY <1>1
  <2>2. CASE diagnostics = <<>>
    <3>1. 1..Len(diagnostics) = {}
      BY <2>2
    <3> QED
      BY <2>2, <3>1 DEF Reported
  <2>3. CASE diagnostics # <<>>
    <3>1. 1 \in 1..n
      BY <1>1, <2>1, <2>3, EmptySeq
    <3>2. diagnostics[1] \in { "lexical_error", "unexpected_token" }
      BY <1>1, <2>1, <3>1
    <3> QED
      BY <2>1, <2>3, <3>1, <3>2 DEF Reported
  <2> QED
    BY <2>2, <2>3
<1> QED
  BY <1>3, <1>4, <1>5, <1>6
================================================================================
