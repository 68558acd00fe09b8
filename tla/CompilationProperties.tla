-------------------------- MODULE CompilationProperties --------------------------
(***************************************************************************)
(* What a compilation promises: who owns which block, and the language it  *)
(* implements, stated by recursion over the syntax tree.                   *)
(***************************************************************************)
EXTENDS Compilation, SequenceOperators

TypeOK ==
    /\ phase \in Phases
    /\ heap \in Seq(Cell) /\ freed \subseteq 1..Len(heap)
    /\ DOMAIN scope \subseteq Name /\ \A name \in DOMAIN scope : scope[name] \in 1..Len(heap)
    /\ declared \subseteq 1..Len(heap)
    /\ reports \in Seq(BinderReports)
    /\ binder \in BinderCall
    /\ binder_stack \in Seq(BinderFrame)
    /\ IsFiniteSet(DOMAIN objects) /\ DOMAIN objects \subseteq Pointer
    /\ \A id \in DOMAIN objects : objects[id] \in Objects
    /\ DOMAIN variables \subseteq Name
    /\ \A name \in DOMAIN variables : variables[name] \in [ type : ObjectTypes, value : Nat ]
    /\ evaluator \in EvaluatorCall
    /\ evaluator_stack \in Seq(EvaluatorFrame)

--------------------------------------------------------------------------------
(* Ownership.                                                                   *)

\* Who points to an Object: a suspended call to its operands, the running one to the
\* value it returns, main to the result, the map to the values of the variables.
Operands(calls) == { at \in (1..Len(calls)) \X (1..2) : at[2] <= Len(calls[at[1]].held) }
ObjectOwners(id) ==
    ({ "call" } \X { at \in Operands(evaluator_stack) : evaluator_stack[at[1]].held[at[2]] = id })
      \cup ({ "evaluator" } \X ({ evaluator.value } \cap { id }))
      \cup ({ "result" } \X ({ result.value } \cap { id }))
      \cup ({ "map" } \X { name \in DOMAIN variables : variables[name].value = id })

\* Every Object has one owner, and every pointer that is not NULL leads to a live one.
\* Nothing is freed twice, used after it was freed, shared, or lost.
ObjectsOwnedOnce ==
    phase # "dead" =>
        /\ \A id \in DOMAIN objects : \E owner \in ObjectOwners(id) : ObjectOwners(id) = { owner }
        /\ \A at \in Operands(evaluator_stack) :
              evaluator_stack[at[1]].held[at[2]] \in DOMAIN objects \cup { Null }
        /\ { evaluator.value, result.value } \subseteq DOMAIN objects \cup { Null }
        /\ \A name \in DOMAIN variables : variables[name].value \in DOMAIN objects \cup { Null }

\* The pointers to cells of the bound tree: from live cells, from the calls of the
\* binder and from the scope.
LiveCells == (1..Len(heap)) \ freed

CellOwners(n) ==
    ({ "cell" } \X { at \in LiveCells \X (1..2) :
                        at[2] <= Len(heap[at[1]].kids) /\ heap[at[1]].kids[at[2]] = n })
      \cup ({ "call" } \X { at \in Operands(binder_stack) : binder_stack[at[1]].held[at[2]] = n })
      \cup ({ "scope" } \X { name \in DOMAIN scope : scope[name] = n })
      \cup ({ "binder" } \X { call \in { binder } : call.fn \in { "return", "done" } /\ call.node = n })

LostCells == { n \in LiveCells : CellOwners(n) = {} }
Refusals  == Cardinality({ i \in 1..Len(reports) : reports[i] = "variable_already_declared" })

\* While the tree is built and evaluated each live cell has one owner and no owner
\* has a freed cell, and when main has its answer all cells were given back, on the
\* error paths too; only the copies of symbols that bound_scope_try_declare refused
\* have no owner and leak.
CellsOwnedOnce ==
    /\ phase \in { "binding", "evaluating" } =>
          /\ \A n \in LiveCells \ LostCells : \E owner \in CellOwners(n) : CellOwners(n) = { owner }
          /\ \A n \in LostCells : heap[n].cell = "SYMBOL"
          /\ Cardinality(LostCells) = Refusals
          /\ \A n \in freed : CellOwners(n) = {}
    /\ phase = "answered" => Cardinality(LiveCells) = Refusals

\* binder.c:54, "don't free variables, they could be reused": the symbols that
\* BoundGlobalScope lists outlive the binder.
DeclaredVariablesReusable == declared \cap freed = {}

--------------------------------------------------------------------------------
(* The typing rules of the language, with the names declared so far as env.  A  *)
(* variable is declared once, by the assignment, after its right-hand side.     *)

Signature(kind, operands) ==
    { op.result_type : op \in
        IF Len(operands) = 1
        THEN { u \in UnaryOperators : u.syntax_kind = kind /\ u.operand_type = operands[1] }
        ELSE { b \in BinaryOperators : b.syntax_kind = kind
                                         /\ operands = << b.operand_type, b.operand_type >> } }

Extended(env, name, x) == [ n \in DOMAIN env \cup { name } |-> IF n = name THEN x ELSE env[n] ]
NoNames == [ n \in {} |-> 0 ]

\* What an expression is under the names declared before it: a kid has the smaller number.
Environments(S) == UNION { [ names -> S ] : names \in SUBSET Name }

TypingIn(n, typing, env) ==
    CASE KindOf(n) = "LITERAL_EXPRESSION" ->
            [ ok |-> TRUE, type |-> LiteralValue(n).type, env |-> env ]
      [] KindOf(n) = "NAME_EXPRESSION" ->
            LET name == TextOf(Kid(n, 1)) IN
            IF name \in DOMAIN env THEN [ ok |-> TRUE, type |-> env[name], env |-> env ]
                                   ELSE [ ok |-> FALSE, type |-> "NULL", env |-> env ]
      [] KindOf(n) = "PARENTHESIZED_EXPRESSION" -> typing[Kid(n, 2)][env]
      [] KindOf(n) = "ASSIGNMENT_EXPRESSION" ->
            LET name == TextOf(Kid(n, 1))
                right == typing[Kid(n, 3)][env]
            IN [ ok   |-> right.ok /\ name \notin DOMAIN right.env,
                 type |-> right.type,
                 env  |-> Extended(right.env, name, right.type) ]
      [] KindOf(n) = "UNARY_EXPRESSION" ->
            LET operand == typing[Kid(n, 2)][env]
                types   == Signature(KindOf(Kid(n, 1)), << operand.type >>)
            IN [ ok   |-> operand.ok /\ types # {},
                 type |-> IF types = {} THEN "NULL" ELSE CHOOSE t \in types : TRUE,
                 env  |-> operand.env ]
      [] KindOf(n) = "BINARY_EXPRESSION" ->
            LET left  == typing[Kid(n, 1)][env]
                right == typing[Kid(n, 3)][left.env]
                types == Signature(KindOf(Kid(n, 2)), << left.type, right.type >>)
            IN [ ok   |-> left.ok /\ right.ok /\ types # {},
                 type |-> IF types = {} THEN "NULL" ELSE CHOOSE t \in types : TRUE,
                 env  |-> right.env ]
      [] OTHER -> [ ok |-> FALSE, type |-> "NULL", env |-> env ]

Typing ==
    LET typing[n \in 1..Len(syntax.nodes)] ==
            [ env \in Environments(ObjectTypes) |-> TypingIn(n, typing, env) ]
    IN typing

Expression == syntax.nodes[syntax.root].kids[1]

\* The binder reports something exactly when the submission has no type: going on
\* with the operand or with the literal 0 after a report hides no submission's
\* first error and makes up none.
ReportsIffIllTyped ==
    binder.fn = "done" =>
        LET typing == Typing[Expression][NoNames] IN
        /\ (reports = <<>>) <=> typing.ok
        /\ typing.ok => heap[binder.node].type = typing.type

--------------------------------------------------------------------------------
(* The meaning of a submission, as a function of its text alone.  "trap" is the *)
(* value of a division without a quotient.                                      *)

Trap == [ type |-> "trap" ]

Apply(kind, left, right) ==
    CASE kind = "PLUS_TOKEN"  -> Int64(Wrap(left.i64 + right.i64))
      [] kind = "MINUS_TOKEN" -> Int64(Wrap(left.i64 - right.i64))
      [] kind = "STAR_TOKEN"  -> Int64(Wrap(left.i64 * right.i64))
      [] kind = "SLASH_TOKEN" ->
            IF DivisionTraps(left.i64, right.i64) THEN Trap
            ELSE CHOOSE q \in Int64s :                      \* truncated towards zero
                    LET r == left.i64 - q.i64 * right.i64 IN
                    /\ Abs(r) < Abs(right.i64)
                    /\ r = 0 \/ (r < 0) = (left.i64 < 0)
      [] kind = "AMPERSAND_AMPERSAND_TOKEN" -> Bool(left = Bool(TRUE) /\ right = Bool(TRUE))
      [] kind = "PIPE_PIPE_TOKEN"           -> Bool(left = Bool(TRUE) \/ right = Bool(TRUE))
      [] kind = "EQUALS_EQUALS_TOKEN"       -> Bool(left = right)
      [] kind = "BANG_EQUALS_TOKEN"         -> Bool(left # right)

MeaningIn(n, meaning, env) ==
    CASE KindOf(n) = "LITERAL_EXPRESSION" -> [ value |-> LiteralValue(n), env |-> env ]
      [] KindOf(n) = "NAME_EXPRESSION" -> [ value |-> env[TextOf(Kid(n, 1))], env |-> env ]
      [] KindOf(n) = "PARENTHESIZED_EXPRESSION" -> meaning[Kid(n, 2)][env]
      [] KindOf(n) = "ASSIGNMENT_EXPRESSION" ->
            LET right == meaning[Kid(n, 3)][env] IN
            IF right.value = Trap THEN right
            ELSE [ right EXCEPT !.env = Extended(@, TextOf(Kid(n, 1)), right.value) ]
      [] KindOf(n) = "UNARY_EXPRESSION" ->
            LET operand == meaning[Kid(n, 2)][env]
                kind    == KindOf(Kid(n, 1))
            IN IF operand.value = Trap \/ kind = "PLUS_TOKEN" THEN operand
               ELSE [ operand EXCEPT !.value =
                        IF kind = "BANG_TOKEN" THEN Bool(~@.bool) ELSE Int64(Wrap(0 - @.i64)) ]
      [] KindOf(n) = "BINARY_EXPRESSION" ->
            LET left  == meaning[Kid(n, 1)][env]
                right == meaning[Kid(n, 3)][left.env]
            IN IF left.value = Trap THEN left
               ELSE IF right.value = Trap THEN right
               ELSE [ right EXCEPT !.value = Apply(KindOf(Kid(n, 2)), left.value, right.value) ]
      [] OTHER -> [ value |-> Trap, env |-> env ]

Meaning ==
    LET meaning[n \in 1..Len(syntax.nodes)] ==
            [ env \in Environments(Objects) |-> MeaningIn(n, meaning, env) ]
    IN meaning

\* The answer to an accepted submission is its meaning: no operand is evaluated in
\* the wrong order or skipped, and no variable of an earlier submission, which may
\* have had another type, is ever read.  The variables it assigned have the values
\* it gave them; the process dies exactly when a division has no quotient.
AnswerIsMeaning ==
    (ExpectsValue \/ phase = "dead") =>
        LET meaning == Meaning[Expression][NoNames] IN
        /\ phase = "dead" <=> meaning.value = Trap
        /\ ExpectsValue =>
              /\ result.value \in DOMAIN objects
              /\ objects[result.value] = meaning.value
              /\ \A name \in DOMAIN meaning.env :
                    /\ name \in DOMAIN variables
                    /\ objects[variables[name].value] = meaning.env[name]

\* What the binder accepts, the evaluator can unwrap, with whatever earlier submissions
\* left in the variables: no assertion of object.c ever fails, every live Object is a
\* value of its type (TypeOK), and one being returned has the type the binder gave the
\* expression it is of.
TypeSoundness ==
    /\ TypeOK
    /\ evaluator.fn # "aborted"
    /\ evaluator.fn = "return" =>
          /\ evaluator.value \in DOMAIN objects
          /\ objects[evaluator.value].type = heap[evaluator.node].type

--------------------------------------------------------------------------------

\* README.md:16-17, "variables ... can be referenced later": a name that an earlier
\* submission gave a value is found when it is read.
VariablesCanBeReferenced ==
    Binding("NAME_EXPRESSION") =>
        LET name == TextOf(Kid(binder.node, 1)) IN
        name \in DOMAIN variables => name \in DOMAIN scope

--------------------------------------------------------------------------------
(* The session (module Session) that a state of the compilation stands for.  All of *)
(* a submission is carried out when its evaluation starts: from then on a variable  *)
(* it assigns stands for the value it will have in the end.                         *)

UnderWay == phase # "ready"
Running  == phase \in { "evaluating", "dead" }

Denotation ==
    IF syntax.diagnostics = <<>> /\ Typing[Expression][NoNames].ok
    THEN LET meaning == Meaning[Expression][NoNames] IN
         [ accepted |-> TRUE, value |-> meaning.value, assigns |-> meaning.env ]
    ELSE [ accepted |-> FALSE, value |-> Trap, assigns |-> NoNames ]

SessionSubmission == IF UnderWay THEN << Denotation >> ELSE <<>>
SessionStore ==
    LET assigns == IF Running THEN Denotation.assigns ELSE NoNames IN
    [ name \in DOMAIN variables \cup DOMAIN assigns |->
        IF name \in DOMAIN assigns THEN assigns[name] ELSE objects[variables[name].value] ]
SessionReply ==
    IF Running THEN << Denotation.value >>
    ELSE IF phase # "answered" THEN <<>>
    ELSE IF result.diagnostics = <<>> THEN << objects[result.value] >>
    ELSE << [ type |-> "refusal" ] >>

OpenSession ==
    INSTANCE Session WITH Value <- Objects, submission <- SessionSubmission,
                          store <- SessionStore, reply <- SessionReply, open <- TRUE

\* The passes, the calls that wait for each other, the scope that lives shorter than
\* the variables and the tree that is built for its reports alone cannot be told
\* from a session that refuses a submission or carries it out at a stroke: a
\* submission with a report changes no variable, any other one changes exactly the
\* ones it assigns, and values of earlier submissions stay.
ImplementsSession == OpenSession!Spec
================================================================================
