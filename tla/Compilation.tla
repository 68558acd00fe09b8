------------------------------- MODULE Compilation -------------------------------
(***************************************************************************)
(* compilation_evaluate of compilation.c: binder, then evaluator, over the *)
(* submissions of a session.  The variables are all that outlives one.     *)
(***************************************************************************)
EXTENDS Binder, Evaluator

CONSTANT Trees             \* the syntax trees that may be submitted

\* What the parser leaves (module Parser): a node is built after its kids, each kind of
\* expression has the kids that binder.c casts it to, only a name to be read may be a
\* manufactured token, and without a report every number has a value.
IsSyntaxTree(tree) ==
    LET Node == 1..Len(tree.nodes)
        Expressions == { n \in Node : tree.nodes[n].kind \in ExpressionKinds }
        Kinds(kind) == { n \in Node : tree.nodes[n].kind = kind }
        kid(n, k)   == tree.nodes[tree.nodes[n].kids[k]]
        before(n, k) == tree.nodes[n].kids[k] \in 1..n - 1 \cap Expressions
        text(leaf)  == IF leaf.token = 0 THEN NoName ELSE tree.tokens[leaf.token].text
    IN /\ tree.nodes \in Seq([ kind : SyntaxKinds, kids : Seq(Nat), token : Nat ])
       /\ tree.diagnostics \in Seq({ "lexical_error", "unexpected_token" })
       /\ tree.nodes[tree.root].kids[1] \in Expressions
       /\ \A n \in Kinds("LITERAL_EXPRESSION") :
             \/ kid(n, 1).kind \in KeywordKinds
             \/ /\ kid(n, 1).kind = "NUMBER_TOKEN"
                /\ tree.tokens[kid(n, 1).token].value \in
                      IF tree.diagnostics = <<>> THEN Int64s ELSE Int64s \cup { NullObject }
       /\ \A n \in Kinds("NAME_EXPRESSION") : text(kid(n, 1)) \in Names
       /\ \A n \in Kinds("ASSIGNMENT_EXPRESSION") : text(kid(n, 1)) \in Name /\ before(n, 3)
       /\ \A n \in Kinds("PARENTHESIZED_EXPRESSION") \cup Kinds("UNARY_EXPRESSION") : before(n, 2)
       /\ \A n \in Kinds("BINARY_EXPRESSION") : before(n, 1) /\ before(n, 3)

ASSUME TreesAssumption == \A tree \in Trees : IsSyntaxTree(tree)

VARIABLES phase,           \* where main.c is in a submission
          result           \* the EvaluationResult

vars == << binder_vars, evaluator_vars, phase, result >>

\* "dead" is a process the operating system or abort() has ended.
Phases == { "ready", "binding", "evaluating", "answered", "dead" }

NoResult == [ diagnostics |-> <<>>, value |-> Null ]

\* Mutant: the bag of the syntax tree is replaced instead of extended.
BinderReportsAlone == reports

\* The reports of the lexer and the parser, then those of the binder.
AllReports == syntax.diagnostics \o reports

ExpectsValue == phase = "answered" /\ result.diagnostics = <<>>

--------------------------------------------------------------------------------

NoTree == [ nodes |-> <<>>, tokens |-> <<>>, root |-> 0, diagnostics |-> <<>> ]

CompilationInit ==
    /\ syntax = NoTree
    /\ heap = <<>> /\ freed = {}
    /\ scope = [ name \in {} |-> 0 ]
    /\ declared = {}
    /\ reports = <<>>
    /\ binder = [ fn |-> "idle", node |-> 0 ]
    /\ binder_stack = <<>>
    /\ objects = [ id \in {} |-> NullObject ]
    /\ variables = [ name \in {} |-> NullObject ]
    /\ evaluator = [ fn |-> "idle", node |-> 0, value |-> Null ]
    /\ evaluator_stack = <<>>
    /\ phase = "ready"
    /\ result = NoResult

\* compilation_new, compilation_evaluate, binder_bind_global_scope.
Submit(tree) ==
    /\ phase = "ready"
    /\ BindGlobalScope(tree)
    /\ phase' = "binding"
    /\ UNCHANGED << evaluator_vars, result >>

BindStep ==
    /\ phase = "binding"
    /\ BinderNext
    /\ UNCHANGED << evaluator_vars, phase, result >>

\* Any report, and nothing is evaluated.
AnswerWithReports ==
    /\ phase = "binding" /\ binder.fn = "done"
    /\ AllReports # <<>>
    /\ result' = [ diagnostics |-> AllReports, value |-> Null ]
    /\ freed' = freed \cup Below[binder.node]
    /\ phase' = "answered"
    /\ UNCHANGED << heap, syntax, scope, declared, reports, binder, binder_stack, evaluator_vars >>

\* Mutant: the reports of the lexer and the parser alone decide.
StartEvaluatorSyntaxOnly ==
    /\ phase = "binding" /\ binder.fn = "done"
    /\ syntax.diagnostics = <<>>
    /\ evaluator' = Evaluate(binder.node)
    /\ phase' = "evaluating"
    /\ UNCHANGED << binder_vars, objects, variables, evaluator_stack, result >>

StartEvaluator ==
    /\ phase = "binding" /\ binder.fn = "done"
    /\ AllReports = <<>>
    /\ evaluator' = Evaluate(binder.node)
    /\ phase' = "evaluating"
    /\ UNCHANGED << binder_vars, objects, variables, evaluator_stack, result >>

\* A trap or a failed assertion takes the process with it.
EvaluateStep ==
    /\ phase = "evaluating"
    /\ EvaluatorNext
    /\ phase' = IF evaluator'.fn \in { "aborted", "trapped" } THEN "dead" ELSE phase
    /\ UNCHANGED << syntax, scope, declared, reports, binder, binder_stack, result >>

AnswerWithValue ==
    /\ phase = "evaluating"
    /\ evaluator.fn = "return" /\ evaluator_stack = <<>>
    /\ result' = [ diagnostics |-> <<>>, value |-> evaluator.value ]
    /\ freed' = freed \cup Below[binder.node]
    /\ evaluator' = [ fn |-> "idle", node |-> 0, value |-> Null ]
    /\ phase' = "answered"
    /\ UNCHANGED << heap, syntax, scope, declared, reports, binder, binder_stack,
                    objects, variables, evaluator_stack >>

\* main prints the reports or the value and frees them, and then the syntax tree.
PrintResult ==
    /\ phase = "answered"
    /\ objects' = IF result.diagnostics = <<>> THEN Release(objects, { result.value })
                                               ELSE objects
    /\ result' = NoResult
    /\ phase' = "ready"
    /\ syntax' = NoTree
    /\ heap' = <<>> /\ freed' = {}
    /\ declared' = {} /\ reports' = <<>>
    /\ binder' = [ fn |-> "idle", node |-> 0 ]
    /\ UNCHANGED << scope, binder_stack, variables, evaluator, evaluator_stack >>

\* What happens between a submission and the next.
CompilationStep == BindStep \/ AnswerWithReports \/ StartEvaluator \/ EvaluateStep \/ AnswerWithValue \/ PrintResult

Next == (\E tree \in Trees : Submit(tree)) \/ CompilationStep

\* The program is sequential: only waiting for the next line may take forever.
Fairness == WF_vars(CompilationStep)

Init == CompilationInit
Spec == Init /\ [][Next]_vars /\ Fairness
================================================================================
