--------------------------------- MODULE Binder ---------------------------------
(***************************************************************************)
(* binder_bind_global_scope of binder.c: the recursive descent over a      *)
(* syntax tree that resolves names and types, as a state machine.          *)
(*                                                                         *)
(* binder is the running bind_* call and binder_stack the calls that wait  *)
(* for it, the innermost last, each with the bound nodes it already holds. *)
(* A syntax tree is the node heap the parser leaves (module Parser).       *)
(***************************************************************************)
EXTENDS BoundTree

VARIABLES syntax,          \* the SyntaxTree: its nodes, tokens, root and diagnostics
          scope,           \* binder->scope, the only one: name -> symbol
          declared,        \* the VariableSymbolBuf of the BoundGlobalScope
          reports,         \* binder->diagnostics
          binder,          \* the running call
          binder_stack     \* the suspended calls

binder_vars == << heap, freed, syntax, scope, declared, reports, binder, binder_stack >>

BinderReports == { "undefined_name", "undefined_unary_operator", "undefined_binary_operator",
                   "variable_already_declared" }

BinderCall  == [ fn : { "idle", "bind", "return", "done" }, node : Nat ]
BinderFrame == [ fn : { "unary", "left", "right", "assignment" }, syntax : Nat, held : Seq(Pointer) ]

Bind(n)   == [ fn |-> "bind", node |-> n ]
Bound(n)  == [ fn |-> "return", node |-> n ]
Await(fn, n, held) == [ fn |-> fn, syntax |-> n, held |-> held ]

--------------------------------------------------------------------------------
(* Reading the syntax tree.                                                     *)

KindOf(n)   == syntax.nodes[n].kind
Kid(n, k)   == syntax.nodes[n].kids[k]

\* A manufactured token has no text.
TextOf(leaf) ==
    LET token == syntax.nodes[leaf].token IN
    IF token = 0 THEN NoName ELSE syntax.tokens[token].text

\* literal->value: what the parser made of the keyword or the lexer of the digits,
\* NULL when they do not fit an int64_t.
LiteralValue(n) ==
    LET leaf == syntax.nodes[Kid(n, 1)] IN
    IF leaf.kind = "NUMBER_TOKEN" THEN syntax.tokens[leaf.token].value
                                  ELSE Bool(leaf.kind = "TRUE_KEYWORD")

--------------------------------------------------------------------------------

\* binder_new(NULL), and the call on the expression of the compilation unit: every
\* submission starts from an empty scope without a parent.
BindGlobalScope(tree) ==
    /\ syntax' = tree
    /\ heap' = <<>>
    /\ freed' = {}
    /\ scope' = [ name \in {} |-> 0 ]
    /\ declared' = {}
    /\ reports' = <<>>
    /\ binder' = Bind(tree.nodes[tree.root].kids[1])
    /\ binder_stack' = <<>>

\* The dispatch of binder_bind_expression.
Binding(kind) == binder.fn = "bind" /\ KindOf(binder.node) = kind
TreeUnchanged == UNCHANGED << syntax, declared >>

BindLiteral ==
    /\ Binding("LITERAL_EXPRESSION")
    /\ heap' = Append(heap, Literal(LiteralValue(binder.node)))
    /\ binder' = Bound(Len(heap) + 1)
    /\ UNCHANGED << freed, scope, reports, binder_stack >>
    /\ TreeUnchanged

BindUnary ==
    /\ Binding("UNARY_EXPRESSION")
    /\ binder_stack' = Append(binder_stack, Await("unary", binder.node, <<>>))
    /\ binder' = Bind(Kid(binder.node, 2))
    /\ UNCHANGED << heap, freed, scope, reports >>
    /\ TreeUnchanged

BindBinary ==
    /\ Binding("BINARY_EXPRESSION")
    /\ binder_stack' = Append(binder_stack, Await("left", binder.node, <<>>))
    /\ binder' = Bind(Kid(binder.node, 1))
    /\ UNCHANGED << heap, freed, scope, reports >>
    /\ TreeUnchanged

\* The parentheses leave no trace in the bound tree.
BindParenthesized ==
    /\ Binding("PARENTHESIZED_EXPRESSION")
    /\ binder' = Bind(Kid(binder.node, 2))
    /\ UNCHANGED << heap, freed, scope, reports, binder_stack >>
    /\ TreeUnchanged

\* bound_scope_try_lookup finds the symbol: the node gets a copy of it ...
BindDeclaredName ==
    /\ Binding("NAME_EXPRESSION")
    /\ LET name == TextOf(Kid(binder.node, 1)) IN
       /\ name \in DOMAIN scope
       /\ LET type == heap[scope[name]].type IN
          heap' = heap \o << Symbol(name, type), Variable(Len(heap) + 1, type) >>
    /\ binder' = Bound(Len(heap) + 2)
    /\ UNCHANGED << freed, scope, reports, binder_stack >>
    /\ TreeUnchanged

\* ... and a name that is not there is reported and stands for the literal 0.
BindUndefinedName ==
    /\ Binding("NAME_EXPRESSION")
    /\ TextOf(Kid(binder.node, 1)) \notin DOMAIN scope
    /\ reports' = Append(reports, "undefined_name")
    /\ heap' = Append(heap, Literal(Int64(0)))
    /\ binder' = Bound(Len(heap) + 1)
    /\ UNCHANGED << freed, scope, binder_stack >>
    /\ TreeUnchanged

\* Mutant: the variable is declared before its right-hand side is bound, as an
\* integer: a = a is accepted.
BindAssignmentDeclaresFirst ==
    /\ Binding("ASSIGNMENT_EXPRESSION")
    /\ LET name == TextOf(Kid(binder.node, 1)) IN
       IF name \in DOMAIN scope
       THEN UNCHANGED << heap, scope >>
       ELSE /\ heap' = Append(heap, Symbol(name, "INT64"))
            /\ scope' = [ n \in DOMAIN scope \cup { name } |->
                            IF n = name THEN Len(heap) + 1 ELSE scope[n] ]
    /\ binder_stack' = Append(binder_stack, Await("assignment", binder.node, <<>>))
    /\ binder' = Bind(Kid(binder.node, 3))
    /\ UNCHANGED << freed, reports >>
    /\ TreeUnchanged

\* The right-hand side first: it does not see the variable.
BindAssignment ==
    /\ Binding("ASSIGNMENT_EXPRESSION")
    /\ binder_stack' = Append(binder_stack, Await("assignment", binder.node, <<>>))
    /\ binder' = Bind(Kid(binder.node, 3))
    /\ UNCHANGED << heap, freed, scope, reports >>
    /\ TreeUnchanged

--------------------------------------------------------------------------------
(* A bind_* call returned binder.node to the innermost suspended one.           *)

BinderTop == binder_stack[Len(binder_stack)]
BinderPop == SubSeq(binder_stack, 1, Len(binder_stack) - 1)
BinderReturning(fn) ==
    binder.fn = "return" /\ binder_stack # <<>> /\ BinderTop.fn = fn

FinishUnary ==
    /\ BinderReturning("unary")
    /\ LET matches == UnaryMatches(KindOf(Kid(BinderTop.syntax, 1)), heap[binder.node].type) IN
       IF matches = {}
       THEN /\ reports' = Append(reports, "undefined_unary_operator")
            /\ UNCHANGED << heap, binder >>       \* return operand
       ELSE /\ \E op \in matches : heap' = Append(heap, Unary(op, binder.node))
            /\ binder' = Bound(Len(heap) + 1)
            /\ UNCHANGED reports
    /\ binder_stack' = BinderPop
    /\ UNCHANGED << freed, scope >>
    /\ TreeUnchanged

\* The left operand is bound: hold it and bind the right one.
FinishLeft ==
    /\ BinderReturning("left")
    /\ binder_stack' =
          Append(BinderPop, Await("right", BinderTop.syntax, << binder.node >>))
    /\ binder' = Bind(Kid(BinderTop.syntax, 3))
    /\ UNCHANGED << heap, freed, scope, reports >>
    /\ TreeUnchanged

\* Mutant: the unusable right operand is forgotten instead of freed.
RejectOperandsLeaking(left, right) ==
    /\ reports' = Append(reports, "undefined_binary_operator")
    /\ binder' = Bound(left)
    /\ UNCHANGED << heap, freed >>

\* No operator for the types: the left operand stands for the whole.
RejectOperands(left, right) ==
    /\ reports' = Append(reports, "undefined_binary_operator")
    /\ freed' = freed \cup Below[right]
    /\ binder' = Bound(left)
    /\ UNCHANGED heap

FinishBinary ==
    /\ BinderReturning("right")
    /\ LET left    == BinderTop.held[1]
           right   == binder.node
           matches == BinaryMatches(KindOf(Kid(BinderTop.syntax, 2)),
                                    heap[left].type, heap[right].type)
       IN IF matches = {}
          THEN RejectOperands(left, right)
          ELSE /\ \E op \in matches : heap' = Append(heap, Binary(op, left, right))
               /\ binder' = Bound(Len(heap) + 1)
               /\ UNCHANGED << freed, reports >>
    /\ binder_stack' = BinderPop
    /\ UNCHANGED scope
    /\ TreeUnchanged

\* bound_scope_try_declare keeps the copy of the symbol it is given, or refuses it;
\* nobody frees the refused copy.
TryDeclare(name, symbol) ==
    IF name \in DOMAIN scope
    THEN /\ reports' = Append(reports, "variable_already_declared")
         /\ UNCHANGED scope
    ELSE /\ scope' = [ n \in DOMAIN scope \cup { name } |->
                         IF n = name THEN symbol ELSE scope[n] ]
         /\ UNCHANGED reports

\* The symbol of the node, the copy given to the scope, and the node.
FinishAssignment ==
    /\ BinderReturning("assignment")
    /\ LET name   == TextOf(Kid(BinderTop.syntax, 1))
           type   == heap[binder.node].type
           symbol == Len(heap) + 1
       IN /\ heap' = heap \o << Symbol(name, type), Symbol(name, type),
                                Assignment(symbol, binder.node, type) >>
          /\ TryDeclare(name, symbol + 1)
    /\ binder' = Bound(Len(heap) + 3)
    /\ binder_stack' = BinderPop
    /\ UNCHANGED freed
    /\ TreeUnchanged

\* bound_scope_get_declared_variables copies the symbols, not their names, and
\* binder_free then frees the scope and the symbols in it.
FinishGlobalScope ==
    /\ binder.fn = "return" /\ binder_stack = <<>>
    /\ declared' = { scope[name] : name \in DOMAIN scope }
    /\ freed' = freed \cup { scope[name] : name \in DOMAIN scope }
    /\ scope' = [ name \in {} |-> 0 ]
    /\ binder' = [ fn |-> "done", node |-> binder.node ]
    /\ UNCHANGED << heap, syntax, reports, binder_stack >>

BinderNext ==
    \/ BindLiteral \/ BindUnary \/ BindBinary \/ BindParenthesized
    \/ BindDeclaredName \/ BindUndefinedName \/ BindAssignment
    \/ FinishUnary \/ FinishLeft \/ FinishBinary \/ FinishAssignment
    \/ FinishGlobalScope
================================================================================
