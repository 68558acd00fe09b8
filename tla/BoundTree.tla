------------------------------- MODULE BoundTree -------------------------------
(***************************************************************************)
(* The bound tree, which binder.c builds and evaluator.c walks, and the    *)
(* operator tables of bound_unary_operator.c and bound_binary_operator.c.  *)
(*                                                                         *)
(* The tree lives in a heap of cells that only ever grows; a pointer is an *)
(* index.  freed holds the cells that were given back.  A cell owns the    *)
(* cells in its kids: freeing it frees them.  A VariableSymbol owns the    *)
(* copy of its name, so it has a cell of its own.                          *)
(***************************************************************************)
EXTENDS SyntaxFacts, Objects, Sequences

CONSTANT Name              \* how an identifier can be spelled

NoName == ""               \* str_null, the text of a manufactured token

ASSUME NameAssumption == NoName \notin Name

VARIABLES heap,            \* bound nodes and variable symbols
          freed            \* those that were freed

Names == Name \cup { NoName }

--------------------------------------------------------------------------------
(* The operator tables.                                                         *)

UnaryOperator(syntax, kind, type) ==
    [ syntax_kind |-> syntax, kind |-> kind, operand_type |-> type, result_type |-> type ]

UnaryOperators ==
    { UnaryOperator("PLUS_TOKEN",  "IDENTITY",         "INT64"),
      UnaryOperator("MINUS_TOKEN", "NEGATION",         "INT64"),
      UnaryOperator("BANG_TOKEN",  "LOGICAL_NEGATION", "BOOL") }

BinaryOperator(syntax, kind, type, result) ==
    [ syntax_kind |-> syntax, kind |-> kind, operand_type |-> type, result_type |-> result ]

\* Every entry of the table has left_type = right_type, called operand_type here.
BinaryOperators ==
    { BinaryOperator("PLUS_TOKEN",                "ADDITION",       "INT64", "INT64"),
      BinaryOperator("MINUS_TOKEN",               "SUBTRACTION",    "INT64", "INT64"),
      BinaryOperator("STAR_TOKEN",                "MULTIPLICATION", "INT64", "INT64"),
      BinaryOperator("SLASH_TOKEN",               "DIVISION",       "INT64", "INT64"),
      BinaryOperator("AMPERSAND_AMPERSAND_TOKEN", "LOGICAL_AND",    "BOOL",  "BOOL"),
      BinaryOperator("PIPE_PIPE_TOKEN",           "LOGICAL_OR",     "BOOL",  "BOOL"),
      BinaryOperator("EQUALS_EQUALS_TOKEN",       "EQUALITY",       "INT64", "BOOL"),
      BinaryOperator("BANG_EQUALS_TOKEN",         "INEQUALITY",     "INT64", "BOOL"),
      BinaryOperator("EQUALS_EQUALS_TOKEN",       "EQUALITY",       "BOOL",  "BOOL"),
      BinaryOperator("BANG_EQUALS_TOKEN",         "INEQUALITY",     "BOOL",  "BOOL") }

\* The entries bind_unary_operator and bind_binary_operator can answer with: one at
\* most, none when they return NULL.
UnaryMatches(kind, type) ==
    { op \in UnaryOperators : op.syntax_kind = kind /\ op.operand_type = type }

\* Mutant: the type of the right operand is not looked at.
BinaryMatchesLeft(kind, left, right) ==
    { op \in BinaryOperators : op.syntax_kind = kind /\ op.operand_type = left }

BinaryMatches(kind, left, right) ==
    { op \in BinaryOperators :
        op.syntax_kind = kind /\ op.operand_type = left /\ op.operand_type = right }

UnaryKinds  == { op.kind : op \in UnaryOperators }
BinaryKinds == { op.kind : op \in BinaryOperators }

--------------------------------------------------------------------------------
(* Cells.  type is what bound_expression_type answers: it computes it from the  *)
(* node and its children, none of which changes once it is built.               *)

Literal(value) == [ cell |-> "LITERAL", kids |-> <<>>, type |-> value.type, value |-> value ]
Unary(op, operand) ==
    [ cell |-> "UNARY", kids |-> << operand >>, type |-> op.result_type, op |-> op.kind ]
Binary(op, left, right) ==
    [ cell |-> "BINARY", kids |-> << left, right >>, type |-> op.result_type, op |-> op.kind ]
Variable(symbol, type) == [ cell |-> "VARIABLE", kids |-> << symbol >>, type |-> type ]
Assignment(symbol, expression, type) ==
    [ cell |-> "ASSIGNMENT", kids |-> << symbol, expression >>, type |-> type ]
Symbol(name, type) == [ cell |-> "SYMBOL", kids |-> <<>>, type |-> type, name |-> name ]

Pointer == Nat \ {0}
Cell ==
    { Literal(value) : value \in Objects \cup { NullObject } }
      \cup { Symbol(name, type) : name \in Names, type \in ObjectTypes }
      \cup [ cell : { "UNARY" }, kids : Seq(Pointer), type : ObjectTypes, op : UnaryKinds ]
      \cup [ cell : { "BINARY" }, kids : Seq(Pointer), type : ObjectTypes, op : BinaryKinds ]
      \cup [ cell : { "VARIABLE", "ASSIGNMENT" }, kids : Seq(Pointer), type : ObjectTypes ]

\* The name a VARIABLE or ASSIGNMENT cell refers to.
NameOf(n) == heap[heap[n].kids[1]].name

\* What bound_expression_free(n) frees: n and everything below it.  A kid is built
\* before its parent, so it has the smaller index.
Below ==
    LET below[n \in 1..Len(heap)] ==
            { n } \cup UNION { below[heap[n].kids[k]] : k \in 1..Len(heap[n].kids) }
    IN below
================================================================================
