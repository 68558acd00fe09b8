-------------------------------- MODULE Evaluator --------------------------------
(***************************************************************************)
(* evaluator.c over a bound tree, and the variables that outlive it        *)
(* (variable_map.c), as a state machine.                                   *)
(*                                                                         *)
(* Every Object is a malloc block with one owner: objects maps the live    *)
(* blocks to their contents, Null is the NULL pointer.  evaluator is the   *)
(* running evaluate_* call, evaluator_stack the suspended ones, innermost  *)
(* last, each with the operands it holds.                                  *)
(***************************************************************************)
EXTENDS BoundTree, FiniteSets

VARIABLES objects,         \* the live Objects
          variables,       \* the VariableMap: name -> the type of its symbol and its value
          evaluator,       \* the running call
          evaluator_stack  \* the suspended calls

evaluator_vars == << objects, variables, evaluator, evaluator_stack >>

Null == 0

\* "aborted" is a failed MINSC_ASSERT, "trapped" the SIGFPE of a division.
EvaluatorCall ==
    [ fn : { "idle", "evaluate", "return", "aborted", "trapped" }, node : Nat, value : Nat ]
EvaluatorFrame == [ node : Pointer, held : Seq(Nat) ]

Evaluate(n)      == [ fn |-> "evaluate", node |-> n, value |-> Null ]
Evaluated(n, id) == [ fn |-> "return", node |-> n, value |-> id ]
Stopped(how)     == [ fn |-> how, node |-> evaluator.node, value |-> Null ]

--------------------------------------------------------------------------------
(* malloc, free and the two together.                                           *)

\* A block that is not in use: which one does not matter, it may have been freed
\* before.
Fresh(objs) == CHOOSE id \in 1 .. Cardinality(DOMAIN objs) + 1 : id \notin DOMAIN objs

Allocate(objs, value) ==
    [ id \in DOMAIN objs \cup { Fresh(objs) } |-> IF id = Fresh(objs) THEN value ELSE objs[id] ]
Release(objs, ids) == [ id \in DOMAIN objs \ ids |-> objs[id] ]

\* object_dup returns the copy of what id points to, or NULL for NULL.
DupId(id)  == IF id = Null THEN Null ELSE Fresh(objects)
DupIn(id)  == IF id = Null THEN objects ELSE Allocate(objects, objects[id])

\* The MINSC_ASSERTs of object_unwrap_i64 and object_unwrap_bool.
Holds(id, type) == id \in DOMAIN objects /\ objects[id].type = type

--------------------------------------------------------------------------------
(* What an operator computes from the contents of its operands.                 *)

UnaryResult(kind, operand) ==
    CASE kind = "NEGATION"         -> Int64(Wrap(-operand.i64))
      [] kind = "LOGICAL_NEGATION" -> Bool(~operand.bool)

\* The type an operator unwraps its operands to; == and != look at the left one.
UnaryOperandType(kind) == IF kind = "LOGICAL_NEGATION" THEN "BOOL" ELSE "INT64"

BinaryOperandType(kind, left) ==
    CASE kind \in { "LOGICAL_AND", "LOGICAL_OR" } -> "BOOL"
      [] kind \in { "EQUALITY", "INEQUALITY" }    -> left.type
      [] OTHER                                    -> "INT64"

BinaryResult(kind, left, right) ==
    CASE kind = "ADDITION"       -> Int64(Wrap(left.i64 + right.i64))
      [] kind = "SUBTRACTION"    -> Int64(Wrap(left.i64 - right.i64))
      [] kind = "MULTIPLICATION" -> Int64(Wrap(left.i64 * right.i64))
      [] kind = "DIVISION"       -> Int64(Quotient(left.i64, right.i64))
      [] kind = "LOGICAL_AND"    -> Bool(left.bool /\ right.bool)
      [] kind = "LOGICAL_OR"     -> Bool(left.bool \/ right.bool)
      [] kind = "EQUALITY"       -> Bool(left = right)
      [] kind = "INEQUALITY"     -> Bool(left # right)

--------------------------------------------------------------------------------
(* The dispatch of evaluate_expression.                                         *)

Evaluating(cell) == evaluator.fn = "evaluate" /\ heap[evaluator.node].cell = cell
TreeKept == UNCHANGED << heap, freed >>

Suspended(held) == Append(evaluator_stack, [ node |-> evaluator.node, held |-> held ])

\* The object_dup of a value the bound tree owns; NULL for a literal without one.
EvaluateLiteral ==
    /\ Evaluating("LITERAL")
    /\ LET value == heap[evaluator.node].value IN
       IF value.type = "NULL"
       THEN /\ evaluator' = Evaluated(evaluator.node, Null)
            /\ UNCHANGED objects
       ELSE /\ evaluator' = Evaluated(evaluator.node, Fresh(objects))
            /\ objects' = Allocate(objects, value)
    /\ UNCHANGED << variables, evaluator_stack >>
    /\ TreeKept

\* variable_map_get answers NULL for a name that was never defined.
Get(name) == IF name \in DOMAIN variables THEN variables[name].value ELSE Null

\* Mutant: the value itself is returned instead of a copy.
EvaluateVariableShared ==
    /\ Evaluating("VARIABLE")
    /\ evaluator' = Evaluated(evaluator.node, Get(NameOf(evaluator.node)))
    /\ UNCHANGED << objects, variables, evaluator_stack >>
    /\ TreeKept

EvaluateVariable ==
    /\ Evaluating("VARIABLE")
    /\ LET id == Get(NameOf(evaluator.node)) IN
       /\ evaluator' = Evaluated(evaluator.node, DupId(id))
       /\ objects' = DupIn(id)
    /\ UNCHANGED << variables, evaluator_stack >>
    /\ TreeKept

EvaluateUnary ==
    /\ Evaluating("UNARY")
    /\ evaluator_stack' = Suspended(<<>>)
    /\ evaluator' = Evaluate(heap[evaluator.node].kids[1])
    /\ UNCHANGED << objects, variables >>
    /\ TreeKept

EvaluateBinary ==
    /\ Evaluating("BINARY")
    /\ evaluator_stack' = Suspended(<<>>)
    /\ evaluator' = Evaluate(heap[evaluator.node].kids[1])
    /\ UNCHANGED << objects, variables >>
    /\ TreeKept

EvaluateAssignment ==
    /\ Evaluating("ASSIGNMENT")
    /\ evaluator_stack' = Suspended(<<>>)
    /\ evaluator' = Evaluate(heap[evaluator.node].kids[2])
    /\ UNCHANGED << objects, variables >>
    /\ TreeKept

--------------------------------------------------------------------------------
(* An evaluate_* call returned evaluator.value to the innermost suspended one.  *)

EvaluatorTop == evaluator_stack[Len(evaluator_stack)]
EvaluatorPop == SubSeq(evaluator_stack, 1, Len(evaluator_stack) - 1)
EvaluatorReturning(cell, held) ==
    /\ evaluator.fn = "return" /\ evaluator_stack # <<>>
    /\ heap[EvaluatorTop.node].cell = cell /\ Len(EvaluatorTop.held) = held

\* The operands are unwrapped, which frees them, and the result is a new object.
Replace(operands, value) ==
    LET rest == Release(objects, operands) IN
    /\ objects' = Allocate(rest, value)
    /\ evaluator' = Evaluated(EvaluatorTop.node, Fresh(rest))

\* The unary plus hands on its operand, the others make a new object.
ReturnFromUnary ==
    /\ EvaluatorReturning("UNARY", 0)
    /\ LET kind == heap[EvaluatorTop.node].op  operand == evaluator.value IN
       CASE kind = "IDENTITY" ->
               evaluator' = Evaluated(EvaluatorTop.node, operand) /\ UNCHANGED objects
         [] kind # "IDENTITY" /\ ~Holds(operand, UnaryOperandType(kind)) ->
               evaluator' = Stopped("aborted") /\ UNCHANGED objects
         [] OTHER -> Replace({ operand }, UnaryResult(kind, objects[operand]))
    /\ evaluator_stack' = EvaluatorPop
    /\ UNCHANGED variables
    /\ TreeKept

\* Mutant: && and || do not evaluate their right operand when the left one decides.
ReturnFromLeftShortCircuit ==
    /\ EvaluatorReturning("BINARY", 0)
    /\ LET kind == heap[EvaluatorTop.node].op
           decided == \/ kind = "LOGICAL_AND" /\ objects[evaluator.value] = Bool(FALSE)
                      \/ kind = "LOGICAL_OR"  /\ objects[evaluator.value] = Bool(TRUE)
       IN IF decided
          THEN /\ evaluator' = Evaluated(EvaluatorTop.node, evaluator.value)
               /\ evaluator_stack' = EvaluatorPop
          ELSE /\ evaluator_stack' = Append(EvaluatorPop,
                      [ node |-> EvaluatorTop.node, held |-> << evaluator.value >> ])
               /\ evaluator' = Evaluate(heap[EvaluatorTop.node].kids[2])
    /\ UNCHANGED << objects, variables >>
    /\ TreeKept

\* Both operands are always evaluated, the left one first: && and || do not
\* short-circuit.
ReturnFromLeft ==
    /\ EvaluatorReturning("BINARY", 0)
    /\ evaluator_stack' = Append(EvaluatorPop,
            [ node |-> EvaluatorTop.node, held |-> << evaluator.value >> ])
    /\ evaluator' = Evaluate(heap[EvaluatorTop.node].kids[2])
    /\ UNCHANGED << objects, variables >>
    /\ TreeKept

ReturnFromRight ==
    /\ EvaluatorReturning("BINARY", 1)
    /\ LET kind  == heap[EvaluatorTop.node].op
           left  == EvaluatorTop.held[1]
           right == evaluator.value
           type  == BinaryOperandType(kind, objects[left])
       IN CASE left \notin DOMAIN objects \/ ~Holds(left, type) \/ ~Holds(right, type) ->
                   evaluator' = Stopped("aborted") /\ UNCHANGED objects
            [] OTHER ->
                   IF kind = "DIVISION" /\ DivisionTraps(objects[left].i64, objects[right].i64)
                   THEN evaluator' = Stopped("trapped") /\ UNCHANGED objects
                   ELSE Replace({ left, right }, BinaryResult(kind, objects[left], objects[right]))
    /\ evaluator_stack' = EvaluatorPop
    /\ UNCHANGED variables
    /\ TreeKept

WithVariable(name, entry) ==
    [ n \in DOMAIN variables \cup { name } |-> IF n = name THEN entry ELSE variables[n] ]

\* Mutants: a variable that is there keeps its value, or the value that is replaced
\* is not freed.
DefineOnce(name, type, id, objs) ==
    IF name \in DOMAIN variables
    THEN /\ objects' = Release(objs, { id })
         /\ UNCHANGED variables
    ELSE /\ variables' = WithVariable(name, [ type |-> type, value |-> id ])
         /\ objects' = objs

DefineLeaking(name, type, id, objs) ==
    /\ variables' = WithVariable(name, [ type |-> IF name \in DOMAIN variables
                                           THEN variables[name].type ELSE type, value |-> id ])
    /\ objects' = objs

\* variable_map_define(name, id): a variable that is there keeps its symbol, with
\* the type it had, and its old value is freed.  objs holds the new value already.
Define(name, type, id, objs) ==
    IF name \in DOMAIN variables
    THEN /\ variables' = WithVariable(name, [ type |-> variables[name].type, value |-> id ])
         /\ objects' = Release(objs, { variables[name].value })
    ELSE /\ variables' = WithVariable(name, [ type |-> type, value |-> id ])
         /\ objects' = objs

\* The map gets a copy of the value, the caller the value.
ReturnFromAssignment ==
    /\ EvaluatorReturning("ASSIGNMENT", 0)
    /\ LET node == EvaluatorTop.node  id == evaluator.value IN
       /\ Define(NameOf(node), heap[heap[node].kids[1]].type, DupId(id), DupIn(id))
       /\ evaluator' = Evaluated(node, id)
    /\ evaluator_stack' = EvaluatorPop
    /\ TreeKept

EvaluatorNext ==
    \/ EvaluateLiteral \/ EvaluateVariable \/ EvaluateUnary \/ EvaluateBinary
    \/ EvaluateAssignment
    \/ ReturnFromUnary \/ ReturnFromLeft \/ ReturnFromRight \/ ReturnFromAssignment
================================================================================
