---------------------------- MODULE CompilationProofs ----------------------------
(***************************************************************************)
(* Theorems about a session of compilations, for every width of the        *)
(* integers, every set of names and every set of trees a parser may leave: *)
(* what the binder accepts the evaluator computes without a failed         *)
(* assertion, every Object and every cell of a bound tree has one owner    *)
(* all along, and what the binder reports is what the typing rules say.    *)
(*                                                                         *)
(* None is inductive: while the binder works nothing says that a           *)
(* variable will be assigned before it is read, and as what it is read.    *)
(* CompilationInv says it of the cells in the order they lie in the heap,  *)
(* which is the order they will be evaluated in.                           *)
(***************************************************************************)
EXTENDS CompilationProperties, FiniteSetTheorems, SequenceLemmas, TLAPS

--------------------------------------------------------------------------------
(* What makes soundness and ownership inductive, of a heap of cells.            *)

Builds(cells, n)    == n \in 1..Len(cells) /\ cells[n].cell # "SYMBOL"
IsSymbol(cells, n)  == n \in 1..Len(cells) /\ cells[n].cell = "SYMBOL"
NameAt(cells, n)    == cells[cells[n].kids[1]].name
IsAssignment(cells, n)   == cells[n].cell = "ASSIGNMENT"

\* A cell is built on older ones, and has the type its operator makes of theirs.
TypedCell(cells, n) ==
    \/ \E value \in Objects \cup { NullObject } : cells[n] = Literal(value)
    \/ \E name \in Name, type \in ObjectTypes : cells[n] = Symbol(name, type)
    \/ \E op \in UnaryOperators, operand \in 1..n - 1 :
          /\ cells[n] = Unary(op, operand)
          /\ Builds(cells, operand) /\ cells[operand].type = op.operand_type
    \/ \E op \in BinaryOperators, left \in 1..n - 1, right \in 1..n - 1 :
          /\ cells[n] = Binary(op, left, right)
          /\ Builds(cells, left) /\ cells[left].type = op.operand_type
          /\ Builds(cells, right) /\ cells[right].type = op.operand_type
    \/ \E symbol \in 1..n - 1, type \in ObjectTypes :
          cells[n] = Variable(symbol, type) /\ IsSymbol(cells, symbol)
    \/ \E symbol \in 1..n - 1, expression \in 1..n - 1 :
          /\ cells[n] = Assignment(symbol, expression, cells[expression].type)
          /\ IsSymbol(cells, symbol) /\ Builds(cells, expression)
          /\ cells[symbol].type = cells[expression].type
Typed(cells) == \A n \in 1..Len(cells) : TypedCell(cells, n)

\* As long as nothing was reported the cells of an expression lie together in the order
\* they will be evaluated in, from first[n] to n; a variable that is read was assigned
\* before, as what it is read as, and no variable is assigned twice.
OrderedCell(cells, first, n) ==
    /\ cells[n].cell = "LITERAL" => cells[n].value # NullObject /\ first[n] = n
    /\ cells[n].cell = "UNARY" => cells[n].kids = << n - 1 >> /\ first[n] = first[n - 1]
    /\ cells[n].cell = "BINARY" =>
          /\ cells[n].kids[2] = n - 1
          /\ first[n - 1] = cells[n].kids[1] + 1 /\ first[n] = first[cells[n].kids[1]]
    /\ cells[n].cell = "VARIABLE" =>
          /\ cells[n].kids = << n - 1 >> /\ first[n] = n - 1
          /\ \E a \in 1..n - 2 : /\ IsAssignment(cells, a) /\ NameAt(cells, a) = NameAt(cells, n)
                                 /\ cells[a].type = cells[n].type
    /\ cells[n].cell = "ASSIGNMENT" =>
          /\ cells[n].kids = << n - 2, n - 3 >> /\ first[n] = first[n - 3]
          /\ IsSymbol(cells, n - 1)
          /\ \A a \in 1..n - 1 : IsAssignment(cells, a) => NameAt(cells, a) # NameAt(cells, n)
Ordered(cells, first) ==
    /\ first \in [ 1..Len(cells) -> Nat ]
    /\ \A n \in 1..Len(cells) : OrderedCell(cells, first, n)

\* Calls that wait in the binder, and the last cell before each of them was made.
Kind(tree, n) == tree.nodes[n].kind
KindBoundBy(fn) ==
    CASE fn = "unary"      -> "UNARY_EXPRESSION"
      [] fn = "assignment" -> "ASSIGNMENT_EXPRESSION"
      [] OTHER             -> "BINARY_EXPRESSION"
Waiting(tree, cells, frame) ==
    /\ frame.syntax \in 1..Len(tree.nodes) /\ Kind(tree, frame.syntax) = KindBoundBy(frame.fn)
    /\ IF frame.fn = "right" THEN Len(frame.held) = 1 /\ Builds(cells, frame.held[1])
                             ELSE frame.held = <<>>
Moves(first, frame, from, to) ==
    IF frame.fn = "right" THEN to = frame.held[1] /\ first[frame.held[1]] = from + 1 ELSE to = from
Edges(first, calls, edge) ==
    /\ edge \in [ 1..Len(calls) + 1 -> Nat ] /\ edge[1] = 0
    /\ \A i \in 1..Len(calls) : Moves(first, calls[i], edge[i], edge[i + 1])

\* Names are declared by the assignments there are.
Declares(cells, names) ==
    /\ \A n \in 1..Len(cells) : IsAssignment(cells, n) =>
          /\ NameAt(cells, n) \in DOMAIN names
          /\ cells[names[NameAt(cells, n)]].type = cells[n].type
    /\ \A name \in DOMAIN names :
          \E n \in 1..Len(cells) : IsAssignment(cells, n) /\ NameAt(cells, n) = name

BoundBy(tree, cells, names, call, calls) ==
    /\ cells \in Seq(Cell) /\ Typed(cells)
    /\ \A name \in DOMAIN names : name \in Name /\ IsSymbol(cells, names[name])
    /\ calls \in Seq(BinderFrame) /\ \A i \in 1..Len(calls) : Waiting(tree, cells, calls[i])
    /\ call \in BinderCall /\ call.fn # "idle"
    /\ IF call.fn = "bind"
       THEN call.node \in 1..Len(tree.nodes) /\ Kind(tree, call.node) \in ExpressionKinds
       ELSE Builds(cells, call.node)
    /\ call.fn = "done" => calls = <<>> /\ DOMAIN names = {}
BoundInOrder(cells, names, call, calls, first, edge) ==
    /\ Ordered(cells, first) /\ Edges(first, calls, edge)
    /\ call.fn # "done" => Declares(cells, names)
    /\ IF call.fn = "bind" THEN edge[Len(calls) + 1] = Len(cells)
       ELSE call.node = Len(cells) /\ first[call.node] = edge[Len(calls) + 1] + 1

Clean == syntax.diagnostics = <<>> /\ reports = <<>>

BinderInv ==
    /\ IsSyntaxTree(syntax) /\ BoundBy(syntax, heap, scope, binder, binder_stack)
    /\ freed \subseteq 1..Len(heap) /\ declared \subseteq 1..Len(heap)
    /\ reports \in Seq(BinderReports)
    /\ Clean => \E first, edge : BoundInOrder(heap, scope, binder, binder_stack, first, edge)

--------------------------------------------------------------------------------
(* And of the Objects.                                                          *)

Blocks(objs) ==
    /\ IsFiniteSet(DOMAIN objs) /\ DOMAIN objs \subseteq Pointer
    /\ \A id \in DOMAIN objs : objs[id] \in Objects

\* Everybody who points to an Object points to a live one of his own: calls that wait
\* have no operand or the left one, hand is the value that is being returned.
Owned(objs, map, calls, hand) ==
    /\ hand # Null => hand \in DOMAIN objs
    /\ \A name \in DOMAIN map : map[name].value \in DOMAIN objs \ { hand }
    /\ \A name, other \in DOMAIN map : map[name].value = map[other].value => name = other
    /\ \A i \in 1..Len(calls) :
          \/ calls[i].held = <<>>
          \/ /\ Len(calls[i].held) = 1 /\ calls[i].held[1] \in DOMAIN objs \ { hand }
             /\ \A name \in DOMAIN map : calls[i].held[1] # map[name].value
    /\ \A i, j \in 1..Len(calls) :
          (calls[i].held # <<>> /\ calls[j].held # <<>> /\ calls[i].held[1] = calls[j].held[1]) => i = j
    /\ \A id \in DOMAIN objs :
          \/ id = hand
          \/ \E name \in DOMAIN map : map[name].value = id
          \/ \E i \in 1..Len(calls) : calls[i].held = << id >>

\* The kid that a waiting call waits for, and the type of the operand it holds.
Pending(cells, frame) ==
    IF cells[frame.node].cell = "UNARY" \/ (cells[frame.node].cell = "BINARY" /\ frame.held = <<>>)
    THEN cells[frame.node].kids[1] ELSE cells[frame.node].kids[2]
Suspends(cells, objs, frame) ==
    /\ frame.node \in 1..Len(cells)
    /\ \/ cells[frame.node].cell \in { "UNARY", "ASSIGNMENT" } /\ frame.held = <<>>
       \/ /\ cells[frame.node].cell = "BINARY"
          /\ frame.held # <<>> => objs[frame.held[1]].type = cells[cells[frame.node].kids[1]].type

\* The assignments of the first n cells were carried out.
Assigned(cells, map, objs, n) ==
    \A a \in 1..n : IsAssignment(cells, a) =>
        /\ NameAt(cells, a) \in DOMAIN map
        /\ objs[map[NameAt(cells, a)].value].type = cells[a].type

\* Each call waits for the next one, the last for the one that is running on node.
Chained(cells, objs, calls, node) ==
    \A i \in 1..Len(calls) :
        /\ Suspends(cells, objs, calls[i])
        /\ Pending(cells, calls[i]) = IF i = Len(calls) THEN node ELSE calls[i + 1].node

\* The last cell that was evaluated.
Reached(first, call) == IF call.fn = "return" THEN call.node ELSE first[call.node] - 1

EvaluatorInv ==
    /\ evaluator.fn \in { "evaluate", "return" } /\ Builds(heap, evaluator.node)
    /\ evaluator.fn = "evaluate" => evaluator.value = Null
    /\ Chained(heap, objects, evaluator_stack, evaluator.node)
    /\ evaluator.fn = "return" =>
          evaluator.value \in DOMAIN objects /\ objects[evaluator.value].type = heap[evaluator.node].type
    /\ \E first :
          Ordered(heap, first) /\ Assigned(heap, variables, objects, Reached(first, evaluator))

Nothing == [ fn |-> "idle", node |-> 0, value |-> Null ]
Values ==
    /\ Blocks(objects)
    /\ DOMAIN variables \subseteq Name
    /\ \A name \in DOMAIN variables : variables[name] \in [ type : ObjectTypes, value : Nat ]
    /\ evaluator \in EvaluatorCall /\ evaluator_stack \in Seq(EvaluatorFrame)

CompilationInv ==
    /\ phase \in Phases /\ Values
    /\ phase # "dead" => Owned(objects, variables, evaluator_stack,
                               IF phase = "answered" THEN result.value ELSE evaluator.value)
    /\ phase = "ready" =>
          /\ heap = <<>> /\ freed = {} /\ declared = {} /\ reports = <<>> /\ DOMAIN scope = {}
          /\ binder = [ fn |-> "idle", node |-> 0 ] /\ binder_stack = <<>>
    /\ phase # "ready" => BinderInv
    /\ phase \notin { "ready", "binding" } => binder.fn = "done"
    /\ phase \notin { "evaluating", "dead" } => evaluator = Nothing /\ evaluator_stack = <<>>
    /\ phase = "evaluating" => Clean /\ EvaluatorInv
    /\ phase = "dead" => evaluator.fn = "trapped"
    /\ phase # "answered" => result = NoResult
    /\ result.diagnostics # <<>> => result.value = Null

--------------------------------------------------------------------------------
(* Integers of IntWidth bits, and the Objects that hold them.                   *)

\* Powers of two, by counting: 2 ^ w is the number of subsets of 1..w.
LEMMA Doubling == \A w \in Nat : 2 ^ w \in Nat \ {0} /\ 2 ^ (w + 1) = 2 * 2 ^ w
<1> SUFFICES ASSUME NEW w \in Nat PROVE 2 ^ w \in Nat \ {0} /\ 2 ^ (w + 1) = 2 * 2 ^ w
  OBVIOUS
<1>1. IsFiniteSet(1..w) /\ Cardinality(1..w) = w
  <2>1. w = IF 1 > w THEN 0 ELSE w - 1 + 1
    OBVIOUS
  <2> QED
    BY FS_Interval
<1>2. IsFiniteSet(1..w + 1) /\ Cardinality(1..w + 1) = w + 1
  BY FS_Interval
<1> DEFINE S == SUBSET (1..w)
           U == SUBSET (1..w + 1)
           T == { A \cup { w + 1 } : A \in S }
<1>3. IsFiniteSet(S) /\ Cardinality(S) = 2 ^ w /\ IsFiniteSet(U) /\ Cardinality(U) = 2 ^ (w + 1)
  BY <1>1, <1>2, FS_SUBSET
<1>4. U = S \cup T
  <2>1. S \cup T \subseteq U
    <3>1. 1..w \subseteq 1..w + 1 /\ w + 1 \in 1..w + 1
      OBVIOUS
    <3> QED
      BY <3>1
  <2>2. ASSUME NEW A \in U PROVE A \in S \cup T
    <3>1. CASE w + 1 \in A
      <4>1. A \ { w + 1 } \subseteq 1..w /\ A = (A \ { w + 1 }) \cup { w + 1 }
        <5>1. \A x \in 1..w + 1 : x # w + 1 => x \in 1..w
          OBVIOUS
        <5> QED
          BY <3>1, <5>1
      <4> QED
        BY <4>1
    <3>2. CASE w + 1 \notin A
      <4>1. \A x \in 1..w + 1 : x # w + 1 => x \in 1..w
        OBVIOUS
      <4> QED
        BY <3>2, <4>1
    <3> QED
      BY <3>1, <3>2
  <2> QED
    BY <2>2, <2>1
<1>5. S \cap T = {}
  OBVIOUS
<1>6. IsFiniteSet(T) /\ Cardinality(T) = Cardinality(S)
  <2> DEFINE f == [ A \in S |-> A \cup { w + 1 } ]
  <2>1. f \in Surjection(S, T)
    BY DEF Surjection
  <2>2. f \in Injection(S, T)
    <3>1. ASSUME NEW A \in S, NEW B \in S, A \cup { w + 1 } = B \cup { w + 1 } PROVE A = B
      <4>1. w + 1 \notin A /\ w + 1 \notin B
        OBVIOUS
      <4> QED
        BY <3>1, <4>1
    <3>2. f \in [ S -> T ] /\ DOMAIN f = S /\ \A A \in S : f[A] = A \cup { w + 1 }
      OBVIOUS
    <3> HIDE DEF f, S, T
    <3> QED
      BY <3>1, <3>2 DEF Injection, IsInjective
  <2>3. f \in Bijection(S, T)
    BY <2>1, <2>2 DEF Bijection
  <2> HIDE DEF f, T, S
  <2> QED
    BY <1>3, <2>3, FS_Bijection DEF ExistsBijection
<1> HIDE DEF S, T, U
<1>7. Cardinality(S) \in Nat
  BY <1>3, FS_CardinalityType
<1>8. Cardinality(S \cup T) = Cardinality(S) + Cardinality(T)
  <2>1. Cardinality(S \cap T) = 0
    BY <1>5, FS_EmptySet
  <2>2. Cardinality(S \cup T) = Cardinality(S) + Cardinality(T) - Cardinality(S \cap T)
    BY <1>3, <1>6, FS_Union
  <2> QED
    BY <1>6, <1>7, <2>1, <2>2
<1>9. Cardinality(S) # 0
  <2>1. {} \in S
    BY DEF S
  <2> QED
    BY <1>3, <2>1, FS_EmptySet
<1> QED
  BY <1>3, <1>4, <1>6, <1>7, <1>8, <1>9

\* The range of IntWidth bits is as wide as it has values.
LEMMA RangeOfIntegers ==
  \E p \in Nat \ {0} : MinInt = -p /\ MaxInt = p - 1 /\ 2 ^ IntWidth = 2 * p
<1>1. PICK w \in Nat : IntWidth = w + 1 /\ IntWidth - 1 = w
  BY IntWidthAssumption
<1>2. 2 ^ w \in Nat \ {0} /\ 2 ^ (w + 1) = 2 * 2 ^ w
  BY Doubling
<1> QED
  BY <1>1, <1>2 DEF MinInt, MaxInt

\* What does not fit is brought back into the range.
LEMMA WrapIsInRange == \A i \in Int : Int64(Wrap(i)) \in Objects
<1> SUFFICES ASSUME NEW i \in Int PROVE Wrap(i) \in Ints
  BY DEF Objects, Int64s
<1>1. PICK p \in Nat \ {0} : MinInt = -p /\ MaxInt = p - 1 /\ 2 ^ IntWidth = 2 * p
  BY RangeOfIntegers
<1>2. PICK d \in Nat \ {0} : d = 2 * p
  OBVIOUS
<1>3. (i + p) % d \in 0..d - 1
  BY <1>2
<1>4. Wrap(i) = ((i + p) % d) + -p
  BY <1>1, <1>2 DEF Wrap
<1> QED
  BY <1>1, <1>2, <1>3, <1>4 DEF Ints

\* A quotient of naturals is no larger than the dividend.
LEMMA Dividing == \A a \in Nat, b \in Nat \ {0} : a \div b \in 0..a /\ (b >= 2 => 2 * (a \div b) <= a)
<1> SUFFICES ASSUME NEW a \in Nat, NEW b \in Nat \ {0}
             PROVE  a \div b \in 0..a /\ (b >= 2 => 2 * (a \div b) <= a)
  OBVIOUS
<1>1. PICK q \in Int, r \in 0..b - 1 : q = a \div b /\ a = b * q + r
  <2>1. a \div b \in Int
    OBVIOUS
  <2>2. a % b \in 0..b - 1
    OBVIOUS
  <2>3. a = b * (a \div b) + (a % b)
    OBVIOUS
  <2> QED
    BY <2>1, <2>2, <2>3
<1>2. q >= 0
  <2>1. CASE q <= -1
    <3>1. b * q <= b * (-1)
      BY <2>1
    <3> QED
      BY <1>1, <3>1
  <2> QED
    BY <2>1
<1>3. q <= b * q
  BY <1>2
<1>4. b >= 2 => 2 * q <= b * q
  BY <1>2
<1>5. PICK m \in Int : m = b * q /\ a = m + r
  BY <1>1
<1> QED
  BY <1>1, <1>2, <1>3, <1>4, <1>5

\* Only the two divisions that trap would leave the range.
LEMMA QuotientIsInRange ==
  \A a, b \in Ints : ~DivisionTraps(a, b) => Int64(Quotient(a, b)) \in Objects
<1> SUFFICES ASSUME NEW a \in Ints, NEW b \in Ints, ~DivisionTraps(a, b) PROVE Quotient(a, b) \in Ints
  BY DEF Objects, Int64s
<1>1. PICK p \in Nat \ {0} : MinInt = -p /\ MaxInt = p - 1
  BY RangeOfIntegers
<1>2. a \in -p..p - 1 /\ b \in -p..p - 1 /\ b # 0 /\ ~(a = -p /\ b = -1)
  BY <1>1 DEF DivisionTraps, Ints
<1>3. PICK x \in Nat, y \in Nat \ {0} : x = Abs(a) /\ y = Abs(b)
  BY <1>2 DEF Abs
<1>4. PICK q \in 0..x : q = x \div y /\ (y >= 2 => 2 * q <= x)
  BY Dividing
<1>5. CASE ~((a < 0) = (b < 0))
  <2>1. Quotient(a, b) = -q
    BY <1>3, <1>4, <1>5 DEF Quotient
  <2> QED
    BY <1>1, <1>2, <1>3, <1>4, <2>1 DEF Abs, Ints
<1>6. CASE (a < 0) = (b < 0)
  <2>1. Quotient(a, b) = q
    BY <1>3, <1>4, <1>6 DEF Quotient
  <2>2. q <= p - 1
    BY <1>2, <1>3, <1>4, <1>6 DEF Abs
  <2> QED
    BY <1>1, <1>4, <2>1, <2>2 DEF Ints
<1> QED
  BY <1>5, <1>6

--------------------------------------------------------------------------------
(* Functions given by what they make of a tree's younger nodes.                 *)

Guided(f, S, step, n) ==
    f \in [ 1..n -> S ] /\ \A k \in 1..n : f[k] = step[k][[ i \in 1..k - 1 |-> f[i] ]]

\* A function given by step exists: by least counterexample, as induction is out of reach.
LEMMA TreeRecursion ==
  ASSUME NEW S, NEW n \in Nat, NEW step, \A k \in 1..n : step[k] \in [ [ 1..k - 1 -> S ] -> S ]
  PROVE  \E f : Guided(f, S, step, n)
<1> DEFINE Upto(m) == \E f : Guided(f, S, step, m)
           T == { m \in 0..n : ~Upto(m) }
<1>1. T = {}
  <2> SUFFICES ASSUME T # {} PROVE FALSE
    OBVIOUS
  <2>1. PICK m \in T : \A other \in T : m <= other
    <3>1. T \subseteq Nat
      OBVIOUS
    <3> QED
      BY <3>1, LeastElement
  <2> HIDE DEF T
  <2>2. m \in 0..n /\ ~Upto(m)
    BY <2>1 DEF T
  <2>3. CASE m = 0
    <3>1. PICK f : f = [ k \in 1..0 |-> k ]
      OBVIOUS
    <3>2. f \in [ 1..0 -> S ] /\ \A k \in 1..0 : FALSE
      BY <3>1
    <3>3. Upto(0)
      BY <3>2 DEF Guided
    <3> QED
      BY <2>2, <2>3, <3>3
  <2>4. CASE m # 0
    <3>1. PICK l \in 0..n : m = l + 1 /\ m - 1 = l /\ m \in 1..n /\ ~(m <= l)
      <4>1. m - 1 \in 0..n /\ m = m - 1 + 1 /\ m \in 1..n /\ ~(m <= m - 1)
        BY <2>2, <2>4
      <4> QED
        BY <4>1
    <3>2. l \notin T
      BY <2>1, <3>1
    <3>3. PICK f : Guided(f, S, step, l)
      BY <3>1, <3>2 DEF T
    <3>4. f \in [ 1..l -> S ] /\ step[m] \in [ [ 1..l -> S ] -> S ]
      BY <3>1, <3>3 DEF Guided
    <3>5. step[m][f] \in S
      BY <3>4
    <3>6. PICK g : g = [ k \in 1..m |-> IF k = m THEN step[m][f] ELSE f[k] ]
      OBVIOUS
    <3>7. \A k \in 1..m : k = m \/ k \in 1..l
      BY <3>1
    <3>8. \A k \in 1..l : k \in 1..m /\ k # m
      BY <3>1
    <3>9. g \in [ 1..m -> S ]
      BY <3>4, <3>5, <3>6, <3>7
    <3>10. \A k \in 1..l : g[k] = f[k]
      BY <3>6, <3>8
    <3>11. ASSUME NEW k \in 1..m PROVE g[k] = step[k][[ i \in 1..k - 1 |-> g[i] ]]
      <4>1. PICK h : h = [ i \in 1..k - 1 |-> g[i] ]
        OBVIOUS
      <4>2. CASE k = m
        <5>1. h = f
          <6>1. h = [ i \in 1..l |-> g[i] ]
            BY <3>1, <4>1, <4>2
          <6>2. f = [ i \in 1..l |-> f[i] ]
            BY <3>4
          <6> QED
            BY <3>10, <6>1, <6>2
        <5>2. g[m] = step[m][f]
          BY <3>1, <3>6
        <5> QED
          BY <4>1, <4>2, <5>1, <5>2
      <4>3. CASE k # m
        <5>1. k \in 1..l
          BY <3>7, <4>3
        <5>2. \A i \in 1..k - 1 : i \in 1..l
          BY <3>1, <5>1
        <5>3. h = [ i \in 1..k - 1 |-> f[i] ]
          BY <3>10, <4>1, <5>2
        <5>4. f[k] = step[k][h]
          BY <3>3, <5>1, <5>3 DEF Guided
        <5> QED
          BY <3>10, <4>1, <5>1, <5>4
      <4> QED
        BY <4>2, <4>3
    <3>12. Upto(m)
      BY <3>9, <3>11 DEF Guided
    <3> QED
      BY <2>2, <3>12
  <2> QED
    BY <2>3, <2>4
<1>2. n \in 0..n
  OBVIOUS
<1> QED
  BY <1>1, <1>2

Older(cells) ==
    \A n \in 1..Len(cells) : \A k \in 1..Len(cells[n].kids) : cells[n].kids[k] \in 1..n - 1

\* A kid is older than the cell built on it.
LEMMA TypedIsOlder ==
  ASSUME NEW cells, Typed(cells)
  PROVE  Older(cells)
<1> SUFFICES ASSUME NEW n \in 1..Len(cells), NEW k \in 1..Len(cells[n].kids)
             PROVE  cells[n].kids[k] \in 1..n - 1
  BY DEF Older
<1>1. TypedCell(cells, n)
  BY DEF Typed
<1>2. CASE \E value \in Objects \cup { NullObject } : cells[n] = Literal(value)
  BY <1>2 DEF Literal
<1>3. CASE \E name \in Name, type \in ObjectTypes : cells[n] = Symbol(name, type)
  BY <1>3 DEF Symbol
<1>4. CASE \E op \in UnaryOperators, operand \in 1..n - 1 : cells[n] = Unary(op, operand)
  BY <1>4 DEF Unary
<1>5. CASE \E op \in BinaryOperators, left \in 1..n - 1, right \in 1..n - 1 : cells[n] = Binary(op, left, right)
  BY <1>5 DEF Binary
<1>6. CASE \E symbol \in 1..n - 1, type \in ObjectTypes : cells[n] = Variable(symbol, type)
  BY <1>6 DEF Variable
<1>7. CASE \E symbol \in 1..n - 1, expression \in 1..n - 1 :
               cells[n] = Assignment(symbol, expression, cells[expression].type)
  BY <1>7 DEF Assignment
<1> QED
  BY <1>1, <1>2, <1>3, <1>4, <1>5, <1>6, <1>7 DEF TypedCell

\* So Below is what its recursive definition says.
LEMMA BelowIs ==
  ASSUME NEW size \in Nat, size = Len(heap), Older(heap)
  PROVE  Below = [ n \in 1..size |->
                     { n } \cup UNION { Below[heap[n].kids[k]] : k \in 1..Len(heap[n].kids) } ]
<1> DEFINE S == SUBSET (1..size)
           kid(n, k) == heap[n].kids[k]
           those(n, f) == { n } \cup UNION { f[kid(n, k)] : k \in 1..Len(heap[n].kids) }
           step == [ n \in 1..size |-> [ g \in [ 1..n - 1 -> S ] |-> those(n, g) ] ]
<1>1. \A n \in 1..size : \A k \in 1..Len(heap[n].kids) : kid(n, k) \in 1..n - 1
  BY DEF Older
<1>2. ASSUME NEW n \in 1..size PROVE step[n] \in [ [ 1..n - 1 -> S ] -> S ]
  <2>1. ASSUME NEW g \in [ 1..n - 1 -> S ] PROVE those(n, g) \in S
    BY <1>1
  <2> QED
    BY <2>1
<1>3. PICK f : Guided(f, S, step, size)
  <2> HIDE DEF S, step
  <2> QED
    BY <1>2, TreeRecursion
<1>4. ASSUME NEW n \in 1..size PROVE f[n] = those(n, f)
  <2>1. PICK g : g = [ i \in 1..n - 1 |-> f[i] ]
    OBVIOUS
  <2>2. g \in [ 1..n - 1 -> S ]
    <3>1. f \in [ 1..size -> S ] /\ \A i \in 1..n - 1 : i \in 1..size
      BY <1>3 DEF Guided
    <3> HIDE DEF S
    <3> QED
      BY <2>1, <3>1
  <2>3. f[n] = step[n][g]
    BY <1>3, <2>1 DEF Guided
  <2>4. f[n] = those(n, g)
    BY <2>2, <2>3
  <2>5. \A k \in 1..Len(heap[n].kids) : g[kid(n, k)] = f[kid(n, k)]
    BY <1>1, <2>1
  <2> HIDE DEF kid
  <2> QED
    BY <2>4, <2>5
<1>5. f = [ n \in 1..size |-> those(n, f) ]
  <2>1. f = [ n \in 1..size |-> f[n] ]
    BY <1>3 DEF Guided
  <2> HIDE DEF those
  <2> QED
    BY <1>4, <2>1
<1> HIDE DEF those
<1>6. Below = CHOOSE b : b = [ n \in 1..size |-> those(n, b) ]
  BY DEF Below, those
<1> DEFINE Fits(b) == b = [ n \in 1..size |-> those(n, b) ]
<1>7. Below = CHOOSE b : Fits(b)
  BY <1>6
<1>8. Fits(f)
  BY <1>5
<1> HIDE DEF Fits
<1>9. Fits(Below)
  BY <1>7, <1>8
<1> QED
  BY <1>9 DEF those, Fits

\* Freeing a cell frees only cells there are.
LEMMA BelowIsWithin ==
  ASSUME NEW size \in Nat, size = Len(heap), Older(heap)
  PROVE  \A n \in 1..size : Below[n] \subseteq 1..size
<1> DEFINE T == { n \in 1..size : ~(Below[n] \subseteq 1..size) }
<1> SUFFICES ASSUME T # {} PROVE FALSE
  OBVIOUS
<1>1. PICK n \in T : \A other \in T : n <= other
  <2>1. T \subseteq Nat
    OBVIOUS
  <2> QED
    BY <2>1, LeastElement
<1>2. n \in 1..size /\ ~(Below[n] \subseteq 1..size)
  BY <1>1
<1>3. Below[n] = { n } \cup UNION { Below[heap[n].kids[k]] : k \in 1..Len(heap[n].kids) }
  BY <1>2, BelowIs
<1>4. ASSUME NEW k \in 1..Len(heap[n].kids) PROVE Below[heap[n].kids[k]] \subseteq 1..size
  <2>1. PICK kid \in 1..n - 1 : kid = heap[n].kids[k]
    BY <1>2 DEF Older
  <2>2. kid \in 1..size /\ ~(n <= kid)
    BY <1>2, <2>1
  <2>3. kid \notin T
    BY <1>1, <2>2
  <2> QED
    BY <2>1, <2>2, <2>3
<1> QED
  BY <1>2, <1>3, <1>4

--------------------------------------------------------------------------------
(* The cells of a bound tree, as they are added.                                *)

Extends(old, new) == Len(old) <= Len(new) /\ \A n \in 1..Len(old) : new[n] = old[n]

\* Cells stay what they are when others are added.
LEMMA BuildsKept ==
  ASSUME NEW old \in Seq(Cell), NEW new \in Seq(Cell), Extends(old, new), NEW n
  PROVE  /\ Builds(old, n) => Builds(new, n) /\ new[n] = old[n]
         /\ IsSymbol(old, n) => IsSymbol(new, n) /\ new[n] = old[n]
BY DEF Extends, Builds, IsSymbol

LEMMA TypedCellKept ==
  ASSUME NEW old \in Seq(Cell), NEW new \in Seq(Cell), Extends(old, new),
         NEW n \in 1..Len(old), TypedCell(old, n)
  PROVE  TypedCell(new, n)
<1>1. new[n] = old[n] /\ \A m \in 1..n - 1 : m \in 1..Len(old) /\ new[m] = old[m]
  BY DEF Extends
<1>2. \A m : /\ Builds(old, m) => Builds(new, m)
             /\ IsSymbol(old, m) => IsSymbol(new, m)
  BY BuildsKept
<1>3. CASE \E value \in Objects \cup { NullObject } : old[n] = Literal(value)
  BY <1>1, <1>3 DEF TypedCell
<1>4. CASE \E name \in Name, type \in ObjectTypes : old[n] = Symbol(name, type)
  BY <1>1, <1>4 DEF TypedCell
<1>5. ASSUME NEW op \in UnaryOperators, NEW operand \in 1..n - 1, old[n] = Unary(op, operand),
             Builds(old, operand), old[operand].type = op.operand_type
      PROVE  TypedCell(new, n)
  BY <1>1, <1>2, <1>5 DEF TypedCell
<1>6. ASSUME NEW op \in BinaryOperators, NEW left \in 1..n - 1, NEW right \in 1..n - 1,
             old[n] = Binary(op, left, right),
             Builds(old, left), old[left].type = op.operand_type,
             Builds(old, right), old[right].type = op.operand_type
      PROVE  TypedCell(new, n)
  BY <1>1, <1>2, <1>6 DEF TypedCell
<1>7. ASSUME NEW symbol \in 1..n - 1, NEW type \in ObjectTypes, old[n] = Variable(symbol, type),
             IsSymbol(old, symbol)
      PROVE  TypedCell(new, n)
  BY <1>1, <1>2, <1>7 DEF TypedCell
<1>8. ASSUME NEW symbol \in 1..n - 1, NEW expression \in 1..n - 1,
             old[n] = Assignment(symbol, expression, old[expression].type),
             IsSymbol(old, symbol), Builds(old, expression),
             old[symbol].type = old[expression].type
      PROVE  TypedCell(new, n)
  BY <1>1, <1>2, <1>8 DEF TypedCell
<1> QED
  BY <1>3, <1>4, <1>5, <1>6, <1>7, <1>8 DEF TypedCell

\* One more cell.
LEMMA PushCell ==
  ASSUME NEW cells \in Seq(Cell), Typed(cells), NEW cell \in Cell,
         TypedCell(Append(cells, cell), Len(cells) + 1)
  PROVE  /\ Append(cells, cell) \in Seq(Cell) /\ Typed(Append(cells, cell))
         /\ Extends(cells, Append(cells, cell))
         /\ Len(Append(cells, cell)) = Len(cells) + 1 /\ Append(cells, cell)[Len(cells) + 1] = cell
<1> DEFINE new == Append(cells, cell)
<1>1. PICK size \in Nat : size = Len(cells)
  OBVIOUS
<1>2. /\ new \in Seq(Cell) /\ Len(new) = size + 1 /\ new[size + 1] = cell
      /\ \A i \in 1..size : new[i] = cells[i]
  BY <1>1, PushOne
<1> HIDE DEF new
<1>3. Extends(cells, new)
  BY <1>1, <1>2 DEF Extends
<1>4. ASSUME NEW n \in 1..size PROVE TypedCell(new, n)
  BY <1>1, <1>2, <1>3, TypedCellKept DEF Typed
<1>5. \A n \in 1..size + 1 : n = size + 1 \/ n \in 1..size
  BY <1>1
<1>6. TypedCell(new, size + 1)
  BY <1>1 DEF new
<1>7. Typed(new)
  BY <1>2, <1>4, <1>5, <1>6 DEF Typed
<1> QED
  BY <1>1, <1>2, <1>3, <1>7 DEF new

\* What is below a cell, by what it is.
LEMMA TakeApart ==
  ASSUME NEW cells \in Seq(Cell), Typed(cells), NEW n \in 1..Len(cells)
  PROVE  /\ cells[n].cell = "LITERAL" =>
               /\ cells[n].value \in Objects \cup { NullObject } /\ cells[n].type = cells[n].value.type
         /\ cells[n].cell = "SYMBOL" => cells[n].name \in Name
         /\ cells[n].cell = "UNARY" =>
               \E op \in UnaryOperators, operand \in 1..n - 1 :
                  /\ cells[n] = Unary(op, operand)
                  /\ Builds(cells, operand) /\ cells[operand].type = op.operand_type
         /\ cells[n].cell = "BINARY" =>
               \E op \in BinaryOperators, left \in 1..n - 1, right \in 1..n - 1 :
                  /\ cells[n] = Binary(op, left, right)
                  /\ Builds(cells, left) /\ cells[left].type = op.operand_type
                  /\ Builds(cells, right) /\ cells[right].type = op.operand_type
         /\ cells[n].cell = "VARIABLE" =>
               \E symbol \in 1..n - 1, type \in ObjectTypes :
                  cells[n] = Variable(symbol, type) /\ IsSymbol(cells, symbol)
         /\ cells[n].cell = "ASSIGNMENT" =>
               \E symbol \in 1..n - 1, expression \in 1..n - 1 :
                  /\ cells[n] = Assignment(symbol, expression, cells[expression].type)
                  /\ IsSymbol(cells, symbol) /\ Builds(cells, expression)
                  /\ cells[symbol].type = cells[expression].type
         /\ cells[n].cell \in { "LITERAL", "SYMBOL", "UNARY", "BINARY", "VARIABLE", "ASSIGNMENT" }
<1>1. TypedCell(cells, n)
  BY DEF Typed
<1>2. CASE \E value \in Objects \cup { NullObject } : cells[n] = Literal(value)
  BY <1>2 DEF Literal
<1>3. CASE \E name \in Name, type \in ObjectTypes : cells[n] = Symbol(name, type)
  BY <1>3 DEF Symbol
<1>4. CASE \E op \in UnaryOperators, operand \in 1..n - 1 :
              /\ cells[n] = Unary(op, operand)
              /\ Builds(cells, operand) /\ cells[operand].type = op.operand_type
  <2>1. cells[n].cell = "UNARY"
    BY <1>4 DEF Unary
  <2> QED
    BY <1>4, <2>1
<1>5. CASE \E op \in BinaryOperators, left \in 1..n - 1, right \in 1..n - 1 :
              /\ cells[n] = Binary(op, left, right)
              /\ Builds(cells, left) /\ cells[left].type = op.operand_type
              /\ Builds(cells, right) /\ cells[right].type = op.operand_type
  <2>1. cells[n].cell = "BINARY"
    BY <1>5 DEF Binary
  <2> QED
    BY <1>5, <2>1
<1>6. CASE \E symbol \in 1..n - 1, type \in ObjectTypes :
              cells[n] = Variable(symbol, type) /\ IsSymbol(cells, symbol)
  <2>1. cells[n].cell = "VARIABLE"
    BY <1>6 DEF Variable
  <2> QED
    BY <1>6, <2>1
<1>7. CASE \E symbol \in 1..n - 1, expression \in 1..n - 1 :
              /\ cells[n] = Assignment(symbol, expression, cells[expression].type)
              /\ IsSymbol(cells, symbol) /\ Builds(cells, expression)
              /\ cells[symbol].type = cells[expression].type
  <2>1. cells[n].cell = "ASSIGNMENT"
    BY <1>7 DEF Assignment
  <2> QED
    BY <1>7, <2>1
<1> QED
  BY <1>1, <1>2, <1>3, <1>4, <1>5, <1>6, <1>7 DEF TypedCell

\* Names are read through a kid, which stays too.
LEMMA NameKept ==
  ASSUME NEW old \in Seq(Cell), Typed(old), NEW new \in Seq(Cell), Extends(old, new), NEW n \in 1..Len(old)
  PROVE  /\ new[n] = old[n] /\ IsAssignment(new, n) = IsAssignment(old, n)
         /\ old[n].cell \in { "VARIABLE", "ASSIGNMENT" } => NameAt(new, n) = NameAt(old, n)
<1>1. new[n] = old[n]
  BY DEF Extends
<1>2. \A m \in 1..n - 1 : new[m] = old[m]
  BY DEF Extends
<1>3. CASE old[n].cell = "VARIABLE"
  <2>1. PICK symbol \in 1..n - 1, type \in ObjectTypes : old[n] = Variable(symbol, type)
    BY <1>3, TakeApart
  <2>2. old[n].kids[1] = symbol
    BY <2>1 DEF Variable
  <2> QED
    BY <1>1, <1>2, <1>3, <2>2 DEF NameAt, IsAssignment
<1>4. CASE old[n].cell = "ASSIGNMENT"
  <2>1. PICK symbol \in 1..n - 1, expression \in 1..n - 1 :
           old[n] = Assignment(symbol, expression, old[expression].type)
    BY <1>4, TakeApart
  <2>2. old[n].kids[1] = symbol
    BY <2>1 DEF Assignment
  <2> QED
    BY <1>1, <1>2, <1>4, <2>2 DEF NameAt, IsAssignment
<1> QED
  BY <1>1, <1>3, <1>4 DEF IsAssignment

Continues(after, first, n) == \A i \in 1..n : after[i] = first[i]

\* A cell stays in its place.
LEMMA OrderedCellKept ==
  ASSUME NEW old \in Seq(Cell), Typed(old), NEW new \in Seq(Cell), Extends(old, new),
         NEW first, NEW after, Continues(after, first, Len(old)),
         NEW n \in 1..Len(old), OrderedCell(old, first, n)
  PROVE  OrderedCell(new, after, n)
<1>1. /\ new[n] = old[n] /\ after[n] = first[n]
      /\ \A m \in 1..n - 1 : m \in 1..Len(old) /\ new[m] = old[m] /\ after[m] = first[m]
  BY DEF Extends, Continues
<1>2. \A m \in 1..n : /\ IsAssignment(new, m) = IsAssignment(old, m)
                      /\ old[m].cell \in { "VARIABLE", "ASSIGNMENT" } => NameAt(new, m) = NameAt(old, m)
  BY NameKept
<1>3. CASE old[n].cell = "LITERAL"
  BY <1>1, <1>3 DEF OrderedCell
<1>4. CASE old[n].cell = "UNARY"
  <2>1. PICK op \in UnaryOperators, operand \in 1..n - 1 : old[n] = Unary(op, operand)
    BY <1>4, TakeApart
  <2>2. old[n].kids = << operand >>
    BY <2>1 DEF Unary
  <2>3. old[n].kids = << n - 1 >> /\ first[n] = first[n - 1]
    BY <1>4 DEF OrderedCell
  <2>4. n - 1 \in 1..n - 1
    BY <2>2, <2>3
  <2>5. new[n].kids = << n - 1 >> /\ after[n] = after[n - 1]
    BY <1>1, <2>3, <2>4
  <2> QED
    BY <1>1, <1>4, <2>5 DEF OrderedCell
<1>5. CASE old[n].cell = "BINARY"
  <2>1. PICK op \in BinaryOperators, left \in 1..n - 1, right \in 1..n - 1 : old[n] = Binary(op, left, right)
    BY <1>5, TakeApart
  <2>2. old[n].kids[1] = left /\ old[n].kids[2] = right
    BY <2>1 DEF Binary
  <2>3. /\ right = n - 1
        /\ first[n - 1] = left + 1 /\ first[n] = first[left]
    BY <1>5, <2>2 DEF OrderedCell
  <2>4. after[n - 1] = left + 1 /\ after[n] = after[left]
    BY <1>1, <2>3
  <2> QED
    BY <1>1, <1>5, <2>2, <2>3, <2>4 DEF OrderedCell
<1>6. CASE old[n].cell = "VARIABLE"
  <2>1. /\ old[n].kids = << n - 1 >> /\ first[n] = n - 1
        /\ \E a \in 1..n - 2 : /\ IsAssignment(old, a) /\ NameAt(old, a) = NameAt(old, n)
                               /\ old[a].type = old[n].type
    BY <1>6 DEF OrderedCell
  <2>2. PICK a \in 1..n - 2 : /\ IsAssignment(old, a) /\ NameAt(old, a) = NameAt(old, n)
                              /\ old[a].type = old[n].type
    BY <2>1
  <2>3. a \in 1..n /\ a \in 1..n - 1
    OBVIOUS
  <2>4. old[a].cell = "ASSIGNMENT"
    BY <2>2 DEF IsAssignment
  <2>5. NameAt(new, a) = NameAt(new, n) /\ IsAssignment(new, a) /\ new[a].type = new[n].type
    BY <1>1, <1>2, <1>6, <2>2, <2>3, <2>4
  <2> QED
    BY <1>1, <1>6, <2>1, <2>5 DEF OrderedCell
<1>7. CASE old[n].cell = "ASSIGNMENT"
  <2>1. PICK symbol \in 1..n - 1, expression \in 1..n - 1 :
           old[n] = Assignment(symbol, expression, old[expression].type)
    BY <1>7, TakeApart
  <2>2. old[n].kids = << symbol, expression >>
    BY <2>1 DEF Assignment
  <2>3. /\ old[n].kids = << n - 2, n - 3 >> /\ first[n] = first[n - 3]
        /\ IsSymbol(old, n - 1)
        /\ \A a \in 1..n - 1 : IsAssignment(old, a) => NameAt(old, a) # NameAt(old, n)
    BY <1>7 DEF OrderedCell
  <2>4. n - 3 \in 1..n - 1
    BY <2>2, <2>3
  <2>5. after[n] = after[n - 3]
    BY <1>1, <2>3, <2>4
  <2>6. IsSymbol(new, n - 1)
    BY <2>3, BuildsKept
  <2>7. ASSUME NEW a \in 1..n - 1, IsAssignment(new, a) PROVE NameAt(new, a) # NameAt(new, n)
    <3>1. a \in 1..n /\ IsAssignment(old, a) /\ old[a].cell = "ASSIGNMENT"
      BY <1>2, <2>7 DEF IsAssignment
    <3> QED
      BY <1>2, <1>7, <2>3, <3>1
  <2> QED
    BY <1>1, <1>7, <2>3, <2>5, <2>6, <2>7 DEF OrderedCell
<1>8. CASE old[n].cell = "SYMBOL"
  BY <1>1, <1>8 DEF OrderedCell
<1> QED
  BY <1>3, <1>4, <1>5, <1>6, <1>7, <1>8, TakeApart

Continued(first, n, start) == [ i \in 1..n + 1 |-> IF i = n + 1 THEN start ELSE first[i] ]

\* One more cell that is in its place.
LEMMA PushOrdered ==
  ASSUME NEW old \in Seq(Cell), Typed(old), NEW new \in Seq(Cell), Extends(old, new),
         Len(new) = Len(old) + 1, NEW first, Ordered(old, first), NEW start \in Nat,
         NEW after, after = Continued(first, Len(old), start),
         OrderedCell(new, after, Len(new))
  PROVE  /\ Ordered(new, after) /\ after[Len(new)] = start
         /\ Continues(after, first, Len(old))
<1>1. PICK size \in Nat : Len(old) = size /\ Len(new) = size + 1
  OBVIOUS
<1>2. first \in [ 1..size -> Nat ] /\ \A n \in 1..size : OrderedCell(old, first, n)
  BY <1>1 DEF Ordered
<1>3. \A n \in 1..size + 1 : n = size + 1 \/ n \in 1..size
  BY <1>1
<1>4. after \in [ 1..size + 1 -> Nat ]
  BY <1>1, <1>2, <1>3 DEF Continued
<1>5. after[size + 1] = start /\ \A i \in 1..size : after[i] = first[i]
  BY <1>1 DEF Continued
<1>6. ASSUME NEW n \in 1..size PROVE OrderedCell(new, after, n)
  <2>1. n \in 1..Len(old) /\ OrderedCell(old, first, n) /\ Continues(after, first, Len(old))
    BY <1>1, <1>2, <1>5 DEF Continues
  <2> QED
    BY <2>1, OrderedCellKept
<1> QED
  BY <1>1, <1>3, <1>4, <1>5, <1>6 DEF Ordered, Continues

\* Cells that assign nothing declare nothing.
LEMMA DeclaresKept ==
  ASSUME NEW old \in Seq(Cell), Typed(old), NEW new \in Seq(Cell), Extends(old, new),
         NEW names, Declares(old, names), \A name \in DOMAIN names : IsSymbol(old, names[name]),
         \A n \in 1..Len(new) : n \in 1..Len(old) \/ ~IsAssignment(new, n)
  PROVE  Declares(new, names)
<1>1. ASSUME NEW n \in 1..Len(new), IsAssignment(new, n)
      PROVE  NameAt(new, n) \in DOMAIN names /\ new[names[NameAt(new, n)]].type = new[n].type
  <2>1. n \in 1..Len(old)
    BY <1>1
  <2>2. new[n] = old[n] /\ IsAssignment(old, n) /\ old[n].cell = "ASSIGNMENT" /\ NameAt(new, n) = NameAt(old, n)
    BY <1>1, <2>1, NameKept DEF IsAssignment
  <2>3. NameAt(old, n) \in DOMAIN names /\ old[names[NameAt(old, n)]].type = old[n].type
    BY <2>1, <2>2 DEF Declares
  <2>4. new[names[NameAt(old, n)]] = old[names[NameAt(old, n)]]
    BY <2>3, BuildsKept
  <2> QED
    BY <2>2, <2>3, <2>4
<1>2. ASSUME NEW name \in DOMAIN names
      PROVE  \E n \in 1..Len(new) : IsAssignment(new, n) /\ NameAt(new, n) = name
  <2>1. PICK n \in 1..Len(old) : IsAssignment(old, n) /\ NameAt(old, n) = name
    BY DEF Declares
  <2>2. IsAssignment(new, n) /\ NameAt(new, n) = name
    BY <2>1, NameKept DEF IsAssignment
  <2>3. n \in 1..Len(new)
    BY DEF Extends
  <2> QED
    BY <2>2, <2>3
<1> QED
  BY <1>1, <1>2 DEF Declares

\* So do the calls that wait and the names that are declared.
LEMMA WaitingKept ==
  ASSUME NEW old \in Seq(Cell), NEW new \in Seq(Cell), Extends(old, new),
         NEW tree, NEW frame, Waiting(tree, old, frame)
  PROVE  Waiting(tree, new, frame)
BY BuildsKept DEF Waiting

LEMMA NamesKept ==
  ASSUME NEW old \in Seq(Cell), NEW new \in Seq(Cell), Extends(old, new),
         NEW names, \A name \in DOMAIN names : name \in Name /\ IsSymbol(old, names[name])
  PROVE  \A name \in DOMAIN names : name \in Name /\ IsSymbol(new, names[name])
BY BuildsKept

--------------------------------------------------------------------------------
(* Calls that are suspended and go on.                                          *)

\* One more call that waits, and one less.
LEMMA PushWaiting ==
  ASSUME NEW tree, NEW cells, NEW calls \in Seq(BinderFrame), NEW frame \in BinderFrame,
         \A i \in 1..Len(calls) : Waiting(tree, cells, calls[i]), Waiting(tree, cells, frame)
  PROVE  /\ Append(calls, frame) \in Seq(BinderFrame)
         /\ \A i \in 1..Len(Append(calls, frame)) : Waiting(tree, cells, Append(calls, frame)[i])
<1>1. PICK size \in Nat : size = Len(calls)
  OBVIOUS
<1>2. /\ Append(calls, frame) \in Seq(BinderFrame) /\ Len(Append(calls, frame)) = size + 1
      /\ Append(calls, frame)[size + 1] = frame
      /\ \A i \in 1..size : Append(calls, frame)[i] = calls[i]
  BY <1>1, PushOne
<1>3. \A i \in 1..size + 1 : i = size + 1 \/ i \in 1..size
  BY <1>1
<1> QED
  BY <1>1, <1>2, <1>3

LEMMA PopWaiting ==
  ASSUME NEW tree, NEW cells, NEW calls \in Seq(BinderFrame), calls # <<>>,
         \A i \in 1..Len(calls) : Waiting(tree, cells, calls[i])
  PROVE  /\ SubSeq(calls, 1, Len(calls) - 1) \in Seq(BinderFrame)
         /\ \A i \in 1..Len(SubSeq(calls, 1, Len(calls) - 1)) :
               Waiting(tree, cells, SubSeq(calls, 1, Len(calls) - 1)[i])
         /\ calls[Len(calls)] \in BinderFrame /\ Waiting(tree, cells, calls[Len(calls)])
<1>1. PICK size \in Nat \ {0} : size = Len(calls)
  BY PopOne
<1> DEFINE rest == SubSeq(calls, 1, Len(calls) - 1)
<1>2. /\ rest \in Seq(BinderFrame) /\ Len(rest) = size - 1 /\ calls[size] \in BinderFrame
      /\ \A i \in 1..size - 1 : rest[i] = calls[i]
  BY <1>1, PopOne
<1> HIDE DEF rest
<1>3. size \in 1..size /\ \A i \in 1..size - 1 : i \in 1..size
  BY <1>1
<1>4. \A i \in 1..Len(rest) : Waiting(tree, cells, rest[i])
  BY <1>1, <1>2, <1>3
<1> QED
  BY <1>1, <1>2, <1>3, <1>4 DEF rest

\* The cells a call that is made now will add come after those there are.
LEMMA PushEdge ==
  ASSUME NEW first, NEW calls \in Seq(BinderFrame), NEW edge, Edges(first, calls, edge),
         NEW frame \in BinderFrame, NEW new \in Nat,
         Moves(first, frame, edge[Len(calls) + 1], new)
  PROVE  \E after : Edges(first, Append(calls, frame), after) /\ after[Len(Append(calls, frame)) + 1] = new
<1>1. PICK size \in Nat : size = Len(calls)
  OBVIOUS
<1>2. PICK more \in Seq(BinderFrame) : /\ more = Append(calls, frame) /\ Len(more) = size + 1
                                       /\ more[size + 1] = frame /\ \A i \in 1..size : more[i] = calls[i]
  <2>1. Append(calls, frame) \in Seq(BinderFrame)
    BY PushOne
  <2>2. /\ Len(Append(calls, frame)) = size + 1 /\ Append(calls, frame)[size + 1] = frame
        /\ \A i \in 1..size : Append(calls, frame)[i] = calls[i]
    BY <1>1, PushOne
  <2> QED
    BY <2>1, <2>2
<1>3. PICK after : after = [ i \in 1..size + 2 |-> IF i = size + 2 THEN new ELSE edge[i] ]
  OBVIOUS
<1>4. edge \in [ 1..size + 1 -> Nat ] /\ edge[1] = 0
  BY <1>1 DEF Edges
<1>5. /\ 1 \in 1..size + 2 /\ 1 # size + 2 /\ size + 2 \in 1..size + 2
      /\ \A i \in 1..size + 1 : i \in 1..size + 2 /\ i # size + 2
      /\ \A i \in 1..size + 2 : i = size + 2 \/ i \in 1..size + 1
      /\ \A i \in 1..size + 1 : i = size + 1 \/ i \in 1..size
      /\ \A i \in 1..size : i \in 1..size + 1 /\ i + 1 \in 1..size + 1
      /\ size + 1 \in 1..size + 1 /\ size + 1 + 1 = size + 2
  BY <1>1
<1>6. after \in [ 1..size + 2 -> Nat ] /\ after[1] = 0 /\ after[size + 2] = new
  <2>1. \A i \in 1..size + 2 : (IF i = size + 2 THEN new ELSE edge[i]) \in Nat
    BY <1>4, <1>5
  <2>2. 1 \in 1..size + 1
    BY <1>1
  <2> QED
    BY <1>3, <1>4, <1>5, <2>1, <2>2
<1>7. \A i \in 1..size + 1 : after[i] = edge[i]
  BY <1>3, <1>5
<1>8. ASSUME NEW i \in 1..size + 1
      PROVE  Moves(first, more[i], after[i], after[i + 1])
  <2>1. CASE i = size + 1
    BY <1>1, <1>2, <1>5, <1>6, <1>7, <2>1
  <2>2. CASE i # size + 1
    <3>1. i \in 1..size /\ i + 1 \in 1..size + 1
      BY <1>5, <2>2
    <3>2. after[i] = edge[i] /\ after[i + 1] = edge[i + 1] /\ more[i] = calls[i]
      BY <1>2, <1>5, <1>7, <3>1
    <3>3. Moves(first, calls[i], edge[i], edge[i + 1])
      BY <1>1, <3>1 DEF Edges
    <3> QED
      BY <3>2, <3>3
  <2> QED
    BY <2>1, <2>2
<1> QED
  BY <1>2, <1>5, <1>6, <1>8 DEF Edges

\* The innermost call goes on where it was suspended.
LEMMA PopEdge ==
  ASSUME NEW first, NEW calls \in Seq(BinderFrame), calls # <<>>, NEW edge, Edges(first, calls, edge)
  PROVE  \E after, top :
            /\ Edges(first, SubSeq(calls, 1, Len(calls) - 1), after)
            /\ top \in Nat /\ top = after[Len(SubSeq(calls, 1, Len(calls) - 1)) + 1]
            /\ Moves(first, calls[Len(calls)], top, edge[Len(calls) + 1])
<1>1. PICK size \in Nat : size + 1 = Len(calls) /\ Len(calls) - 1 = size
  <2>1. Len(calls) \in Nat \ {0}
    BY PopOne
  <2> QED
    BY <2>1
<1>2. PICK rest \in Seq(BinderFrame) : /\ rest = SubSeq(calls, 1, Len(calls) - 1) /\ Len(rest) = size
                                       /\ \A i \in 1..size : rest[i] = calls[i]
  BY <1>1, PopOne
<1>3. PICK after : after = [ i \in 1..size + 1 |-> edge[i] ]
  OBVIOUS
<1>4. /\ \A i \in 1..size + 1 : i \in 1..size + 2
      /\ \A i \in 1..size : i \in 1..size + 1 /\ i + 1 \in 1..size + 1
      /\ 1 \in 1..size + 1 /\ size + 1 \in 1..size + 1 /\ size + 1 + 1 = size + 2
  BY <1>1
<1>5. /\ edge \in [ 1..size + 2 -> Nat ] /\ edge[1] = 0
      /\ \A i \in 1..size + 1 : Moves(first, calls[i], edge[i], edge[i + 1])
  BY <1>1, <1>4 DEF Edges
<1>6. after \in [ 1..size + 1 -> Nat ] /\ \A i \in 1..size + 1 : after[i] = edge[i]
  BY <1>3, <1>4, <1>5
<1>7. ASSUME NEW i \in 1..size
      PROVE  Moves(first, rest[i], after[i], after[i + 1])
  BY <1>2, <1>4, <1>5, <1>6
<1>8. Edges(first, rest, after)
  BY <1>2, <1>4, <1>5, <1>6, <1>7 DEF Edges
<1>9. after[size + 1] \in Nat
  BY <1>4, <1>6
<1>10. Moves(first, calls[size + 1], after[size + 1], edge[size + 2])
  BY <1>4, <1>5, <1>6
<1>11. PICK top \in Nat : top = after[size + 1]
  BY <1>9
<1>12. Len(calls) = size + 1 /\ Len(calls) + 1 = size + 2
  BY <1>1
<1> QED
  BY <1>2, <1>8, <1>10, <1>11, <1>12

\* Cells that come later do not move the edges.
LEMMA EdgesKept ==
  ASSUME NEW tree, NEW cells \in Seq(Cell), NEW calls \in Seq(BinderFrame),
         \A i \in 1..Len(calls) : Waiting(tree, cells, calls[i]),
         NEW first, NEW after, Continues(after, first, Len(cells)),
         NEW edge, Edges(first, calls, edge)
  PROVE  Edges(after, calls, edge)
BY DEF Edges, Moves, Waiting, Builds, Continues

--------------------------------------------------------------------------------
(* What a step of the binder consists of.                                       *)

\* A cell is added and returned; in order, when nothing was reported.
LEMMA AddCell ==
  ASSUME NEW tree, NEW cells, NEW names, NEW call, NEW calls, BoundBy(tree, cells, names, call, calls),
         NEW cell \in Cell, TypedCell(Append(cells, cell), Len(cells) + 1)
  PROVE  /\ BoundBy(tree, Append(cells, cell), names, call, calls)
         /\ cells \in Seq(Cell) /\ Len(cells) \in Nat /\ Typed(cells)
         /\ Extends(cells, Append(cells, cell))
         /\ Len(Append(cells, cell)) = Len(cells) + 1 /\ Append(cells, cell)[Len(cells) + 1] = cell
         /\ Append(cells, cell) \in Seq(Cell) /\ Typed(Append(cells, cell))
<1>1. cells \in Seq(Cell) /\ Typed(cells)
  BY DEF BoundBy
<1> DEFINE new == Append(cells, cell)
<1>2. /\ new \in Seq(Cell) /\ Typed(new) /\ Extends(cells, new)
      /\ Len(new) = Len(cells) + 1 /\ new[Len(cells) + 1] = cell
  BY <1>1, PushCell
<1> HIDE DEF new
<1>3. \A name \in DOMAIN names : name \in Name /\ IsSymbol(new, names[name])
  BY <1>1, <1>2, NamesKept DEF BoundBy
<1>4. \A i \in 1..Len(calls) : Waiting(tree, new, calls[i])
  BY <1>1, <1>2, WaitingKept DEF BoundBy
<1>5. \A n : Builds(cells, n) => Builds(new, n)
  BY <1>1, <1>2, BuildsKept
<1>6. BoundBy(tree, new, names, call, calls)
  BY <1>2, <1>3, <1>4, <1>5 DEF BoundBy
<1> QED
  BY <1>1, <1>2, <1>6 DEF new

LEMMA AddCellInOrder ==
  ASSUME NEW tree, NEW cells, NEW names, NEW call, NEW calls, BoundBy(tree, cells, names, call, calls),
         NEW first, NEW edge, Ordered(cells, first), Edges(first, calls, edge), Declares(cells, names),
         NEW cell \in Cell, TypedCell(Append(cells, cell), Len(cells) + 1), cell.cell # "ASSIGNMENT",
         NEW start \in Nat,
         NEW after, after = Continued(first, Len(cells), start),
         OrderedCell(Append(cells, cell), after, Len(cells) + 1)
  PROVE  /\ Ordered(Append(cells, cell), after) /\ Edges(after, calls, edge)
         /\ Declares(Append(cells, cell), names)
         /\ after[Len(cells) + 1] = start /\ Continues(after, first, Len(cells))
<1> DEFINE new == Append(cells, cell)
<1>1. /\ cells \in Seq(Cell) /\ Typed(cells) /\ Extends(cells, new) /\ new \in Seq(Cell)
      /\ Len(new) = Len(cells) + 1 /\ new[Len(cells) + 1] = cell
  BY AddCell
<1> HIDE DEF new
<1>2. OrderedCell(new, after, Len(new))
  BY <1>1 DEF new
<1>3. Ordered(new, after) /\ after[Len(new)] = start /\ Continues(after, first, Len(cells))
  BY <1>1, <1>2, PushOrdered
<1>4. calls \in Seq(BinderFrame) /\ \A i \in 1..Len(calls) : Waiting(tree, cells, calls[i])
  BY DEF BoundBy
<1>5. Edges(after, calls, edge)
  BY <1>1, <1>3, <1>4, EdgesKept
<1>6. \A n \in 1..Len(new) : n \in 1..Len(cells) \/ ~IsAssignment(new, n)
  <2>1. PICK size \in Nat : size = Len(cells)
    BY <1>1
  <2>2. \A n \in 1..size + 1 : n = size + 1 \/ n \in 1..size
    OBVIOUS
  <2>3. ~IsAssignment(new, size + 1)
    BY <1>1, <2>1 DEF IsAssignment
  <2> QED
    BY <1>1, <2>1, <2>2, <2>3
<1>7. \A name \in DOMAIN names : IsSymbol(cells, names[name])
  BY DEF BoundBy
<1>8. Declares(new, names)
  BY <1>1, <1>6, <1>7, DeclaresKept
<1> QED
  BY <1>1, <1>3, <1>5, <1>8 DEF new

\* The running call changes: it binds a kid, returns a cell, suspends itself, or gives way
\* to one that waited.
LEMMA CallKid ==
  ASSUME NEW tree, NEW cells, NEW names, NEW call, NEW calls, BoundBy(tree, cells, names, call, calls),
         NEW n \in 1..Len(tree.nodes), Kind(tree, n) \in ExpressionKinds
  PROVE  BoundBy(tree, cells, names, Bind(n), calls)
<1>1. n \in Nat
  OBVIOUS
<1> QED
  BY <1>1 DEF BoundBy, Bind, BinderCall

LEMMA ReturnCell ==
  ASSUME NEW tree, NEW cells, NEW names, NEW call, NEW calls, BoundBy(tree, cells, names, call, calls),
         NEW n, Builds(cells, n)
  PROVE  BoundBy(tree, cells, names, Bound(n), calls)
<1>1. n \in Nat
  BY DEF Builds
<1> QED
  BY <1>1 DEF BoundBy, Bound, BinderCall

LEMMA SuspendCall ==
  ASSUME NEW tree, NEW cells, NEW names, NEW call, NEW calls, BoundBy(tree, cells, names, call, calls),
         call.fn # "done", NEW frame \in BinderFrame, Waiting(tree, cells, frame)
  PROVE  BoundBy(tree, cells, names, call, Append(calls, frame))
BY PushWaiting DEF BoundBy

LEMMA PopCall ==
  ASSUME NEW tree, NEW cells, NEW names, NEW call, NEW calls, BoundBy(tree, cells, names, call, calls),
         call.fn # "done", calls # <<>>
  PROVE  /\ BoundBy(tree, cells, names, call, SubSeq(calls, 1, Len(calls) - 1))
         /\ calls[Len(calls)] \in BinderFrame /\ Waiting(tree, cells, calls[Len(calls)])
BY PopWaiting DEF BoundBy

\* What the tree has for the binder to read.
Bindable(n) == n \in 1..Len(syntax.nodes) /\ Kind(syntax, n) \in ExpressionKinds

\* The kids of a node are nodes to bind, and its leaf has a value or a name.
LEMMA ReadTree ==
  ASSUME IsSyntaxTree(syntax), NEW n \in 1..Len(syntax.nodes)
  PROVE  /\ KindOf(n) = Kind(syntax, n)
         /\ KindOf(n) = "LITERAL_EXPRESSION" =>
               /\ LiteralValue(n) \in Objects \cup { NullObject }
               /\ syntax.diagnostics = <<>> => LiteralValue(n) \in Objects
         /\ KindOf(n) = "NAME_EXPRESSION" => TextOf(Kid(n, 1)) \in Names
         /\ KindOf(n) = "ASSIGNMENT_EXPRESSION" => TextOf(Kid(n, 1)) \in Name /\ Bindable(Kid(n, 3))
         /\ KindOf(n) \in { "PARENTHESIZED_EXPRESSION", "UNARY_EXPRESSION" } => Bindable(Kid(n, 2))
         /\ KindOf(n) = "BINARY_EXPRESSION" => Bindable(Kid(n, 1)) /\ Bindable(Kid(n, 3))
<1>1. KindOf(n) = Kind(syntax, n)
  BY DEF KindOf, Kind
<1>2. CASE KindOf(n) = "LITERAL_EXPRESSION"
  <2>1. CASE syntax.nodes[Kid(n, 1)].kind \in KeywordKinds
    <3>1. LiteralValue(n) = Bool(syntax.nodes[Kid(n, 1)].kind = "TRUE_KEYWORD")
      BY <2>1 DEF LiteralValue, KeywordKinds
    <3>2. LiteralValue(n) \in Objects
      BY <3>1 DEF Objects, Bools
    <3> QED
      BY <1>1, <1>2, <3>2
  <2>2. CASE syntax.nodes[Kid(n, 1)].kind = "NUMBER_TOKEN"
    <3>1. LiteralValue(n) = syntax.tokens[syntax.nodes[Kid(n, 1)].token].value
      BY <2>2 DEF LiteralValue
    <3>2. syntax.tokens[syntax.nodes[Kid(n, 1)].token].value \in
              IF syntax.diagnostics = <<>> THEN Int64s ELSE Int64s \cup { NullObject }
      BY <1>2, <2>2 DEF IsSyntaxTree, KindOf, Kid, KeywordKinds
    <3> QED
      BY <1>1, <1>2, <3>1, <3>2 DEF Objects
  <2>3. syntax.nodes[Kid(n, 1)].kind \in KeywordKinds \/ syntax.nodes[Kid(n, 1)].kind = "NUMBER_TOKEN"
    BY <1>2 DEF IsSyntaxTree, KindOf, Kid
  <2> QED
    BY <2>1, <2>2, <2>3
<1>3. CASE KindOf(n) = "NAME_EXPRESSION"
  BY <1>1, <1>3 DEF IsSyntaxTree, KindOf, Kid, TextOf
<1>4. CASE KindOf(n) = "ASSIGNMENT_EXPRESSION"
  BY <1>1, <1>4 DEF IsSyntaxTree, KindOf, Kid, TextOf, Bindable, Kind
<1>5. CASE KindOf(n) \in { "PARENTHESIZED_EXPRESSION", "UNARY_EXPRESSION" }
  BY <1>1, <1>5 DEF IsSyntaxTree, KindOf, Kid, Bindable, Kind
<1>6. CASE KindOf(n) = "BINARY_EXPRESSION"
  BY <1>1, <1>6 DEF IsSyntaxTree, KindOf, Kid, Bindable, Kind
<1> QED
  BY <1>1, <1>2, <1>3, <1>4, <1>5, <1>6

--------------------------------------------------------------------------------
(* The steps of the binder.                                                     *)

\* The constructors of BoundTree make cells.
LEMMA NewCells ==
  /\ \A value \in Objects \cup { NullObject } : Literal(value) \in Cell /\ Literal(value).cell = "LITERAL"
  /\ \A name \in Name, type \in ObjectTypes :
        Symbol(name, type) \in Cell /\ Symbol(name, type).cell = "SYMBOL"
  /\ \A op \in UnaryOperators, kid \in Pointer : Unary(op, kid) \in Cell /\ Unary(op, kid).cell = "UNARY"
  /\ \A op \in BinaryOperators, left, right \in Pointer :
        Binary(op, left, right) \in Cell /\ Binary(op, left, right).cell = "BINARY"
  /\ \A kid \in Pointer, type \in ObjectTypes :
        Variable(kid, type) \in Cell /\ Variable(kid, type).cell = "VARIABLE"
  /\ \A left, right \in Pointer, type \in ObjectTypes :
        Assignment(left, right, type) \in Cell /\ Assignment(left, right, type).cell = "ASSIGNMENT"
<1>1. ASSUME NEW value \in Objects \cup { NullObject }
      PROVE  Literal(value) \in Cell /\ Literal(value).cell = "LITERAL"
  BY DEF Cell, Literal
<1>2. ASSUME NEW name \in Name, NEW type \in ObjectTypes
      PROVE  Symbol(name, type) \in Cell /\ Symbol(name, type).cell = "SYMBOL"
  <2>1. name \in Names
    BY DEF Names
  <2> QED
    BY <2>1 DEF Cell, Symbol
<1>3. ASSUME NEW op \in UnaryOperators, NEW kid \in Pointer
      PROVE  Unary(op, kid) \in Cell /\ Unary(op, kid).cell = "UNARY"
  <2>1. op.result_type \in ObjectTypes
    BY DEF UnaryOperators, UnaryOperator, ObjectTypes
  <2>2. op.kind \in UnaryKinds
    BY DEF UnaryKinds
  <2>3. << kid >> \in Seq(Pointer)
    OBVIOUS
  <2> QED
    BY <2>1, <2>2, <2>3 DEF Cell, Unary
<1>4. ASSUME NEW op \in BinaryOperators, NEW left \in Pointer, NEW right \in Pointer
      PROVE  Binary(op, left, right) \in Cell /\ Binary(op, left, right).cell = "BINARY"
  <2>1. op.result_type \in ObjectTypes
    BY DEF BinaryOperators, BinaryOperator, ObjectTypes
  <2>2. op.kind \in BinaryKinds
    BY DEF BinaryKinds
  <2>3. << left, right >> \in Seq(Pointer)
    OBVIOUS
  <2> QED
    BY <2>1, <2>2, <2>3 DEF Cell, Binary
<1>5. ASSUME NEW kid \in Pointer, NEW type \in ObjectTypes
      PROVE  Variable(kid, type) \in Cell /\ Variable(kid, type).cell = "VARIABLE"
  <2>1. << kid >> \in Seq(Pointer)
    OBVIOUS
  <2> QED
    BY <2>1 DEF Cell, Variable
<1>6. ASSUME NEW left \in Pointer, NEW right \in Pointer, NEW type \in ObjectTypes
      PROVE  Assignment(left, right, type) \in Cell /\ Assignment(left, right, type).cell = "ASSIGNMENT"
  <2>1. << left, right >> \in Seq(Pointer)
    OBVIOUS
  <2> QED
    BY <2>1 DEF Cell, Assignment
<1> QED
  BY <1>1, <1>2, <1>3, <1>4, <1>5, <1>6

\* A call that binds something knows what it is.
LEMMA BindingIs ==
  ASSUME BinderInv, NEW kind, Binding(kind)
  PROVE  /\ IsSyntaxTree(syntax) /\ binder.node \in 1..Len(syntax.nodes) /\ KindOf(binder.node) = kind
         /\ binder.fn = "bind" /\ BoundBy(syntax, heap, scope, binder, binder_stack)
         /\ heap \in Seq(Cell) /\ Len(heap) \in Nat /\ binder_stack \in Seq(BinderFrame)
         /\ reports \in Seq(BinderReports)
BY DEF BinderInv, Binding, BoundBy

\* A literal is one cell.
LEMMA BindLiteralInv == BinderInv /\ BindLiteral => BinderInv'
<1> SUFFICES ASSUME BinderInv, BindLiteral PROVE BinderInv'
  OBVIOUS
<1>1. /\ IsSyntaxTree(syntax) /\ binder.node \in 1..Len(syntax.nodes)
      /\ KindOf(binder.node) = "LITERAL_EXPRESSION" /\ binder.fn = "bind"
      /\ BoundBy(syntax, heap, scope, binder, binder_stack) /\ heap \in Seq(Cell)
  BY BindingIs DEF BindLiteral
<1>2. PICK size \in Nat : size = Len(heap) /\ binder' = Bound(size + 1)
  BY <1>1 DEF BindLiteral
<1>3. PICK value \in Objects \cup { NullObject } :
         /\ value = LiteralValue(binder.node) /\ (syntax.diagnostics = <<>> => value # NullObject)
         /\ heap' = Append(heap, Literal(value))
  <2>1. NullObject \notin Objects
    BY DEF Objects, Int64s, Bools, Int64, Bool, NullObject
  <2> QED
    BY <1>1, <2>1, ReadTree DEF BindLiteral
<1>4. /\ syntax' = syntax /\ declared' = declared /\ freed' = freed /\ scope' = scope
      /\ reports' = reports /\ binder_stack' = binder_stack
  BY DEF BindLiteral, TreeUnchanged
<1>5. PICK new : new = Append(heap, Literal(value))
  OBVIOUS
<1>6. Literal(value) \in Cell /\ Literal(value).cell = "LITERAL"
  BY NewCells
<1>7. new[size + 1] = Literal(value)
  BY <1>1, <1>2, <1>5, <1>6, PushOne
<1>8. TypedCell(new, size + 1)
  BY <1>7 DEF TypedCell
<1>9. /\ BoundBy(syntax, new, scope, binder, binder_stack) /\ Extends(heap, new) /\ Len(new) = size + 1
  BY <1>1, <1>2, <1>5, <1>6, <1>8, AddCell
<1>10. Builds(new, size + 1)
  BY <1>6, <1>7, <1>9 DEF Builds
<1>11. BoundBy(syntax, new, scope, binder', binder_stack)
  BY <1>2, <1>9, <1>10, ReturnCell
<1>12. Clean => \E first, edge : BoundInOrder(new, scope, binder', binder_stack, first, edge)
  <2> SUFFICES ASSUME Clean PROVE \E first, edge : BoundInOrder(new, scope, binder', binder_stack, first, edge)
    OBVIOUS
  <2>1. PICK first, edge : BoundInOrder(heap, scope, binder, binder_stack, first, edge)
    BY DEF BinderInv
  <2>2. /\ Ordered(heap, first) /\ Edges(first, binder_stack, edge) /\ Declares(heap, scope)
        /\ edge[Len(binder_stack) + 1] = size
    BY <1>1, <1>2, <2>1 DEF BoundInOrder
  <2>3. PICK after : after = Continued(first, size, size + 1)
    OBVIOUS
  <2>4. after[size + 1] = size + 1
    <3>1. size + 1 \in 1..size + 1
      OBVIOUS
    <3> QED
      BY <2>3, <3>1 DEF Continued
  <2>5. OrderedCell(new, after, size + 1)
    <3>1. new[size + 1].value = value /\ value # NullObject
      BY <1>3, <1>7 DEF Literal, Clean
    <3> QED
      BY <1>6, <1>7, <2>4, <3>1 DEF OrderedCell
  <2>6. Ordered(new, after) /\ Edges(after, binder_stack, edge) /\ Declares(new, scope)
    BY <1>1, <1>2, <1>5, <1>6, <1>8, <2>2, <2>3, <2>5, AddCellInOrder
  <2> QED
    BY <1>2, <1>9, <2>2, <2>4, <2>6 DEF BoundInOrder, Bound
<1>13. freed \subseteq 1..Len(new) /\ declared \subseteq 1..Len(new)
  BY <1>2, <1>9 DEF BinderInv
<1> QED
  BY <1>1, <1>3, <1>4, <1>5, <1>11, <1>12, <1>13 DEF BinderInv, Clean

\* The frames the binder pushes are frames.
LEMMA AwaitIs ==
  \A fn \in { "unary", "left", "assignment" }, n \in Nat :
      /\ Await(fn, n, <<>>) \in BinderFrame /\ Await(fn, n, <<>>).fn = fn
      /\ Await(fn, n, <<>>).syntax = n /\ Await(fn, n, <<>>).held = <<>>
<1>1. <<>> \in Seq(Pointer)
  OBVIOUS
<1> QED
  BY <1>1 DEF Await, BinderFrame

\* A call that suspends itself to bind a kid.
LEMMA SuspendInv ==
  ASSUME BinderInv, NEW n, n = binder.node, binder.fn = "bind", NEW kid, Bindable(kid),
         NEW fn \in { "unary", "left", "assignment" }, KindOf(n) = KindBoundBy(fn),
         binder_stack' = Append(binder_stack, Await(fn, n, <<>>)), binder' = Bind(kid),
         UNCHANGED << heap, freed, scope, reports >>, TreeUnchanged
  PROVE  BinderInv'
<1>1. /\ IsSyntaxTree(syntax) /\ n \in 1..Len(syntax.nodes)
      /\ BoundBy(syntax, heap, scope, binder, binder_stack) /\ binder_stack \in Seq(BinderFrame)
  BY DEF BinderInv, BoundBy
<1>2. PICK frame : frame = Await(fn, n, <<>>)
  OBVIOUS
<1>3. frame \in BinderFrame /\ frame.fn = fn /\ frame.syntax = n /\ frame.held = <<>>
  <2>1. n \in Nat
    BY <1>1
  <2> QED
    BY <1>2, <2>1, AwaitIs
<1>4. Waiting(syntax, heap, frame)
  BY <1>1, <1>3 DEF Waiting, KindOf, Kind
<1>5. BoundBy(syntax, heap, scope, binder, binder_stack')
  BY <1>1, <1>2, <1>3, <1>4, SuspendCall
<1>6. BoundBy(syntax, heap, scope, binder', binder_stack')
  BY <1>5, CallKid DEF Bindable
<1>7. Clean => \E first, edge : BoundInOrder(heap, scope, binder', binder_stack', first, edge)
  <2> SUFFICES ASSUME Clean PROVE \E first, edge : BoundInOrder(heap, scope, binder', binder_stack', first, edge)
    OBVIOUS
  <2>1. PICK first, edge : BoundInOrder(heap, scope, binder, binder_stack, first, edge)
    BY DEF BinderInv
  <2>2. Len(heap) \in Nat
    BY <1>1 DEF BoundBy
  <2>3. Edges(first, binder_stack, edge) /\ edge[Len(binder_stack) + 1] = Len(heap) /\ frame.fn # "right"
    BY <1>3, <2>1 DEF BoundInOrder
  <2>4. Moves(first, frame, edge[Len(binder_stack) + 1], Len(heap))
    BY <2>3 DEF Moves
  <2>5. PICK more : Edges(first, Append(binder_stack, frame), more)
                    /\ more[Len(Append(binder_stack, frame)) + 1] = Len(heap)
    BY <1>1, <1>3, <2>2, <2>3, <2>4, PushEdge
  <2> QED
    BY <1>2, <2>1, <2>5 DEF BoundInOrder, Bind
<1> QED
  BY <1>1, <1>6, <1>7 DEF BinderInv, Clean, TreeUnchanged

LEMMA BindUnaryInv == BinderInv /\ BindUnary => BinderInv'
<1> SUFFICES ASSUME BinderInv, BindUnary PROVE BinderInv'
  OBVIOUS
<1>1. Binding("UNARY_EXPRESSION")
  BY DEF BindUnary
<1>2. /\ IsSyntaxTree(syntax) /\ binder.node \in 1..Len(syntax.nodes)
      /\ KindOf(binder.node) = "UNARY_EXPRESSION" /\ binder.fn = "bind"
  BY <1>1, BindingIs
<1>3. Bindable(Kid(binder.node, 2))
  BY <1>2, ReadTree
<1> QED
  BY <1>2, <1>3, SuspendInv DEF BindUnary, KindBoundBy

LEMMA BindBinaryInv == BinderInv /\ BindBinary => BinderInv'
<1> SUFFICES ASSUME BinderInv, BindBinary PROVE BinderInv'
  OBVIOUS
<1>1. Binding("BINARY_EXPRESSION")
  BY DEF BindBinary
<1>2. /\ IsSyntaxTree(syntax) /\ binder.node \in 1..Len(syntax.nodes)
      /\ KindOf(binder.node) = "BINARY_EXPRESSION" /\ binder.fn = "bind"
  BY <1>1, BindingIs
<1>3. Bindable(Kid(binder.node, 1))
  BY <1>2, ReadTree
<1> QED
  BY <1>2, <1>3, SuspendInv DEF BindBinary, KindBoundBy

LEMMA BindAssignmentInv == BinderInv /\ BindAssignment => BinderInv'
<1> SUFFICES ASSUME BinderInv, BindAssignment PROVE BinderInv'
  OBVIOUS
<1>1. Binding("ASSIGNMENT_EXPRESSION")
  BY DEF BindAssignment
<1>2. /\ IsSyntaxTree(syntax) /\ binder.node \in 1..Len(syntax.nodes)
      /\ KindOf(binder.node) = "ASSIGNMENT_EXPRESSION" /\ binder.fn = "bind"
  BY <1>1, BindingIs
<1>3. Bindable(Kid(binder.node, 3))
  BY <1>2, ReadTree
<1> QED
  BY <1>2, <1>3, SuspendInv DEF BindAssignment, KindBoundBy

LEMMA BindParenthesizedInv == BinderInv /\ BindParenthesized => BinderInv'
<1> SUFFICES ASSUME BinderInv, BindParenthesized PROVE BinderInv'
  OBVIOUS
<1>1. Binding("PARENTHESIZED_EXPRESSION") /\ binder' = Bind(Kid(binder.node, 2))
  BY DEF BindParenthesized
<1>2. /\ IsSyntaxTree(syntax) /\ binder.node \in 1..Len(syntax.nodes)
      /\ KindOf(binder.node) = "PARENTHESIZED_EXPRESSION" /\ binder.fn = "bind"
      /\ BoundBy(syntax, heap, scope, binder, binder_stack)
  BY <1>1, BindingIs
<1>3. Bindable(Kid(binder.node, 2))
  BY <1>2, ReadTree
<1>4. BoundBy(syntax, heap, scope, binder', binder_stack)
  BY <1>1, <1>2, <1>3, CallKid DEF Bindable
<1>5. Clean => \E first, edge : BoundInOrder(heap, scope, binder', binder_stack, first, edge)
  BY <1>1, <1>2 DEF BinderInv, BoundInOrder, Bind
<1> QED
  BY <1>2, <1>4, <1>5 DEF BinderInv, Clean, TreeUnchanged, BindParenthesized

\* Two cells at once: a copy of the symbol and the variable on it.
LEMMA PushTwice ==
  ASSUME NEW S, NEW s \in Seq(S), NEW a \in S, NEW b \in S
  PROVE  s \o << a, b >> = Append(Append(s, a), b)
<1>1. PICK size \in Nat : size = Len(s)
  OBVIOUS
<1>2. PICK t \in Seq(S) : /\ t = s \o << a, b >> /\ Len(t) = size + 2 /\ \A i \in 1..size : t[i] = s[i]
                          /\ t[size + 1] = a /\ t[size + 2] = b
  <2>1. /\ s \o << a, b >> \in Seq(S) /\ Len(s \o << a, b >>) = size + 2
        /\ \A i \in 1..size : (s \o << a, b >>)[i] = s[i]
        /\ (s \o << a, b >>)[size + 1] = a /\ (s \o << a, b >>)[size + 2] = b
    BY <1>1, PushTwo
  <2> QED
    BY <2>1
<1>3. PICK u \in Seq(S) : /\ u = Append(s, a) /\ Len(u) = size + 1 /\ \A i \in 1..size : u[i] = s[i]
                          /\ u[size + 1] = a
  BY <1>1, PushOne
<1>4. PICK v \in Seq(S) : /\ v = Append(u, b) /\ Len(v) = size + 1 + 1
                          /\ \A i \in 1..size + 1 : v[i] = u[i] /\ v[size + 1 + 1] = b
  <2>1. /\ Append(u, b) \in Seq(S) /\ Len(Append(u, b)) = size + 1 + 1
        /\ \A i \in 1..size + 1 : Append(u, b)[i] = u[i]
        /\ Append(u, b)[size + 1 + 1] = b
    BY <1>3, PushOne
  <2> QED
    BY <2>1
<1>5. \A i \in 1..size + 2 : i = size + 2 \/ i = size + 1 \/ i \in 1..size
  OBVIOUS
<1>6. size + 1 + 1 = size + 2 /\ size + 1 \in 1..size + 1 /\ \A i \in 1..size : i \in 1..size + 1
  OBVIOUS
<1>7. \A i \in 1..size + 2 : t[i] = v[i]
  BY <1>2, <1>3, <1>4, <1>5, <1>6
<1>8. Len(t) = Len(v)
  BY <1>2, <1>4, <1>6
<1>9. t = v
  <2>1. \A i \in 1..Len(t) : t[i] = v[i]
    BY <1>2, <1>7
  <2> QED
    BY <1>8, <2>1, SeqEqual
<1> QED
  BY <1>2, <1>3, <1>4, <1>9

LEMMA ExtendsOn ==
  ASSUME NEW old \in Seq(Cell), NEW mid \in Seq(Cell), NEW new \in Seq(Cell),
         Extends(old, mid), Extends(mid, new)
  PROVE  Extends(old, new)
BY DEF Extends

\* A cell that builds something has a type of an Object.
LEMMA CellHasType ==
  ASSUME NEW cells \in Seq(Cell), NEW n, IsSymbol(cells, n) \/ Builds(cells, n)
  PROVE  cells[n].type \in ObjectTypes
<1>1. n \in 1..Len(cells) /\ cells[n] \in Cell
  BY DEF IsSymbol, Builds
<1> QED
  BY <1>1 DEF Cell, Literal, Symbol, Objects, NullObject, Int64s, Bools, Int64, Bool, ObjectTypes

\* A name in scope was assigned before, as what its symbol says.
LEMMA BindDeclaredNameInv == BinderInv /\ BindDeclaredName => BinderInv'
<1> SUFFICES ASSUME BinderInv, BindDeclaredName PROVE BinderInv'
  OBVIOUS
<1>1. /\ IsSyntaxTree(syntax) /\ binder.node \in 1..Len(syntax.nodes)
      /\ KindOf(binder.node) = "NAME_EXPRESSION" /\ binder.fn = "bind"
      /\ BoundBy(syntax, heap, scope, binder, binder_stack) /\ heap \in Seq(Cell) /\ Typed(heap)
  BY BindingIs DEF BindDeclaredName, BoundBy
<1>2. PICK size \in Nat : size = Len(heap) /\ binder' = Bound(size + 2)
  BY <1>1 DEF BindDeclaredName
<1>3. PICK name \in Name : name \in DOMAIN scope /\ IsSymbol(heap, scope[name]) /\ name = TextOf(Kid(binder.node, 1))
  BY <1>1 DEF BindDeclaredName, BoundBy
<1>4. PICK type \in ObjectTypes : type = heap[scope[name]].type
  BY <1>1, <1>3, CellHasType
<1>5. /\ syntax' = syntax /\ declared' = declared /\ freed' = freed /\ scope' = scope
      /\ reports' = reports /\ binder_stack' = binder_stack
      /\ heap' = heap \o << Symbol(name, type), Variable(size + 1, type) >>
  BY <1>2, <1>3, <1>4 DEF BindDeclaredName, TreeUnchanged
<1>6. PICK symbol \in Cell, variable \in Cell :
         /\ symbol = Symbol(name, type) /\ symbol.cell = "SYMBOL"
         /\ variable = Variable(size + 1, type) /\ variable.cell = "VARIABLE"
  <2>1. size + 1 \in Pointer
    BY DEF Pointer
  <2> QED
    BY <2>1, NewCells
<1>7. PICK mid : mid = Append(heap, symbol)
  OBVIOUS
<1>8. PICK new : new = Append(mid, variable)
  OBVIOUS
<1>9. heap' = new
  BY <1>1, <1>5, <1>6, <1>7, <1>8, PushTwice
<1>10. mid[size + 1] = symbol
  BY <1>1, <1>2, <1>7, PushOne
<1>11. TypedCell(mid, size + 1)
  BY <1>6, <1>10 DEF TypedCell
<1>12. /\ BoundBy(syntax, mid, scope, binder, binder_stack) /\ Extends(heap, mid) /\ Len(mid) = size + 1
       /\ mid \in Seq(Cell) /\ Typed(mid)
  BY <1>1, <1>2, <1>7, <1>11, AddCell
<1>13. /\ new \in Seq(Cell) /\ Len(new) = size + 1 + 1 /\ new[size + 1 + 1] = variable
       /\ \A i \in 1..size + 1 : new[i] = mid[i]
  BY <1>8, <1>12, PushOne
<1>14. size + 1 + 1 = size + 2 /\ size + 1 \in 1..size + 1 /\ size + 1 \in 1..size + 2
  OBVIOUS
<1>15. IsSymbol(new, size + 1)
  BY <1>6, <1>10, <1>13, <1>14 DEF IsSymbol
<1>16. TypedCell(new, size + 2)
  <2>1. size + 1 \in 1..size + 2 - 1
    OBVIOUS
  <2> QED
    BY <1>6, <1>13, <1>14, <1>15, <2>1 DEF TypedCell
<1>17. BoundBy(syntax, new, scope, binder, binder_stack) /\ Extends(mid, new)
  BY <1>8, <1>12, <1>14, <1>16, AddCell
<1>18. Builds(new, size + 2)
  BY <1>6, <1>13, <1>14 DEF Builds
<1>19. BoundBy(syntax, new, scope, binder', binder_stack)
  BY <1>2, <1>17, <1>18, ReturnCell
<1>20. Extends(heap, new)
  BY <1>1, <1>12, <1>13, <1>17, ExtendsOn
<1>21. Clean => \E first, edge : BoundInOrder(new, scope, binder', binder_stack, first, edge)
  <2> SUFFICES ASSUME Clean PROVE \E first, edge : BoundInOrder(new, scope, binder', binder_stack, first, edge)
    OBVIOUS
  <2>1. PICK first, edge : BoundInOrder(heap, scope, binder, binder_stack, first, edge)
    BY DEF BinderInv
  <2>2. /\ Ordered(heap, first) /\ Edges(first, binder_stack, edge) /\ Declares(heap, scope)
        /\ edge[Len(binder_stack) + 1] = size
    BY <1>1, <1>2, <2>1 DEF BoundInOrder
  <2>3. PICK after : after = Continued(first, size, size + 1)
    OBVIOUS
  <2>4. OrderedCell(mid, after, size + 1)
    BY <1>6, <1>10 DEF OrderedCell
  <2>5. Ordered(mid, after) /\ Edges(after, binder_stack, edge) /\ Declares(mid, scope)
    BY <1>1, <1>2, <1>6, <1>7, <1>11, <2>2, <2>3, <2>4, AddCellInOrder
  <2>6. PICK last : last = Continued(after, size + 1, size + 1)
    OBVIOUS
  <2>7. last[size + 2] = size + 1
    <3>1. size + 2 \in 1..size + 1 + 1 /\ size + 2 = size + 1 + 1
      OBVIOUS
    <3> QED
      BY <2>6, <3>1 DEF Continued
  <2>8. PICK a \in 1..size : /\ IsAssignment(new, a) /\ NameAt(new, a) = name
                             /\ new[a].type = type
    <3>1. PICK a \in 1..size : IsAssignment(heap, a) /\ NameAt(heap, a) = name
      BY <1>2, <1>3, <2>2 DEF Declares
    <3>2. heap[a].type = type /\ heap[a].cell = "ASSIGNMENT"
      BY <1>2, <1>4, <2>2, <3>1 DEF Declares, IsAssignment
    <3>3. new[a] = heap[a] /\ NameAt(new, a) = NameAt(heap, a)
      BY <1>1, <1>2, <1>13, <1>20, <3>2, NameKept
    <3> QED
      BY <3>1, <3>2, <3>3 DEF IsAssignment
  <2>9. NameAt(new, size + 2) = name
    <3>1. new[size + 2].kids[1] = size + 1
      BY <1>6, <1>13, <1>14 DEF Variable
    <3>2. new[size + 1].name = name
      BY <1>6, <1>10, <1>13, <1>14 DEF Symbol
    <3> QED
      BY <3>1, <3>2 DEF NameAt
  <2>10. OrderedCell(new, last, size + 2)
    <3>1. /\ new[size + 2].kids = << size + 2 - 1 >> /\ last[size + 2] = size + 2 - 1
          /\ new[size + 2].type = type /\ new[size + 2].cell = "VARIABLE"
      <4>1. size + 2 - 1 = size + 1
        OBVIOUS
      <4> QED
        BY <1>6, <1>13, <1>14, <2>7, <4>1 DEF Variable
    <3>2. a \in 1..size + 2 - 2
      OBVIOUS
    <3> QED
      BY <2>8, <2>9, <3>1, <3>2 DEF OrderedCell
  <2>11. Ordered(new, last) /\ Edges(last, binder_stack, edge) /\ Declares(new, scope)
    <3>1. OrderedCell(new, last, size + 1 + 1) /\ TypedCell(new, size + 1 + 1)
      BY <1>14, <1>16, <2>10
    <3>2. variable.cell # "ASSIGNMENT" /\ size + 1 \in Nat
      BY <1>6
    <3> QED
      BY <1>8, <1>12, <2>5, <2>6, <3>1, <3>2, AddCellInOrder
  <2> QED
    BY <1>2, <1>13, <1>14, <2>2, <2>7, <2>11 DEF BoundInOrder, Bound
<1>22. freed \subseteq 1..Len(new) /\ declared \subseteq 1..Len(new)
  BY <1>2, <1>13 DEF BinderInv
<1> QED
  BY <1>1, <1>5, <1>9, <1>19, <1>21, <1>22 DEF BinderInv, Clean

\* Once something was reported nothing is said about the order.
LEMMA ReportedIsNotClean ==
  ASSUME NEW report \in BinderReports, reports \in Seq(BinderReports), reports' = Append(reports, report)
  PROVE  reports' \in Seq(BinderReports) /\ ~Clean'
<1>1. reports' \in Seq(BinderReports) /\ Len(reports') = Len(reports) + 1 /\ Len(reports) \in Nat
  BY PushOne
<1>2. reports' # <<>>
  BY <1>1
<1> QED
  BY <1>1, <1>2 DEF Clean

\* A name that is not in scope is reported.
LEMMA BindUndefinedNameInv == BinderInv /\ BindUndefinedName => BinderInv'
<1> SUFFICES ASSUME BinderInv, BindUndefinedName PROVE BinderInv'
  OBVIOUS
<1>1. /\ IsSyntaxTree(syntax) /\ BoundBy(syntax, heap, scope, binder, binder_stack) /\ heap \in Seq(Cell)
  BY DEF BinderInv, BoundBy
<1>2. PICK size \in Nat : size = Len(heap) /\ binder' = Bound(size + 1)
  BY <1>1 DEF BindUndefinedName
<1>3. PICK value \in Objects \cup { NullObject } : value = Int64(0)
  <2>1. 0 \in Ints
    BY RangeOfIntegers DEF Ints
  <2> QED
    BY <2>1 DEF Objects, Int64s
<1>4. /\ syntax' = syntax /\ declared' = declared /\ freed' = freed /\ scope' = scope
      /\ binder_stack' = binder_stack /\ reports' = Append(reports, "undefined_name")
      /\ heap' = Append(heap, Literal(value))
  BY <1>3 DEF BindUndefinedName, TreeUnchanged
<1>5. PICK new : new = Append(heap, Literal(value))
  OBVIOUS
<1>6. Literal(value) \in Cell /\ Literal(value).cell = "LITERAL"
  BY NewCells
<1>7. new[size + 1] = Literal(value)
  BY <1>1, <1>2, <1>5, <1>6, PushOne
<1>8. TypedCell(new, size + 1)
  BY <1>7 DEF TypedCell
<1>9. /\ BoundBy(syntax, new, scope, binder, binder_stack) /\ Extends(heap, new) /\ Len(new) = size + 1
  BY <1>1, <1>2, <1>5, <1>6, <1>8, AddCell
<1>10. Builds(new, size + 1)
  BY <1>6, <1>7, <1>9 DEF Builds
<1>11. BoundBy(syntax, new, scope, binder', binder_stack)
  BY <1>2, <1>9, <1>10, ReturnCell
<1>12. reports' \in Seq(BinderReports) /\ ~Clean'
  BY <1>4, ReportedIsNotClean DEF BinderReports, BinderInv
<1>13. freed \subseteq 1..Len(new) /\ declared \subseteq 1..Len(new)
  BY <1>2, <1>9 DEF BinderInv
<1> QED
  BY <1>1, <1>4, <1>5, <1>11, <1>12, <1>13 DEF BinderInv

\* A call that returns to one that waits.
LEMMA ReturningIs ==
  ASSUME BinderInv, NEW fn, BinderReturning(fn)
  PROVE  /\ IsSyntaxTree(syntax) /\ heap \in Seq(Cell) /\ Len(heap) \in Nat /\ Typed(heap)
         /\ binder.fn = "return" /\ Builds(heap, binder.node) /\ reports \in Seq(BinderReports)
         /\ BoundBy(syntax, heap, scope, binder, BinderPop) /\ BinderPop \in Seq(BinderFrame)
         /\ BinderTop \in BinderFrame /\ BinderTop.fn = fn /\ Waiting(syntax, heap, BinderTop)
<1>1. BoundBy(syntax, heap, scope, binder, binder_stack) /\ IsSyntaxTree(syntax) /\ reports \in Seq(BinderReports)
  BY DEF BinderInv
<1>2. binder.fn = "return" /\ binder_stack # <<>> /\ BinderTop.fn = fn
  BY DEF BinderReturning
<1>3. /\ BoundBy(syntax, heap, scope, binder, BinderPop)
      /\ BinderTop \in BinderFrame /\ Waiting(syntax, heap, BinderTop)
  BY <1>1, <1>2, PopCall DEF BinderTop, BinderPop
<1> QED
  BY <1>1, <1>2, <1>3 DEF BoundBy

\* And, when nothing was reported, of where the cells of the kid begin.
LEMMA ReturningInOrder ==
  ASSUME BinderInv, NEW fn, BinderReturning(fn), Clean
  PROVE  \E first, edge, from, to :
            /\ Ordered(heap, first) /\ Edges(first, BinderPop, edge) /\ Declares(heap, scope)
            /\ from \in Nat /\ from = edge[Len(BinderPop) + 1] /\ Moves(first, BinderTop, from, to)
            /\ binder.node = Len(heap) /\ first[binder.node] = to + 1
<1>1. PICK first, edge : BoundInOrder(heap, scope, binder, binder_stack, first, edge)
  BY DEF BinderInv
<1>2. binder.fn = "return" /\ binder_stack # <<>> /\ binder_stack \in Seq(BinderFrame)
  BY DEF BinderReturning, BinderInv, BoundBy
<1>3. /\ Ordered(heap, first) /\ Edges(first, binder_stack, edge) /\ Declares(heap, scope)
      /\ binder.node = Len(heap) /\ first[binder.node] = edge[Len(binder_stack) + 1] + 1
  BY <1>1, <1>2 DEF BoundInOrder
<1>4. PICK after, from :
         /\ Edges(first, BinderPop, after) /\ from \in Nat /\ from = after[Len(BinderPop) + 1]
         /\ Moves(first, BinderTop, from, edge[Len(binder_stack) + 1])
  BY <1>2, <1>3, PopEdge DEF BinderPop, BinderTop
<1> QED
  BY <1>3, <1>4

\* An operator is found, or reported and left out.
LEMMA FinishUnaryInv == BinderInv /\ FinishUnary => BinderInv'
<1> SUFFICES ASSUME BinderInv, FinishUnary PROVE BinderInv'
  OBVIOUS
<1>1. /\ IsSyntaxTree(syntax) /\ heap \in Seq(Cell) /\ Len(heap) \in Nat /\ Typed(heap)
      /\ binder.fn = "return" /\ Builds(heap, binder.node) /\ reports \in Seq(BinderReports)
      /\ BoundBy(syntax, heap, scope, binder, BinderPop) /\ BinderPop \in Seq(BinderFrame)
      /\ BinderTop.fn = "unary"
  BY ReturningIs DEF FinishUnary
<1>2. /\ syntax' = syntax /\ declared' = declared /\ freed' = freed /\ scope' = scope
      /\ binder_stack' = BinderPop
  BY DEF FinishUnary, TreeUnchanged
<1> DEFINE matches == UnaryMatches(KindOf(Kid(BinderTop.syntax, 1)), heap[binder.node].type)
<1>3. CASE matches = {}
  <2>1. heap' = heap /\ binder' = binder /\ reports' = Append(reports, "undefined_unary_operator")
    BY <1>3 DEF FinishUnary
  <2>2. reports' \in Seq(BinderReports) /\ ~Clean'
    BY <1>1, <2>1, ReportedIsNotClean DEF BinderReports
  <2> QED
    BY <1>1, <1>2, <2>1, <2>2 DEF BinderInv
<1>4. CASE matches # {}
  <2>1. PICK op \in matches : heap' = Append(heap, Unary(op, binder.node))
    BY <1>4 DEF FinishUnary
  <2>2. op \in UnaryOperators /\ heap[binder.node].type = op.operand_type
    BY <2>1 DEF UnaryMatches
  <2>3. reports' = reports
    BY <1>4 DEF FinishUnary
  <2>4. PICK size \in Nat : size = Len(heap) /\ binder' = Bound(size + 1)
    BY <1>1, <1>4 DEF FinishUnary
  <2> HIDE DEF matches
  <2>5. PICK kid \in 1..size : kid = binder.node /\ Builds(heap, kid) /\ heap[kid].type = op.operand_type
    BY <1>1, <2>2, <2>4 DEF Builds
  <2>6. PICK cell \in Cell : cell = Unary(op, kid) /\ cell.cell = "UNARY"
    <3>1. kid \in Pointer
      BY DEF Pointer
    <3> QED
      BY <2>2, <3>1, NewCells
  <2>7. PICK new : new = Append(heap, cell)
    OBVIOUS
  <2>8. /\ new \in Seq(Cell) /\ Len(new) = size + 1 /\ new[size + 1] = cell
        /\ \A i \in 1..size : new[i] = heap[i]
    BY <1>1, <2>4, <2>7, PushOne
  <2>9. TypedCell(new, size + 1)
    <3>1. kid \in 1..size + 1 - 1 /\ kid \in 1..size + 1
      OBVIOUS
    <3>2. Builds(new, kid) /\ new[kid].type = op.operand_type
      BY <2>4, <2>5, <2>8, <3>1 DEF Builds
    <3> QED
      BY <2>2, <2>6, <2>8, <3>1, <3>2 DEF TypedCell
  <2>10. BoundBy(syntax, new, scope, binder, BinderPop)
    BY <1>1, <2>4, <2>7, <2>9, AddCell
  <2>11. Builds(new, size + 1)
    BY <2>6, <2>8 DEF Builds
  <2>12. BoundBy(syntax, new, scope, binder', BinderPop)
    BY <2>4, <2>10, <2>11, ReturnCell
  <2>13. Clean => \E first, edge : BoundInOrder(new, scope, binder', BinderPop, first, edge)
    <3> SUFFICES ASSUME Clean PROVE \E first, edge : BoundInOrder(new, scope, binder', BinderPop, first, edge)
      OBVIOUS
    <3>1. PICK first, edge, from :
             /\ from \in Nat /\ Ordered(heap, first) /\ Edges(first, BinderPop, edge) /\ Declares(heap, scope)
             /\ from = edge[Len(BinderPop) + 1] /\ kid = size /\ first[kid] = from + 1
      <4>1. BinderReturning("unary") /\ BinderTop.fn # "right"
        BY <1>1 DEF FinishUnary
      <4>2. PICK first, edge, from, to :
               /\ Ordered(heap, first) /\ Edges(first, BinderPop, edge) /\ Declares(heap, scope)
               /\ from \in Nat /\ from = edge[Len(BinderPop) + 1] /\ Moves(first, BinderTop, from, to)
               /\ binder.node = Len(heap) /\ first[binder.node] = to + 1
        BY <4>1, ReturningInOrder
      <4> QED
        BY <2>4, <2>5, <4>1, <4>2 DEF Moves
    <3>2. PICK after : after = Continued(first, size, from + 1)
      OBVIOUS
    <3>3. after[size + 1] = from + 1 /\ after[size] = from + 1
      <4>1. size + 1 \in 1..size + 1 /\ size \in 1..size + 1 /\ size # size + 1
        BY <3>1
      <4> QED
        BY <3>1, <3>2, <4>1 DEF Continued
    <3>4. OrderedCell(new, after, size + 1)
      <4>1. new[size + 1].kids = << size + 1 - 1 >>
        <5>1. size + 1 - 1 = kid
          BY <3>1
        <5> QED
          BY <2>6, <2>8, <5>1 DEF Unary
      <4>2. after[size + 1] = after[size + 1 - 1]
        BY <3>3
      <4> QED
        BY <2>6, <2>8, <4>1, <4>2 DEF OrderedCell
    <3>5. Ordered(new, after) /\ Edges(after, BinderPop, edge) /\ Declares(new, scope)
      BY <1>1, <2>4, <2>6, <2>7, <2>9, <3>1, <3>2, <3>4, AddCellInOrder
    <3> QED
      BY <2>4, <2>8, <3>1, <3>3, <3>5 DEF BoundInOrder, Bound
  <2>14. freed \subseteq 1..Len(new) /\ declared \subseteq 1..Len(new)
    BY <2>4, <2>8 DEF BinderInv
  <2> QED
    BY <1>1, <1>2, <2>1, <2>3, <2>5, <2>6, <2>7, <2>12, <2>13, <2>14 DEF BinderInv, Clean
<1> QED
  BY <1>3, <1>4

\* The left operand is held until the right one is bound.
LEMMA FinishLeftInv == BinderInv /\ FinishLeft => BinderInv'
<1> SUFFICES ASSUME BinderInv, FinishLeft PROVE BinderInv'
  OBVIOUS
<1>1. /\ IsSyntaxTree(syntax) /\ heap \in Seq(Cell) /\ Len(heap) \in Nat /\ Typed(heap)
      /\ binder.fn = "return" /\ Builds(heap, binder.node) /\ reports \in Seq(BinderReports)
      /\ BoundBy(syntax, heap, scope, binder, BinderPop) /\ BinderPop \in Seq(BinderFrame)
      /\ BinderTop.fn = "left" /\ Waiting(syntax, heap, BinderTop)
  BY ReturningIs DEF FinishLeft
<1>2. PICK n \in Nat, left \in Pointer : n = BinderTop.syntax /\ left = binder.node
  BY <1>1 DEF Builds, Pointer, Waiting
<1>3. PICK frame : frame = Await("right", n, << left >>)
  OBVIOUS
<1>4. /\ syntax' = syntax /\ declared' = declared /\ freed' = freed /\ scope' = scope
      /\ heap' = heap /\ reports' = reports /\ binder_stack' = Append(BinderPop, frame)
      /\ binder' = Bind(Kid(n, 3))
  BY <1>2, <1>3 DEF FinishLeft, TreeUnchanged
<1>5. n \in 1..Len(syntax.nodes) /\ Kind(syntax, n) = "BINARY_EXPRESSION"
  BY <1>1, <1>2 DEF Waiting, KindBoundBy
<1>6. Bindable(Kid(n, 3))
  BY <1>1, <1>5, ReadTree
<1>7. frame \in BinderFrame /\ frame.fn = "right" /\ frame.syntax = n /\ frame.held = << left >>
  <2>1. << left >> \in Seq(Pointer) /\ n \in Nat
    BY <1>5
  <2> QED
    BY <1>3, <2>1 DEF Await, BinderFrame
<1>8. Waiting(syntax, heap, frame)
  <2>1. Len(frame.held) = 1 /\ frame.held[1] = left
    BY <1>7
  <2> QED
    BY <1>1, <1>2, <1>5, <1>7, <2>1 DEF Waiting, KindBoundBy
<1>9. BoundBy(syntax, heap, scope, binder, Append(BinderPop, frame))
  BY <1>1, <1>7, <1>8, SuspendCall
<1>10. BoundBy(syntax, heap, scope, binder', binder_stack')
  BY <1>4, <1>6, <1>9, CallKid DEF Bindable
<1>11. Clean => \E first, edge : BoundInOrder(heap, scope, binder', binder_stack', first, edge)
  <2> SUFFICES ASSUME Clean PROVE \E first, edge : BoundInOrder(heap, scope, binder', binder_stack', first, edge)
    OBVIOUS
  <2>1. BinderReturning("left") /\ BinderTop.fn # "right"
    BY <1>1 DEF FinishLeft
  <2>2. PICK first, edge, from, to :
           /\ Ordered(heap, first) /\ Edges(first, BinderPop, edge) /\ Declares(heap, scope)
           /\ from \in Nat /\ from = edge[Len(BinderPop) + 1] /\ Moves(first, BinderTop, from, to)
           /\ binder.node = Len(heap) /\ first[binder.node] = to + 1
    BY <2>1, ReturningInOrder
  <2>3. Moves(first, frame, edge[Len(BinderPop) + 1], Len(heap))
    BY <1>2, <1>7, <2>1, <2>2 DEF Moves
  <2>4. PICK more : /\ Edges(first, Append(BinderPop, frame), more)
                    /\ more[Len(Append(BinderPop, frame)) + 1] = Len(heap)
    <3>1. PICK calls \in Seq(BinderFrame) : calls = BinderPop
      BY <1>1
    <3>2. PICK size \in Nat : size = Len(heap)
      BY <1>1
    <3>3. Edges(first, calls, edge) /\ Moves(first, frame, edge[Len(calls) + 1], size)
      BY <2>2, <2>3, <3>1, <3>2
    <3>4. frame \in BinderFrame
      BY <1>7
    <3>5. \E more : Edges(first, Append(calls, frame), more) /\ more[Len(Append(calls, frame)) + 1] = size
      BY <3>3, <3>4, PushEdge
    <3> QED
      BY <3>1, <3>2, <3>5
  <2> QED
    BY <1>4, <2>2, <2>4 DEF BoundInOrder, Bind
<1> QED
  BY <1>1, <1>4, <1>10, <1>11 DEF BinderInv, Clean

\* An operator is found, or reported and its right operand freed.
LEMMA FinishBinaryInv == BinderInv /\ FinishBinary => BinderInv'
<1> SUFFICES ASSUME BinderInv, FinishBinary PROVE BinderInv'
  OBVIOUS
<1>1. /\ IsSyntaxTree(syntax) /\ heap \in Seq(Cell) /\ Len(heap) \in Nat /\ Typed(heap)
      /\ binder.fn = "return" /\ Builds(heap, binder.node) /\ reports \in Seq(BinderReports)
      /\ BoundBy(syntax, heap, scope, binder, BinderPop) /\ BinderPop \in Seq(BinderFrame)
      /\ BinderTop.fn = "right" /\ Waiting(syntax, heap, BinderTop)
  BY ReturningIs DEF FinishBinary
<1>2. PICK size \in Nat : size = Len(heap)
  BY <1>1
<1>3. PICK left \in 1..size, right \in 1..size :
         left = BinderTop.held[1] /\ right = binder.node /\ Builds(heap, left) /\ Builds(heap, right)
  BY <1>1, <1>2 DEF Waiting, Builds
<1>4. /\ syntax' = syntax /\ declared' = declared /\ scope' = scope /\ binder_stack' = BinderPop
  BY DEF FinishBinary, TreeUnchanged
<1> DEFINE matches == BinaryMatches(KindOf(Kid(BinderTop.syntax, 2)), heap[left].type, heap[right].type)
<1>5. CASE matches = {}
  <2>1. RejectOperands(left, right)
    BY <1>3, <1>5 DEF FinishBinary
  <2>2. /\ heap' = heap /\ binder' = Bound(left) /\ reports' = Append(reports, "undefined_binary_operator")
        /\ freed' = freed \cup Below[right]
    BY <2>1 DEF RejectOperands
  <2>3. reports' \in Seq(BinderReports) /\ ~Clean'
    BY <1>1, <2>2, ReportedIsNotClean DEF BinderReports
  <2>4. BoundBy(syntax, heap, scope, Bound(left), BinderPop)
    BY <1>1, <1>3, ReturnCell
  <2>5. Below[right] \subseteq 1..Len(heap)
    BY <1>1, <1>2, <1>3, TypedIsOlder, BelowIsWithin
  <2>6. freed' \subseteq 1..Len(heap) /\ declared \subseteq 1..Len(heap)
    BY <2>2, <2>5 DEF BinderInv
  <2> QED
    BY <1>1, <1>4, <2>2, <2>3, <2>4, <2>6 DEF BinderInv
<1>6. CASE matches # {}
  <2>1. PICK op \in matches : heap' = Append(heap, Binary(op, left, right))
    BY <1>3, <1>6 DEF FinishBinary
  <2>2. op \in BinaryOperators /\ heap[left].type = op.operand_type /\ heap[right].type = op.operand_type
    BY <2>1 DEF BinaryMatches
  <2>3. reports' = reports /\ freed' = freed /\ binder' = Bound(size + 1)
    BY <1>2, <1>3, <1>6 DEF FinishBinary
  <2> HIDE DEF matches
  <2>4. PICK cell \in Cell : cell = Binary(op, left, right) /\ cell.cell = "BINARY"
    <3>1. left \in Pointer /\ right \in Pointer
      BY DEF Pointer
    <3> QED
      BY <2>2, <3>1, NewCells
  <2>5. PICK new : new = Append(heap, cell)
    OBVIOUS
  <2>6. /\ new \in Seq(Cell) /\ Len(new) = size + 1 /\ new[size + 1] = cell
        /\ \A i \in 1..size : new[i] = heap[i]
    BY <1>1, <1>2, <2>5, PushOne
  <2>7. TypedCell(new, size + 1)
    <3>1. left \in 1..size + 1 - 1 /\ left \in 1..size + 1 /\ right \in 1..size + 1 - 1 /\ right \in 1..size + 1
      OBVIOUS
    <3>2. Builds(new, left) /\ new[left].type = op.operand_type
      BY <1>3, <2>2, <2>6, <3>1 DEF Builds
    <3>3. Builds(new, right) /\ new[right].type = op.operand_type
      BY <1>3, <2>2, <2>6, <3>1 DEF Builds
    <3> QED
      BY <2>2, <2>4, <2>6, <3>1, <3>2, <3>3 DEF TypedCell
  <2>8. BoundBy(syntax, new, scope, binder, BinderPop)
    BY <1>1, <1>2, <2>5, <2>7, AddCell
  <2>9. Builds(new, size + 1)
    BY <2>4, <2>6 DEF Builds
  <2>10. BoundBy(syntax, new, scope, binder', BinderPop)
    BY <2>3, <2>8, <2>9, ReturnCell
  <2>11. Clean => \E first, edge : BoundInOrder(new, scope, binder', BinderPop, first, edge)
    <3> SUFFICES ASSUME Clean PROVE \E first, edge : BoundInOrder(new, scope, binder', BinderPop, first, edge)
      OBVIOUS
    <3>1. PICK first, edge, from :
             /\ from \in Nat /\ Ordered(heap, first) /\ Edges(first, BinderPop, edge) /\ Declares(heap, scope)
             /\ from = edge[Len(BinderPop) + 1] /\ right = size
             /\ first[left] = from + 1 /\ first[right] = left + 1
      <4>1. BinderReturning("right")
        BY <1>1 DEF FinishBinary
      <4>2. PICK first, edge, from, to :
               /\ Ordered(heap, first) /\ Edges(first, BinderPop, edge) /\ Declares(heap, scope)
               /\ from \in Nat /\ from = edge[Len(BinderPop) + 1] /\ Moves(first, BinderTop, from, to)
               /\ binder.node = Len(heap) /\ first[binder.node] = to + 1
        BY <4>1, ReturningInOrder
      <4>3. to = left /\ first[left] = from + 1
        BY <1>1, <1>3, <4>2 DEF Moves
      <4> QED
        BY <1>2, <1>3, <4>2, <4>3
    <3>2. PICK after : after = Continued(first, size, from + 1)
      OBVIOUS
    <3>3. after[size + 1] = from + 1 /\ after[size] = left + 1 /\ after[left] = from + 1
      <4>1. size + 1 \in 1..size + 1 /\ size \in 1..size + 1 /\ size # size + 1 /\ left \in 1..size + 1 /\ left # size + 1
        BY <3>1
      <4> QED
        BY <3>1, <3>2, <4>1 DEF Continued
    <3>4. OrderedCell(new, after, size + 1)
      <4>1. new[size + 1].kids[2] = size + 1 - 1 /\ new[size + 1].kids[1] = left
        <5>1. size + 1 - 1 = right
          BY <3>1
        <5> QED
          BY <2>4, <2>6, <5>1 DEF Binary
      <4>2. after[size + 1 - 1] = left + 1 /\ after[size + 1] = after[left]
        BY <3>3
      <4> QED
        BY <2>4, <2>6, <4>1, <4>2 DEF OrderedCell
    <3>5. Ordered(new, after) /\ Edges(after, BinderPop, edge) /\ Declares(new, scope)
      <4>1. /\ Ordered(heap, first) /\ Edges(first, BinderPop, edge) /\ Declares(heap, scope)
            /\ from + 1 \in Nat
        BY <3>1
      <4>2. /\ TypedCell(Append(heap, cell), Len(heap) + 1) /\ cell.cell # "ASSIGNMENT"
            /\ after = Continued(first, Len(heap), from + 1)
            /\ OrderedCell(Append(heap, cell), after, Len(heap) + 1)
        BY <1>2, <2>4, <2>5, <2>7, <3>2, <3>4
      <4>3. BoundBy(syntax, heap, scope, binder, BinderPop)
        BY <1>1
      <4> QED
        BY <2>5, <4>1, <4>2, <4>3, AddCellInOrder
    <3> QED
      BY <2>3, <2>6, <3>1, <3>3, <3>5 DEF BoundInOrder, Bound
  <2>12. freed \subseteq 1..Len(new) /\ declared \subseteq 1..Len(new)
    BY <1>2, <2>6 DEF BinderInv
  <2> QED
    BY <1>1, <1>4, <2>1, <2>3, <2>4, <2>5, <2>10, <2>11, <2>12 DEF BinderInv, Clean
<1> QED
  BY <1>5, <1>6

\* The scope frees its symbols.
LEMMA FinishGlobalScopeInv == BinderInv /\ FinishGlobalScope => BinderInv'
<1> SUFFICES ASSUME BinderInv, FinishGlobalScope PROVE BinderInv'
  OBVIOUS
<1>1. /\ IsSyntaxTree(syntax) /\ BoundBy(syntax, heap, scope, binder, binder_stack)
      /\ freed \subseteq 1..Len(heap) /\ reports \in Seq(BinderReports)
  BY DEF BinderInv
<1>2. /\ binder.fn = "return" /\ binder_stack = <<>> /\ declared' = { scope[name] : name \in DOMAIN scope }
      /\ freed' = freed \cup { scope[name] : name \in DOMAIN scope } /\ scope' = [ name \in {} |-> 0 ]
      /\ binder' = [ fn |-> "done", node |-> binder.node ]
      /\ heap' = heap /\ syntax' = syntax /\ reports' = reports /\ binder_stack' = binder_stack
  BY DEF FinishGlobalScope
<1>3. \A name \in DOMAIN scope : scope[name] \in 1..Len(heap)
  BY <1>1 DEF BoundBy, IsSymbol
<1>4. declared' \subseteq 1..Len(heap) /\ freed' \subseteq 1..Len(heap)
  BY <1>1, <1>2, <1>3
<1>5. BoundBy(syntax, heap, scope', binder', binder_stack)
  <2>1. Builds(heap, binder.node) /\ binder.node \in Nat
    BY <1>1, <1>2 DEF BoundBy, Builds
  <2>2. binder' \in BinderCall
    BY <1>2, <2>1 DEF BinderCall
  <2> QED
    BY <1>1, <1>2, <2>1, <2>2 DEF BoundBy
<1>6. Clean => \E first, edge : BoundInOrder(heap, scope', binder', binder_stack, first, edge)
  BY <1>2 DEF BinderInv, BoundInOrder
<1> QED
  BY <1>1, <1>2, <1>4, <1>5, <1>6 DEF BinderInv, Clean

\* A new submission starts with an empty heap and an empty scope.
LEMMA BindGlobalScopeInv == \A tree : IsSyntaxTree(tree) /\ BindGlobalScope(tree) => BinderInv'
<1> SUFFICES ASSUME NEW tree, IsSyntaxTree(tree), BindGlobalScope(tree) PROVE BinderInv'
  OBVIOUS
<1>1. PICK n : n = tree.nodes[tree.root].kids[1]
  OBVIOUS
<1>2. n \in 1..Len(tree.nodes) /\ Kind(tree, n) \in ExpressionKinds
  BY <1>1 DEF IsSyntaxTree, Kind
<1>3. /\ syntax' = tree /\ heap' = <<>> /\ freed' = {} /\ scope' = [ name \in {} |-> 0 ] /\ declared' = {}
      /\ reports' = <<>> /\ binder' = Bind(n) /\ binder_stack' = <<>>
  BY <1>1 DEF BindGlobalScope
<1>4. <<>> \in Seq(Cell) /\ <<>> \in Seq(BinderFrame) /\ <<>> \in Seq(BinderReports) /\ Len(<<>>) = 0
  OBVIOUS
<1>5. BoundBy(tree, <<>>, scope', binder', <<>>)
  <2>1. binder' \in BinderCall /\ binder'.fn = "bind" /\ binder'.node = n
    BY <1>2, <1>3 DEF Bind, BinderCall
  <2>2. Typed(<<>>)
    BY <1>4 DEF Typed
  <2> QED
    BY <1>2, <1>3, <1>4, <2>1, <2>2 DEF BoundBy
<1>6. \E first, edge : BoundInOrder(<<>>, scope', binder', <<>>, first, edge)
  <2>1. PICK first : first = [ i \in 1..0 |-> 0 ]
    OBVIOUS
  <2>2. PICK edge : edge = [ i \in 1..0 + 1 |-> 0 ]
    OBVIOUS
  <2>3. Ordered(<<>>, first)
    BY <1>4, <2>1 DEF Ordered
  <2>4. Edges(first, <<>>, edge) /\ edge[Len(<<>>) + 1] = 0
    BY <1>4, <2>2 DEF Edges
  <2>5. Declares(<<>>, scope')
    BY <1>3, <1>4 DEF Declares
  <2> QED
    BY <1>3, <1>4, <2>3, <2>4, <2>5 DEF BoundInOrder, Bind
<1> QED
  BY <1>3, <1>4, <1>5, <1>6 DEF BinderInv

\* Three cells at once: two symbols and the assignment.
LEMMA PushThrice ==
  ASSUME NEW S, NEW s \in Seq(S), NEW a \in S, NEW b \in S, NEW c \in S
  PROVE  s \o << a, b, c >> = Append(Append(Append(s, a), b), c)
<1>1. PICK u \in Seq(S) : u = Append(s, a)
  BY PushOne
<1>2. u \o << b, c >> = Append(Append(u, b), c)
  BY PushTwice
<1>3. << a, b, c >> = << a >> \o << b, c >>
  OBVIOUS
<1>4. << a >> \in Seq(S) /\ << b, c >> \in Seq(S)
  OBVIOUS
<1>5. s \o (<< a >> \o << b, c >>) = (s \o << a >>) \o << b, c >>
  BY <1>4, ConcatAssociative
<1>6. s \o << a >> = Append(s, a)
  OBVIOUS
<1> QED
  BY <1>1, <1>2, <1>3, <1>5, <1>6

WithName(names, name, symbol) ==
    [ n \in DOMAIN names \cup { name } |-> IF n = name THEN symbol ELSE names[n] ]

\* A symbol for the scope to keep.
LEMMA DeclareName ==
  ASSUME NEW tree, NEW cells, NEW names, NEW call, NEW calls, BoundBy(tree, cells, names, call, calls),
         call.fn # "done", NEW name \in Name, NEW symbol, IsSymbol(cells, symbol)
  PROVE  BoundBy(tree, cells, WithName(names, name, symbol), call, calls)
BY DEF BoundBy, WithName

\* An assignment of a name that none of the others has.
LEMMA DeclaresMore ==
  ASSUME NEW old \in Seq(Cell), Typed(old), NEW new \in Seq(Cell), Extends(old, new),
         Len(new) = Len(old) + 1, IsAssignment(new, Len(new)),
         NEW names, Declares(old, names), \A other \in DOMAIN names : IsSymbol(old, names[other]),
         NEW name, NameAt(new, Len(new)) = name, name \notin DOMAIN names,
         NEW symbol, symbol \in 1..Len(old), new[symbol].type = new[Len(new)].type
  PROVE  Declares(new, WithName(names, name, symbol))
<1>1. PICK size \in Nat : Len(old) = size /\ Len(new) = size + 1
  OBVIOUS
<1>2. PICK more : more = WithName(names, name, symbol)
  OBVIOUS
<1>3. /\ DOMAIN more = DOMAIN names \cup { name } /\ more[name] = symbol
      /\ \A other \in DOMAIN names : more[other] = names[other]
  BY <1>2 DEF WithName
<1>4. ASSUME NEW n \in 1..size, IsAssignment(old, n)
      PROVE  /\ NameAt(new, n) \in DOMAIN more /\ new[more[NameAt(new, n)]].type = new[n].type
             /\ IsAssignment(new, n) /\ NameAt(new, n) = NameAt(old, n)
  <2>1. new[n] = old[n] /\ IsAssignment(new, n) /\ NameAt(new, n) = NameAt(old, n)
    BY <1>1, <1>4, NameKept DEF IsAssignment
  <2>2. NameAt(old, n) \in DOMAIN names /\ old[names[NameAt(old, n)]].type = old[n].type
    BY <1>1, <1>4 DEF Declares
  <2>3. new[names[NameAt(old, n)]] = old[names[NameAt(old, n)]]
    BY <2>2, BuildsKept
  <2> QED
    BY <1>3, <2>1, <2>2, <2>3
<1>5. \A n \in 1..size + 1 : n = size + 1 \/ n \in 1..size
  BY <1>1
<1>6. ASSUME NEW n \in 1..size + 1, IsAssignment(new, n)
      PROVE  NameAt(new, n) \in DOMAIN more /\ new[more[NameAt(new, n)]].type = new[n].type
  <2>1. CASE n = size + 1
    BY <1>1, <1>3, <2>1
  <2>2. CASE n \in 1..size
    <3>1. IsAssignment(old, n)
      BY <1>1, <1>6, <2>2, NameKept
    <3> QED
      BY <1>4, <2>2, <3>1
  <2> QED
    BY <1>5, <2>1, <2>2
<1>7. ASSUME NEW other \in DOMAIN more
      PROVE  \E n \in 1..size + 1 : IsAssignment(new, n) /\ NameAt(new, n) = other
  <2>1. CASE other = name
    <3>1. size + 1 \in 1..size + 1
      BY <1>1
    <3> QED
      BY <1>1, <2>1, <3>1
  <2>2. CASE other # name
    <3>1. PICK n \in 1..size : IsAssignment(old, n) /\ NameAt(old, n) = other
      BY <1>1, <1>3, <2>2 DEF Declares
    <3>2. n \in 1..size + 1
      BY <3>1
    <3> QED
      BY <1>4, <3>1, <3>2
  <2> QED
    BY <2>1, <2>2
<1> QED
  BY <1>1, <1>2, <1>6, <1>7 DEF Declares

\* An assignment declares its name, or reports that it was declared before.
LEMMA FinishAssignmentInv == BinderInv /\ FinishAssignment => BinderInv'
<1> SUFFICES ASSUME BinderInv, FinishAssignment PROVE BinderInv'
  OBVIOUS
<1>1. /\ IsSyntaxTree(syntax) /\ heap \in Seq(Cell) /\ Len(heap) \in Nat /\ Typed(heap)
      /\ binder.fn = "return" /\ Builds(heap, binder.node) /\ reports \in Seq(BinderReports)
      /\ BoundBy(syntax, heap, scope, binder, BinderPop) /\ BinderPop \in Seq(BinderFrame)
      /\ BinderTop.fn = "assignment" /\ Waiting(syntax, heap, BinderTop)
  BY ReturningIs DEF FinishAssignment
<1>2. PICK size \in Nat : size = Len(heap)
  BY <1>1
<1>3. PICK node \in 1..size : node = binder.node /\ Builds(heap, node)
  BY <1>1, <1>2 DEF Builds
<1>4. PICK type \in ObjectTypes : type = heap[node].type
  BY <1>1, <1>3, CellHasType
<1>5. PICK name \in Name : name = TextOf(Kid(BinderTop.syntax, 1))
  <2>1. BinderTop.syntax \in 1..Len(syntax.nodes) /\ Kind(syntax, BinderTop.syntax) = "ASSIGNMENT_EXPRESSION"
    BY <1>1 DEF Waiting, KindBoundBy
  <2>2. TextOf(Kid(BinderTop.syntax, 1)) \in Name
    BY <1>1, <2>1, ReadTree
  <2> QED
    BY <2>2
<1>6. size + 1 \in Pointer /\ node \in Pointer /\ size + 1 + 1 = size + 2 /\ size + 2 + 1 = size + 3
  BY DEF Pointer
<1>7. PICK symbol \in Cell, assignment \in Cell :
         /\ symbol = Symbol(name, type) /\ symbol.cell = "SYMBOL"
         /\ assignment = Assignment(size + 1, node, type) /\ assignment.cell = "ASSIGNMENT"
  BY <1>6, NewCells
<1>8. PICK one : one = Append(heap, symbol)
  OBVIOUS
<1>9. PICK two : two = Append(one, symbol)
  OBVIOUS
<1>10. PICK new : new = Append(two, assignment)
  OBVIOUS
<1>11. /\ heap' = new /\ binder' = Bound(size + 3) /\ binder_stack' = BinderPop
       /\ TryDeclare(name, size + 2)
       /\ syntax' = syntax /\ declared' = declared /\ freed' = freed
  <2>1. /\ heap' = heap \o << symbol, symbol, assignment >> /\ binder' = Bound(size + 3)
        /\ TryDeclare(name, size + 2)
    BY <1>2, <1>3, <1>4, <1>5, <1>6, <1>7 DEF FinishAssignment
  <2>2. heap \o << symbol, symbol, assignment >> = new
    BY <1>1, <1>7, <1>8, <1>9, <1>10, PushThrice
  <2> QED
    BY <2>1, <2>2 DEF FinishAssignment, TreeUnchanged
<1>12. /\ one \in Seq(Cell) /\ Len(one) = size + 1 /\ one[size + 1] = symbol
       /\ \A i \in 1..size : one[i] = heap[i]
  BY <1>1, <1>2, <1>8, PushOne
<1>13. /\ two \in Seq(Cell) /\ Len(two) = size + 2 /\ two[size + 2] = symbol
       /\ \A i \in 1..size + 1 : two[i] = one[i]
  <2>1. /\ two \in Seq(Cell) /\ Len(two) = size + 1 + 1 /\ two[size + 1 + 1] = symbol
        /\ \A i \in 1..size + 1 : two[i] = one[i]
    BY <1>9, <1>12, PushOne
  <2> QED
    BY <1>6, <2>1
<1>14. /\ new \in Seq(Cell) /\ Len(new) = size + 3 /\ new[size + 3] = assignment
       /\ \A i \in 1..size + 2 : new[i] = two[i]
  <2>1. /\ new \in Seq(Cell) /\ Len(new) = size + 2 + 1 /\ new[size + 2 + 1] = assignment
        /\ \A i \in 1..size + 2 : new[i] = two[i]
    BY <1>10, <1>13, PushOne
  <2> QED
    BY <1>6, <2>1
<1>15. /\ \A i \in 1..size : i \in 1..size + 1 /\ i \in 1..size + 2 /\ i \in 1..size + 3
       /\ size + 1 \in 1..size + 1 /\ size + 1 \in 1..size + 2 /\ size + 1 \in 1..size + 3
       /\ size + 2 \in 1..size + 2 /\ size + 2 \in 1..size + 3 /\ size + 3 \in 1..size + 3
       /\ size + 3 - 1 = size + 2 /\ size + 3 - 2 = size + 1 /\ size + 3 - 3 = size
       /\ \A i \in 1..size : i \in 1..size + 3 - 1
       /\ size + 1 \in 1..size + 3 - 1
  OBVIOUS
<1>16. new[size + 1] = symbol /\ new[size + 2] = symbol /\ new[node] = heap[node]
  BY <1>12, <1>13, <1>14, <1>15
<1>17. /\ TypedCell(one, size + 1) /\ TypedCell(two, size + 2)
  BY <1>7, <1>12, <1>13 DEF TypedCell
<1>18. IsSymbol(new, size + 1) /\ IsSymbol(new, size + 2) /\ IsSymbol(two, size + 2)
  BY <1>7, <1>13, <1>14, <1>15, <1>16 DEF IsSymbol
<1>19. TypedCell(new, size + 3)
  <2>1. Builds(new, node) /\ new[node].type = type
    BY <1>3, <1>4, <1>14, <1>15, <1>16 DEF Builds
  <2>2. new[size + 1].type = type
    BY <1>7, <1>16 DEF Symbol
  <2>3. new[size + 3] = Assignment(size + 1, node, new[node].type)
    BY <1>7, <1>14, <2>1
  <2> QED
    BY <1>15, <1>18, <2>1, <2>2, <2>3 DEF TypedCell
<1>20. BoundBy(syntax, one, scope, binder, BinderPop) /\ Extends(heap, one) /\ Typed(one)
  BY <1>1, <1>2, <1>8, <1>17, AddCell
<1>21. BoundBy(syntax, two, scope, binder, BinderPop) /\ Extends(one, two) /\ Typed(two)
  <2>1. TypedCell(two, Len(one) + 1)
    BY <1>6, <1>12, <1>17
  <2> QED
    BY <1>9, <1>20, <2>1, AddCell
<1>22. BoundBy(syntax, new, scope, binder, BinderPop) /\ Extends(two, new) /\ Typed(new)
  <2>1. TypedCell(new, Len(two) + 1)
    BY <1>6, <1>13, <1>19
  <2> QED
    BY <1>10, <1>21, <2>1, AddCell
<1>23. Builds(new, size + 3)
  BY <1>7, <1>14, <1>15 DEF Builds
<1>24. BoundBy(syntax, new, scope, binder', BinderPop)
  BY <1>11, <1>22, <1>23, ReturnCell
<1>25. freed \subseteq 1..Len(new) /\ declared \subseteq 1..Len(new)
  BY <1>2, <1>14, <1>15 DEF BinderInv
<1>26. CASE name \in DOMAIN scope
  <2>1. scope' = scope /\ reports' = Append(reports, "variable_already_declared")
    BY <1>11, <1>26 DEF TryDeclare
  <2>2. reports' \in Seq(BinderReports) /\ ~Clean'
    BY <1>1, <2>1, ReportedIsNotClean DEF BinderReports
  <2> QED
    BY <1>1, <1>11, <1>24, <1>25, <2>1, <2>2 DEF BinderInv
<1>27. CASE name \notin DOMAIN scope
  <2>1. scope' = WithName(scope, name, size + 2) /\ reports' = reports
    BY <1>11, <1>27 DEF TryDeclare, WithName
  <2>2. BoundBy(syntax, new, scope', binder', BinderPop)
    <3>1. binder'.fn # "done"
      BY <1>11 DEF Bound
    <3> QED
      BY <1>18, <1>24, <2>1, <3>1, DeclareName
  <2>3. Clean => \E first, edge : BoundInOrder(new, scope', binder', BinderPop, first, edge)
    <3> SUFFICES ASSUME Clean PROVE \E first, edge : BoundInOrder(new, scope', binder', BinderPop, first, edge)
      OBVIOUS
    <3>1. PICK first, edge, from :
             /\ from \in Nat /\ Ordered(heap, first) /\ Edges(first, BinderPop, edge) /\ Declares(heap, scope)
             /\ from = edge[Len(BinderPop) + 1] /\ node = size /\ first[node] = from + 1
      <4>1. BinderReturning("assignment") /\ BinderTop.fn # "right"
        BY <1>1 DEF FinishAssignment
      <4>2. PICK first, edge, from, to :
               /\ Ordered(heap, first) /\ Edges(first, BinderPop, edge) /\ Declares(heap, scope)
               /\ from \in Nat /\ from = edge[Len(BinderPop) + 1] /\ Moves(first, BinderTop, from, to)
               /\ binder.node = Len(heap) /\ first[binder.node] = to + 1
        BY <4>1, ReturningInOrder
      <4> QED
        BY <1>2, <1>3, <4>1, <4>2 DEF Moves
    <3>2. PICK firstOne : firstOne = Continued(first, size, 0)
      OBVIOUS
    <3>3. PICK firstTwo : firstTwo = Continued(firstOne, size + 1, 0)
      OBVIOUS
    <3>4. PICK last : last = Continued(firstTwo, size + 2, from + 1)
      OBVIOUS
    <3>5. /\ Ordered(one, firstOne) /\ Edges(firstOne, BinderPop, edge) /\ Declares(one, scope)
          /\ Continues(firstOne, first, size)
      <4>1. /\ TypedCell(Append(heap, symbol), Len(heap) + 1) /\ symbol.cell # "ASSIGNMENT"
            /\ firstOne = Continued(first, Len(heap), 0)
            /\ OrderedCell(Append(heap, symbol), firstOne, Len(heap) + 1)
        BY <1>2, <1>7, <1>8, <1>12, <1>17, <3>2 DEF OrderedCell
      <4>2. BoundBy(syntax, heap, scope, binder, BinderPop)
        BY <1>1
      <4>3. Ordered(heap, first) /\ Edges(first, BinderPop, edge) /\ Declares(heap, scope)
        BY <3>1
      <4> QED
        BY <1>2, <1>8, <4>1, <4>2, <4>3, AddCellInOrder
    <3>6. /\ Ordered(two, firstTwo) /\ Edges(firstTwo, BinderPop, edge) /\ Declares(two, scope)
          /\ Continues(firstTwo, firstOne, size + 1)
      <4>1. /\ TypedCell(Append(one, symbol), Len(one) + 1) /\ symbol.cell # "ASSIGNMENT"
            /\ firstTwo = Continued(firstOne, Len(one), 0)
            /\ OrderedCell(Append(one, symbol), firstTwo, Len(one) + 1)
        BY <1>6, <1>7, <1>9, <1>12, <1>13, <1>17, <3>3 DEF OrderedCell
      <4>2. BoundBy(syntax, one, scope, binder, BinderPop)
        BY <1>20
      <4> QED
        BY <1>9, <1>12, <3>5, <4>1, <4>2, AddCellInOrder
    <3>7. last[size + 3] = from + 1 /\ last[size] = from + 1
      <4>1. size + 3 \in 1..size + 2 + 1 /\ size + 3 = size + 2 + 1
        OBVIOUS
      <4>2. size \in 1..size + 2 + 1 /\ size # size + 2 + 1 /\ size \in 1..size /\ size \in 1..size + 1
        BY <3>1
      <4>3. last[size] = firstTwo[size] /\ last[size + 3] = from + 1
        BY <3>4, <4>1, <4>2 DEF Continued
      <4>4. firstTwo[size] = firstOne[size] /\ firstOne[size] = first[size]
        BY <3>5, <3>6, <4>2 DEF Continues
      <4> QED
        BY <3>1, <4>3, <4>4
    <3>8. NameAt(new, size + 3) = name
      <4>1. new[size + 3].kids[1] = size + 1
        BY <1>7, <1>14 DEF Assignment
      <4>2. new[size + 1].name = name
        BY <1>7, <1>16 DEF Symbol
      <4> QED
        BY <4>1, <4>2 DEF NameAt
    <3>9. OrderedCell(new, last, size + 3)
      <4>1. new[size + 3].kids = << size + 3 - 2, size + 3 - 3 >>
        <5>1. new[size + 3].kids = << size + 1, size >>
          BY <1>7, <1>14, <3>1 DEF Assignment
        <5> QED
          BY <1>15, <5>1
      <4>2. last[size + 3] = last[size + 3 - 3] /\ IsSymbol(new, size + 3 - 1)
        BY <1>15, <1>18, <3>7
      <4>3. ASSUME NEW a \in 1..size + 3 - 1, IsAssignment(new, a) PROVE NameAt(new, a) # NameAt(new, size + 3)
        <5>1. a \in 1..size + 2
          BY <1>15
        <5>2. IsAssignment(two, a) /\ two[a].cell = "ASSIGNMENT" /\ NameAt(new, a) = NameAt(two, a)
          BY <1>13, <1>14, <1>21, <1>22, <4>3, <5>1, NameKept DEF IsAssignment
        <5>3. NameAt(two, a) \in DOMAIN scope
          BY <1>13, <3>6, <5>1, <5>2 DEF Declares
        <5> QED
          BY <1>27, <3>8, <5>2, <5>3
      <4>4. new[size + 3].cell = "ASSIGNMENT"
        BY <1>7, <1>14
      <4>5. PICK n : n = size + 3
        OBVIOUS
      <4> QED
        BY <4>1, <4>2, <4>3, <4>4, <4>5 DEF OrderedCell
    <3>10. Ordered(new, last) /\ Continues(last, firstTwo, size + 2)
      <4>1. Len(new) = Len(two) + 1 /\ OrderedCell(new, last, Len(new)) /\ last = Continued(firstTwo, Len(two), from + 1)
        BY <1>6, <1>13, <1>14, <3>4, <3>9
      <4>2. from + 1 \in Nat
        BY <3>1
      <4> QED
        BY <1>13, <1>14, <1>21, <1>22, <3>6, <4>1, <4>2, PushOrdered
    <3>11. Edges(last, BinderPop, edge)
      <4>1. BinderPop \in Seq(BinderFrame) /\ \A i \in 1..Len(BinderPop) : Waiting(syntax, two, BinderPop[i])
        BY <1>21 DEF BoundBy
      <4> QED
        BY <1>13, <3>6, <3>10, <4>1, EdgesKept
    <3>12. Declares(new, scope')
      <4>1. \A other \in DOMAIN scope : IsSymbol(two, scope[other])
        BY <1>21 DEF BoundBy
      <4>2. IsAssignment(new, Len(new)) /\ NameAt(new, Len(new)) = name /\ Len(new) = Len(two) + 1
        BY <1>6, <1>7, <1>13, <1>14, <3>8 DEF IsAssignment
      <4>3. new[size + 2].type = new[Len(new)].type /\ size + 2 \in 1..Len(two)
        BY <1>7, <1>13, <1>14, <1>15, <1>16 DEF Symbol, Assignment
      <4> QED
        BY <1>13, <1>14, <1>21, <1>22, <1>27, <2>1, <3>6, <4>1, <4>2, <4>3, DeclaresMore
    <3> QED
      BY <1>11, <1>14, <3>1, <3>7, <3>10, <3>11, <3>12 DEF BoundInOrder, Bound
  <2> QED
    BY <1>1, <1>11, <1>25, <2>1, <2>2, <2>3 DEF BinderInv, Clean
<1> QED
  BY <1>26, <1>27

\* Every step of the binder keeps its invariant.
LEMMA BinderNextInv == BinderInv /\ BinderNext => BinderInv'
BY BindLiteralInv, BindUnaryInv, BindBinaryInv, BindParenthesizedInv, BindDeclaredNameInv,
   BindUndefinedNameInv, BindAssignmentInv, FinishUnaryInv, FinishLeftInv, FinishBinaryInv,
   FinishAssignmentInv, FinishGlobalScopeInv DEF BinderNext

--------------------------------------------------------------------------------
(* Objects that come, go and change hands.                                      *)

\* There is always a block that is not in use.
LEMMA FreshIsNew ==
  ASSUME NEW objs, Blocks(objs)
  PROVE  Fresh(objs) \in Pointer /\ Fresh(objs) \notin DOMAIN objs
<1>1. IsFiniteSet(DOMAIN objs)
  BY DEF Blocks
<1>2. PICK c \in Nat : c = Cardinality(DOMAIN objs)
  BY <1>1, FS_CardinalityType
<1>3. Cardinality(1..c + 1) = c + 1
  BY FS_Interval
<1>4. \E id \in 1..c + 1 : id \notin DOMAIN objs
  <2> SUFFICES ASSUME 1..c + 1 \subseteq DOMAIN objs PROVE FALSE
    OBVIOUS
  <2>1. Cardinality(1..c + 1) <= Cardinality(DOMAIN objs)
    BY <1>1, FS_Subset
  <2> QED
    BY <1>2, <1>3, <2>1
<1>5. Fresh(objs) \in 1..c + 1 /\ Fresh(objs) \notin DOMAIN objs
  BY <1>2, <1>4 DEF Fresh
<1> QED
  BY <1>5 DEF Pointer

\* malloc and free on the blocks.
LEMMA AllocateBlock ==
  ASSUME NEW objs, Blocks(objs), NEW value \in Objects
  PROVE  /\ Blocks(Allocate(objs, value))
         /\ DOMAIN Allocate(objs, value) = DOMAIN objs \cup { Fresh(objs) }
         /\ Allocate(objs, value)[Fresh(objs)] = value
         /\ \A id \in DOMAIN objs : Allocate(objs, value)[id] = objs[id]
<1>1. PICK new \in Pointer : new = Fresh(objs) /\ new \notin DOMAIN objs
  BY FreshIsNew
<1>2. PICK all : all = Allocate(objs, value)
  OBVIOUS
<1>3. /\ DOMAIN all = DOMAIN objs \cup { new } /\ all[new] = value
      /\ \A id \in DOMAIN objs : all[id] = objs[id]
  BY <1>1, <1>2 DEF Allocate
<1>4. IsFiniteSet(DOMAIN objs \cup { new })
  BY FS_AddElement DEF Blocks
<1> QED
  BY <1>1, <1>2, <1>3, <1>4 DEF Blocks

LEMMA ReleaseBlocks ==
  ASSUME NEW objs, Blocks(objs), NEW ids
  PROVE  /\ Blocks(Release(objs, ids)) /\ DOMAIN Release(objs, ids) = DOMAIN objs \ ids
         /\ \A id \in DOMAIN objs \ ids : Release(objs, ids)[id] = objs[id]
<1>1. IsFiniteSet(DOMAIN objs \ ids)
  BY FS_Subset DEF Blocks
<1> QED
  BY <1>1 DEF Blocks, Release

\* The new block is the caller's.
LEMMA OwnAllocated ==
  ASSUME NEW objs, Blocks(objs), NEW map, NEW calls, Owned(objs, map, calls, Null), NEW value \in Objects
  PROVE  Owned(Allocate(objs, value), map, calls, Fresh(objs))
<1>1. PICK new \in Pointer : new = Fresh(objs) /\ new \notin DOMAIN objs
  BY FreshIsNew
<1>2. PICK all : all = Allocate(objs, value) /\ DOMAIN all = DOMAIN objs \cup { new }
  BY <1>1, AllocateBlock
<1>3. Null \notin DOMAIN objs
  BY DEF Blocks, Pointer, Null
<1>4. Owned(all, map, calls, new)
  BY <1>1, <1>2, <1>3 DEF Owned
<1> QED
  BY <1>1, <1>2, <1>4

\* The caller gives his back.
LEMMA OwnReleased ==
  ASSUME NEW objs, Blocks(objs), NEW map, NEW calls, NEW hand, Owned(objs, map, calls, hand)
  PROVE  Owned(Release(objs, { hand }), map, calls, Null)
<1>1. PICK rest : rest = Release(objs, { hand }) /\ DOMAIN rest = DOMAIN objs \ { hand }
  BY ReleaseBlocks
<1>2. Null \notin DOMAIN objs
  BY DEF Blocks, Pointer, Null
<1>3. Owned(rest, map, calls, Null)
  BY <1>1, <1>2 DEF Owned
<1> QED
  BY <1>1, <1>3

\* One more call of the evaluator that waits, and one less.
LEMMA PushCalls ==
  ASSUME NEW calls \in Seq(EvaluatorFrame), NEW frame \in EvaluatorFrame
  PROVE  \E size \in Nat, more \in Seq(EvaluatorFrame) :
            /\ size = Len(calls) /\ more = Append(calls, frame) /\ Len(more) = size + 1
            /\ more[size + 1] = frame /\ \A i \in 1..size : more[i] = calls[i]
            /\ size + 1 \in 1..size + 1 /\ \A i \in 1..size : i \in 1..size + 1 /\ i # size + 1
            /\ \A i \in 1..size + 1 : i = size + 1 \/ i \in 1..size
<1>1. PICK size \in Nat : size = Len(calls)
  OBVIOUS
<1>2. PICK more \in Seq(EvaluatorFrame) : more = Append(calls, frame)
  BY PushOne
<1>3. Len(more) = size + 1 /\ more[size + 1] = frame /\ \A i \in 1..size : more[i] = calls[i]
  BY <1>1, <1>2, PushOne
<1>4. /\ size + 1 \in 1..size + 1 /\ \A i \in 1..size : i \in 1..size + 1 /\ i # size + 1
      /\ \A i \in 1..size + 1 : i = size + 1 \/ i \in 1..size
  OBVIOUS
<1> QED
  BY <1>1, <1>2, <1>3, <1>4

LEMMA PopCalls ==
  ASSUME NEW calls \in Seq(EvaluatorFrame), calls # <<>>
  PROVE  \E size \in Nat, rest \in Seq(EvaluatorFrame) :
            /\ Len(calls) = size + 1 /\ rest = SubSeq(calls, 1, Len(calls) - 1) /\ Len(rest) = size
            /\ calls[size + 1] \in EvaluatorFrame /\ \A i \in 1..size : rest[i] = calls[i]
            /\ size + 1 \in 1..size + 1 /\ \A i \in 1..size : i \in 1..size + 1 /\ i # size + 1
            /\ \A i \in 1..size + 1 : i = size + 1 \/ i \in 1..size
<1>1. PICK size \in Nat : Len(calls) = size + 1 /\ Len(calls) - 1 = size
  <2>1. Len(calls) \in Nat \ {0}
    BY PopOne
  <2> QED
    BY <2>1
<1>2. PICK rest \in Seq(EvaluatorFrame) : rest = SubSeq(calls, 1, Len(calls) - 1)
  BY PopOne
<1>3. Len(rest) = size /\ calls[size + 1] \in EvaluatorFrame /\ \A i \in 1..size : rest[i] = calls[i]
  BY <1>1, <1>2, PopOne
<1>4. /\ size + 1 \in 1..size + 1 /\ \A i \in 1..size : i \in 1..size + 1 /\ i # size + 1
      /\ \A i \in 1..size + 1 : i = size + 1 \/ i \in 1..size
  OBVIOUS
<1> QED
  BY <1>1, <1>2, <1>3, <1>4

\* A call that waits keeps nothing, or what was in hand.
LEMMA OwnSuspended ==
  ASSUME NEW objs, Blocks(objs), NEW map, NEW calls \in Seq(EvaluatorFrame), NEW frame \in EvaluatorFrame,
         frame.held = <<>>, Owned(objs, map, calls, Null)
  PROVE  Owned(objs, map, Append(calls, frame), Null)
<1>1. PICK size \in Nat, more \in Seq(EvaluatorFrame) :
         /\ size = Len(calls) /\ more = Append(calls, frame) /\ Len(more) = size + 1
         /\ more[size + 1] = frame /\ \A i \in 1..size : more[i] = calls[i]
         /\ size + 1 \in 1..size + 1 /\ \A i \in 1..size : i \in 1..size + 1 /\ i # size + 1
         /\ \A i \in 1..size + 1 : i = size + 1 \/ i \in 1..size
  BY PushCalls
<1>2. /\ \A name \in DOMAIN map : map[name].value \in DOMAIN objs \ { Null }
      /\ \A name, other \in DOMAIN map : map[name].value = map[other].value => name = other
  BY DEF Owned
<1>3. \A i \in 1..size :
          \/ calls[i].held = <<>>
          \/ /\ Len(calls[i].held) = 1 /\ calls[i].held[1] \in DOMAIN objs \ { Null }
             /\ \A name \in DOMAIN map : calls[i].held[1] # map[name].value
  BY <1>1 DEF Owned
<1>4. \A i, j \in 1..size :
          (calls[i].held # <<>> /\ calls[j].held # <<>> /\ calls[i].held[1] = calls[j].held[1]) => i = j
  BY <1>1 DEF Owned
<1>5. \A i, j \in 1..size + 1 :
          (more[i].held # <<>> /\ more[j].held # <<>> /\ more[i].held[1] = more[j].held[1]) => i = j
  BY <1>1, <1>4
<1>6. \A id \in DOMAIN objs :
          \/ id = Null
          \/ \E name \in DOMAIN map : map[name].value = id
          \/ \E i \in 1..size : calls[i].held = << id >>
  BY <1>1 DEF Owned
<1>7. Owned(objs, map, more, Null)
  <2>1. \A i \in 1..size + 1 :
          \/ more[i].held = <<>>
          \/ /\ Len(more[i].held) = 1 /\ more[i].held[1] \in DOMAIN objs \ { Null }
             /\ \A name \in DOMAIN map : more[i].held[1] # map[name].value
    BY <1>1, <1>3
  <2>2. \A id \in DOMAIN objs :
          \/ id = Null
          \/ \E name \in DOMAIN map : map[name].value = id
          \/ \E i \in 1..size + 1 : more[i].held = << id >>
    BY <1>1, <1>6
  <2> QED
    BY <1>1, <1>2, <1>5, <2>1, <2>2 DEF Owned
<1> QED
  BY <1>1, <1>7

LEMMA OwnHeld ==
  ASSUME NEW objs, Blocks(objs), NEW map, NEW calls \in Seq(EvaluatorFrame), NEW frame \in EvaluatorFrame,
         NEW hand \in Pointer, frame.held = << hand >>, Owned(objs, map, calls, hand)
  PROVE  Owned(objs, map, Append(calls, frame), Null)
<1>1. PICK size \in Nat, more \in Seq(EvaluatorFrame) :
         /\ size = Len(calls) /\ more = Append(calls, frame) /\ Len(more) = size + 1
         /\ more[size + 1] = frame /\ \A i \in 1..size : more[i] = calls[i]
         /\ size + 1 \in 1..size + 1 /\ \A i \in 1..size : i \in 1..size + 1 /\ i # size + 1
         /\ \A i \in 1..size + 1 : i = size + 1 \/ i \in 1..size
  BY PushCalls
<1>2. Null \notin DOMAIN objs /\ hand \in DOMAIN objs /\ frame.held # <<>> /\ Len(frame.held) = 1 /\ frame.held[1] = hand
  BY DEF Blocks, Pointer, Null, Owned
<1>3. /\ \A name \in DOMAIN map : map[name].value \in DOMAIN objs \ { Null } /\ map[name].value # hand
      /\ \A name, other \in DOMAIN map : map[name].value = map[other].value => name = other
  BY <1>2 DEF Owned
<1>4. \A i \in 1..size :
          \/ calls[i].held = <<>>
          \/ /\ Len(calls[i].held) = 1 /\ calls[i].held[1] \in DOMAIN objs \ { Null } /\ calls[i].held[1] # hand
             /\ \A name \in DOMAIN map : calls[i].held[1] # map[name].value
  BY <1>1, <1>2 DEF Owned
<1>5. \A i, j \in 1..size :
          (calls[i].held # <<>> /\ calls[j].held # <<>> /\ calls[i].held[1] = calls[j].held[1]) => i = j
  BY <1>1 DEF Owned
<1>6. \A i, j \in 1..size + 1 :
          (more[i].held # <<>> /\ more[j].held # <<>> /\ more[i].held[1] = more[j].held[1]) => i = j
  BY <1>1, <1>2, <1>4, <1>5
<1>7. \A id \in DOMAIN objs :
          \/ id = hand
          \/ \E name \in DOMAIN map : map[name].value = id
          \/ \E i \in 1..size : calls[i].held = << id >>
  BY <1>1 DEF Owned
<1>8. \A id \in DOMAIN objs :
          \/ \E name \in DOMAIN map : map[name].value = id
          \/ \E i \in 1..size + 1 : more[i].held = << id >>
  BY <1>1, <1>7
<1>9. \A i \in 1..size + 1 :
          \/ more[i].held = <<>>
          \/ /\ Len(more[i].held) = 1 /\ more[i].held[1] \in DOMAIN objs \ { Null }
             /\ \A name \in DOMAIN map : more[i].held[1] # map[name].value
  <2>1. hand \in DOMAIN objs \ { Null } /\ \A name \in DOMAIN map : hand # map[name].value
    BY <1>2, <1>3
  <2>2. ASSUME NEW i \in 1..size + 1
        PROVE  \/ more[i].held = <<>>
               \/ /\ Len(more[i].held) = 1 /\ more[i].held[1] \in DOMAIN objs \ { Null }
                  /\ \A name \in DOMAIN map : more[i].held[1] # map[name].value
    <3>1. CASE i = size + 1
      BY <1>1, <1>2, <2>1, <3>1
    <3>2. CASE i \in 1..size
      <4>1. more[i] = calls[i]
        BY <1>1, <3>2
      <4> QED
        BY <1>4, <3>2, <4>1
    <3> QED
      BY <1>1, <3>1, <3>2
  <2> QED
    BY <2>2
<1>10. Owned(objs, map, more, Null)
  BY <1>1, <1>3, <1>6, <1>8, <1>9 DEF Owned
<1> QED
  BY <1>1, <1>10

\* A call that goes on and held nothing, or frees what it held.
LEMMA OwnPopped ==
  ASSUME NEW objs, Blocks(objs), NEW map, NEW calls \in Seq(EvaluatorFrame), calls # <<>>,
         NEW hand, Owned(objs, map, calls, hand), calls[Len(calls)].held = <<>>
  PROVE  Owned(objs, map, SubSeq(calls, 1, Len(calls) - 1), hand)
<1>1. PICK size \in Nat, rest \in Seq(EvaluatorFrame) :
         /\ Len(calls) = size + 1 /\ rest = SubSeq(calls, 1, Len(calls) - 1) /\ Len(rest) = size
         /\ \A i \in 1..size : rest[i] = calls[i]
         /\ size + 1 \in 1..size + 1 /\ \A i \in 1..size : i \in 1..size + 1 /\ i # size + 1
         /\ \A i \in 1..size + 1 : i = size + 1 \/ i \in 1..size
  BY PopCalls
<1>2. /\ hand # Null => hand \in DOMAIN objs
      /\ \A name \in DOMAIN map : map[name].value \in DOMAIN objs \ { hand }
      /\ \A name, other \in DOMAIN map : map[name].value = map[other].value => name = other
  BY DEF Owned
<1>3. \A i \in 1..size :
          \/ rest[i].held = <<>>
          \/ /\ Len(rest[i].held) = 1 /\ rest[i].held[1] \in DOMAIN objs \ { hand }
             /\ \A name \in DOMAIN map : rest[i].held[1] # map[name].value
  BY <1>1 DEF Owned
<1>4. \A i, j \in 1..size :
          (rest[i].held # <<>> /\ rest[j].held # <<>> /\ rest[i].held[1] = rest[j].held[1]) => i = j
  BY <1>1 DEF Owned
<1>5. ASSUME NEW id \in DOMAIN objs
      PROVE  \/ id = hand
             \/ \E name \in DOMAIN map : map[name].value = id
             \/ \E i \in 1..size : rest[i].held = << id >>
  <2>1. \/ id = hand
        \/ \E name \in DOMAIN map : map[name].value = id
        \/ \E i \in 1..size + 1 : calls[i].held = << id >>
    BY <1>1 DEF Owned
  <2>2. calls[size + 1].held # << id >>
    <3>1. calls[size + 1].held = <<>> /\ << id >> # <<>>
      BY <1>1
    <3> QED
      BY <3>1
  <2> QED
    BY <1>1, <2>1, <2>2
<1>6. Owned(objs, map, rest, hand)
  BY <1>1, <1>2, <1>3, <1>4, <1>5 DEF Owned
<1> QED
  BY <1>1, <1>6

LEMMA OwnFreed ==
  ASSUME NEW objs, Blocks(objs), NEW map, NEW calls \in Seq(EvaluatorFrame), calls # <<>>,
         NEW hand, Owned(objs, map, calls, hand),
         NEW left, calls[Len(calls)].held # <<>>, left = calls[Len(calls)].held[1]
  PROVE  /\ left \in DOMAIN objs /\ left # hand
         /\ Owned(Release(objs, { left }), map, SubSeq(calls, 1, Len(calls) - 1), hand)
<1>1. PICK size \in Nat, rest \in Seq(EvaluatorFrame) :
         /\ Len(calls) = size + 1 /\ rest = SubSeq(calls, 1, Len(calls) - 1) /\ Len(rest) = size
         /\ \A i \in 1..size : rest[i] = calls[i]
         /\ size + 1 \in 1..size + 1 /\ \A i \in 1..size : i \in 1..size + 1 /\ i # size + 1
         /\ \A i \in 1..size + 1 : i = size + 1 \/ i \in 1..size
  BY PopCalls
<1>2. /\ left \in DOMAIN objs /\ left # hand /\ \A name \in DOMAIN map : left # map[name].value
      /\ calls[size + 1].held # <<>> /\ calls[size + 1].held[1] = left
  BY <1>1 DEF Owned
<1>3. PICK less : less = Release(objs, { left }) /\ DOMAIN less = DOMAIN objs \ { left }
  BY ReleaseBlocks
<1>4. /\ hand # Null => hand \in DOMAIN less
      /\ \A name \in DOMAIN map : map[name].value \in DOMAIN less \ { hand }
      /\ \A name, other \in DOMAIN map : map[name].value = map[other].value => name = other
  BY <1>2, <1>3 DEF Owned
<1>5. ASSUME NEW i \in 1..size, rest[i].held # <<>>
      PROVE  /\ Len(rest[i].held) = 1 /\ rest[i].held[1] \in DOMAIN less \ { hand }
             /\ \A name \in DOMAIN map : rest[i].held[1] # map[name].value
  <2>1. /\ Len(calls[i].held) = 1 /\ calls[i].held[1] \in DOMAIN objs \ { hand }
        /\ \A name \in DOMAIN map : calls[i].held[1] # map[name].value
    BY <1>1, <1>5 DEF Owned
  <2>2. calls[i].held[1] # left
    <3>1. i \in 1..Len(calls) /\ size + 1 \in 1..Len(calls) /\ i # size + 1 /\ calls[i].held # <<>>
      BY <1>1, <1>5
    <3>2. calls[i].held[1] = calls[size + 1].held[1] => i = size + 1
      BY <1>2, <3>1 DEF Owned
    <3> QED
      BY <1>2, <3>1, <3>2
  <2> QED
    BY <1>1, <1>3, <2>1, <2>2
<1>6. \A i, j \in 1..size :
          (rest[i].held # <<>> /\ rest[j].held # <<>> /\ rest[i].held[1] = rest[j].held[1]) => i = j
  BY <1>1 DEF Owned
<1>7. ASSUME NEW id \in DOMAIN less
      PROVE  \/ id = hand
             \/ \E name \in DOMAIN map : map[name].value = id
             \/ \E i \in 1..size : rest[i].held = << id >>
  <2>1. \/ id = hand
        \/ \E name \in DOMAIN map : map[name].value = id
        \/ \E i \in 1..size + 1 : calls[i].held = << id >>
    BY <1>1, <1>3 DEF Owned
  <2>2. calls[size + 1].held # << id >>
    BY <1>2, <1>3
  <2> QED
    BY <1>1, <2>1, <2>2
<1>8. Owned(less, map, rest, hand)
  BY <1>1, <1>4, <1>5, <1>6, <1>7 DEF Owned
<1> QED
  BY <1>1, <1>2, <1>3, <1>8

\* A variable gets a block of its own, and its old one goes.
LEMMA OwnDefined ==
  ASSUME NEW objs, Blocks(objs), NEW map, NEW calls, NEW hand, Owned(objs, map, calls, hand),
         NEW value \in Objects, NEW name, NEW entry, entry.value = Fresh(objs)
  PROVE  \E all, more :
            /\ all = Allocate(objs, value) /\ more = WithName(map, name, entry)
            /\ name \notin DOMAIN map => Owned(all, more, calls, hand)
            /\ name \in DOMAIN map =>
                  /\ Owned(Release(all, { map[name].value }), more, calls, hand)
                  /\ map[name].value \in DOMAIN objs \ { hand }
                  /\ \A other \in DOMAIN map : other # name => map[other].value # map[name].value
<1>1. PICK all, more : all = Allocate(objs, value) /\ more = WithName(map, name, entry)
  OBVIOUS
<1> SUFFICES /\ name \notin DOMAIN map => Owned(all, more, calls, hand)
             /\ name \in DOMAIN map =>
                   /\ Owned(Release(all, { map[name].value }), more, calls, hand)
                   /\ map[name].value \in DOMAIN objs \ { hand }
                   /\ \A other \in DOMAIN map : other # name => map[other].value # map[name].value
  BY <1>1
<1>2. PICK new \in Pointer : new = Fresh(objs) /\ new \notin DOMAIN objs
  BY FreshIsNew
<1>3. DOMAIN all = DOMAIN objs \cup { new } /\ Blocks(all)
  BY <1>1, <1>2, AllocateBlock
<1>4. /\ DOMAIN more = DOMAIN map \cup { name } /\ more[name].value = new
      /\ \A other \in DOMAIN map : other # name => more[other] = map[other]
  BY <1>1, <1>2 DEF WithName
<1>5. Null \notin DOMAIN objs /\ new # Null
  BY DEF Blocks, Pointer, Null
<1>6. hand # new /\ (hand # Null => hand \in DOMAIN objs)
  BY <1>2, <1>5 DEF Owned
<1>7. /\ \A other \in DOMAIN map : map[other].value \in DOMAIN objs \ { hand }
      /\ \A one, other \in DOMAIN map : map[one].value = map[other].value => one = other
  BY DEF Owned
<1>8. \A one, other \in DOMAIN more : more[one].value = more[other].value => one = other
  BY <1>2, <1>4, <1>7
<1>9. /\ \A i \in 1..Len(calls) :
            \/ calls[i].held = <<>>
            \/ /\ Len(calls[i].held) = 1 /\ calls[i].held[1] \in DOMAIN objs \ { hand }
               /\ \A other \in DOMAIN map : calls[i].held[1] # map[other].value
      /\ \A i, j \in 1..Len(calls) :
            (calls[i].held # <<>> /\ calls[j].held # <<>> /\ calls[i].held[1] = calls[j].held[1]) => i = j
  BY DEF Owned
<1>10. \A i \in 1..Len(calls) :
            calls[i].held = <<>> \/ \A other \in DOMAIN more : calls[i].held[1] # more[other].value
  BY <1>2, <1>4, <1>9
<1>11. \A id \in DOMAIN objs :
          \/ id = hand
          \/ \E other \in DOMAIN map : map[other].value = id
          \/ \E i \in 1..Len(calls) : calls[i].held = << id >>
  BY DEF Owned
<1>12. CASE name \notin DOMAIN map
  <2>1. \A other \in DOMAIN more : more[other].value \in DOMAIN all \ { hand }
    BY <1>3, <1>4, <1>6, <1>7
  <2>2. \A i \in 1..Len(calls) :
            \/ calls[i].held = <<>>
            \/ /\ Len(calls[i].held) = 1 /\ calls[i].held[1] \in DOMAIN all \ { hand }
               /\ \A other \in DOMAIN more : calls[i].held[1] # more[other].value
    BY <1>3, <1>9, <1>10
  <2>3. ASSUME NEW id \in DOMAIN all
        PROVE  \/ id = hand
               \/ \E other \in DOMAIN more : more[other].value = id
               \/ \E i \in 1..Len(calls) : calls[i].held = << id >>
    <3>1. CASE id = new
      BY <1>4, <3>1
    <3>2. CASE \E other \in DOMAIN map : map[other].value = id
      <4>1. PICK other \in DOMAIN map : map[other].value = id
        BY <3>2
      <4>2. other # name
        BY <4>1, <1>12
      <4>3. other \in DOMAIN more /\ more[other].value = id
        BY <1>4, <4>1, <4>2
      <4> QED
        BY <4>3
    <3>3. CASE id \in DOMAIN objs /\ ~\E other \in DOMAIN map : map[other].value = id
      BY <1>11, <3>3
    <3> QED
      BY <1>3, <3>1, <3>2, <3>3
  <2>4. Owned(all, more, calls, hand)
    BY <1>3, <1>6, <1>8, <1>9, <2>1, <2>2, <2>3 DEF Owned
  <2> QED
    BY <1>12, <2>4
<1>13. CASE name \in DOMAIN map
  <2>1. PICK old : old = map[name].value
    OBVIOUS
  <2>2. PICK less : less = Release(all, { old }) /\ DOMAIN less = DOMAIN all \ { old }
    BY <1>3, ReleaseBlocks
  <2>3. /\ old \in DOMAIN objs \ { hand } /\ old # new
        /\ \A other \in DOMAIN map : other # name => map[other].value # old
    BY <1>2, <1>7, <1>13, <2>1
  <2>4. \A other \in DOMAIN more : more[other].value \in DOMAIN less \ { hand }
    BY <1>3, <1>4, <1>6, <1>7, <2>2, <2>3
  <2>5. \A i \in 1..Len(calls) :
            \/ calls[i].held = <<>>
            \/ /\ Len(calls[i].held) = 1 /\ calls[i].held[1] \in DOMAIN less \ { hand }
               /\ \A other \in DOMAIN more : calls[i].held[1] # more[other].value
    BY <1>3, <1>9, <1>10, <1>13, <2>1, <2>2
  <2>6. ASSUME NEW id \in DOMAIN less
        PROVE  \/ id = hand
               \/ \E other \in DOMAIN more : more[other].value = id
               \/ \E i \in 1..Len(calls) : calls[i].held = << id >>
    <3>1. CASE id = new
      BY <1>4, <3>1
    <3>2. CASE \E other \in DOMAIN map : map[other].value = id
      <4>1. PICK other \in DOMAIN map : map[other].value = id
        BY <3>2
      <4>2. other # name
        BY <4>1, <2>1, <2>2
      <4>3. other \in DOMAIN more /\ more[other].value = id
        BY <1>4, <4>1, <4>2
      <4> QED
        BY <4>3
    <3>3. CASE id \in DOMAIN objs /\ ~\E other \in DOMAIN map : map[other].value = id
      BY <1>11, <3>3
    <3> QED
      BY <1>3, <3>1, <3>2, <3>3, <2>2
  <2>7. hand # Null => hand \in DOMAIN less
    BY <1>3, <1>6, <2>2, <2>3
  <2>8. Owned(less, more, calls, hand)
    BY <1>8, <1>9, <2>4, <2>5, <2>6, <2>7 DEF Owned
  <2> QED
    BY <1>13, <2>1, <2>2, <2>3, <2>8
<1> QED
  BY <1>12, <1>13

--------------------------------------------------------------------------------
(* Calls of the evaluator, and how far it got.                                  *)

\* The call that suspends itself is waited for by the one before it.
LEMMA ChainPush ==
  ASSUME NEW cells, NEW objs, NEW calls \in Seq(EvaluatorFrame), NEW node, Chained(cells, objs, calls, node),
         NEW frame \in EvaluatorFrame, frame.node = node, Suspends(cells, objs, frame)
  PROVE  Chained(cells, objs, Append(calls, frame), Pending(cells, frame))
<1>1. PICK size \in Nat, more \in Seq(EvaluatorFrame) :
         /\ size = Len(calls) /\ more = Append(calls, frame) /\ Len(more) = size + 1
         /\ more[size + 1] = frame /\ \A i \in 1..size : more[i] = calls[i]
         /\ size + 1 \in 1..size + 1 /\ \A i \in 1..size : i \in 1..size + 1 /\ i # size + 1
         /\ \A i \in 1..size + 1 : i = size + 1 \/ i \in 1..size
  BY PushCalls
<1>2. ASSUME NEW i \in 1..size + 1
      PROVE  /\ Suspends(cells, objs, more[i])
             /\ Pending(cells, more[i]) = IF i = size + 1 THEN Pending(cells, frame) ELSE more[i + 1].node
  <2>1. CASE i = size + 1
    BY <1>1, <2>1
  <2>2. CASE i \in 1..size
    <3>1. /\ more[i] = calls[i] /\ i # size + 1 /\ Suspends(cells, objs, calls[i])
          /\ Pending(cells, calls[i]) = IF i = size THEN node ELSE calls[i + 1].node
      BY <1>1, <2>2 DEF Chained
    <3>2. CASE i = size
      BY <1>1, <3>1, <3>2
    <3>3. CASE i # size
      <4>1. i + 1 \in 1..size
        BY <2>2, <3>3
      <4> QED
        BY <1>1, <3>1, <3>3, <4>1
    <3> QED
      BY <3>2, <3>3
  <2> QED
    BY <1>1, <2>1, <2>2
<1>3. Chained(cells, objs, more, Pending(cells, frame))
  BY <1>1, <1>2 DEF Chained
<1> QED
  BY <1>1, <1>3

LEMMA ChainPop ==
  ASSUME NEW cells, NEW objs, NEW calls \in Seq(EvaluatorFrame), NEW node, Chained(cells, objs, calls, node),
         calls # <<>>, NEW top, top = calls[Len(calls)]
  PROVE  /\ top \in EvaluatorFrame /\ Suspends(cells, objs, top) /\ Pending(cells, top) = node
         /\ Chained(cells, objs, SubSeq(calls, 1, Len(calls) - 1), top.node)
<1>1. PICK size \in Nat, rest \in Seq(EvaluatorFrame) :
         /\ Len(calls) = size + 1 /\ rest = SubSeq(calls, 1, Len(calls) - 1) /\ Len(rest) = size
         /\ calls[size + 1] \in EvaluatorFrame /\ \A i \in 1..size : rest[i] = calls[i]
         /\ size + 1 \in 1..size + 1 /\ \A i \in 1..size : i \in 1..size + 1 /\ i # size + 1
  BY PopCalls
<1>2. ASSUME NEW i \in 1..size
      PROVE  /\ Suspends(cells, objs, rest[i])
             /\ Pending(cells, rest[i]) = IF i = size THEN top.node ELSE rest[i + 1].node
  <2>1. /\ rest[i] = calls[i] /\ Suspends(cells, objs, calls[i]) /\ Pending(cells, calls[i]) = calls[i + 1].node
    BY <1>1 DEF Chained
  <2>2. CASE i = size
    BY <1>1, <2>1, <2>2
  <2>3. CASE i # size
    <3>1. i + 1 \in 1..size
      BY <2>3
    <3> QED
      BY <1>1, <2>1, <2>3, <3>1
  <2> QED
    BY <2>2, <2>3
<1>3. Chained(cells, objs, rest, top.node)
  BY <1>1, <1>2 DEF Chained
<1>4. Suspends(cells, objs, top) /\ Pending(cells, top) = node
  BY <1>1 DEF Chained
<1> QED
  BY <1>1, <1>3, <1>4

\* Contents stay as long as the block.
Keeps(objs, new) == \A id \in DOMAIN objs : id \in DOMAIN new => new[id] = objs[id]
Held(objs, calls) == \A i \in 1..Len(calls) : calls[i].held # <<>> => calls[i].held[1] \in DOMAIN objs
Known(objs, map)  == \A name \in DOMAIN map : map[name].value \in DOMAIN objs

\* What is owned is there.
LEMMA OwnedIsThere ==
  ASSUME NEW objs, NEW map, NEW calls, NEW hand, Owned(objs, map, calls, hand)
  PROVE  Held(objs, calls) /\ Known(objs, map)
BY DEF Owned, Held, Known

LEMMA HeldPopped ==
  ASSUME NEW objs, NEW calls \in Seq(EvaluatorFrame), calls # <<>>, Held(objs, calls)
  PROVE  Held(objs, SubSeq(calls, 1, Len(calls) - 1))
<1>1. PICK size \in Nat, rest \in Seq(EvaluatorFrame) :
         /\ Len(calls) = size + 1 /\ rest = SubSeq(calls, 1, Len(calls) - 1) /\ Len(rest) = size
         /\ \A i \in 1..size : rest[i] = calls[i]
         /\ \A i \in 1..size : i \in 1..size + 1 /\ i # size + 1
  BY PopCalls
<1> QED
  BY <1>1 DEF Held

\* What waits, and what was assigned, is not disturbed by blocks that come and go.
LEMMA ChainKept ==
  ASSUME NEW cells, NEW objs, NEW new, Keeps(objs, new), NEW calls, Held(objs, calls), Held(new, calls),
         NEW node, Chained(cells, objs, calls, node)
  PROVE  Chained(cells, new, calls, node)
BY DEF Chained, Suspends, Held, Keeps

LEMMA AssignedKept ==
  ASSUME NEW cells, NEW objs, NEW new, Keeps(objs, new), NEW map, Known(objs, map), Known(new, map),
         NEW n, Assigned(cells, map, objs, n)
  PROVE  Assigned(cells, map, new, n)
BY DEF Assigned, Known, Keeps

LEMMA AssignedFurther ==
  ASSUME NEW cells, NEW map, NEW objs, NEW from \in Int, NEW n \in Int, Assigned(cells, map, objs, from),
         \A a \in from + 1 .. n : ~IsAssignment(cells, a)
  PROVE  Assigned(cells, map, objs, n)
<1>1. \A a \in 1..n : a \in 1..from \/ a \in from + 1 .. n
  OBVIOUS
<1> QED
  BY <1>1 DEF Assigned

--------------------------------------------------------------------------------
(* The steps of the evaluator.                                                  *)

EvaluationInv ==
    /\ heap \in Seq(Cell) /\ Typed(heap) /\ Values
    /\ Owned(objects, variables, evaluator_stack, evaluator.value) /\ EvaluatorInv

\* A call that suspends itself to evaluate its first kid.
LEMMA EvaluateKid ==
  ASSUME EvaluationInv, evaluator.fn = "evaluate", NEW n, n = evaluator.node,
         heap[n].cell \in { "UNARY", "BINARY", "ASSIGNMENT" },
         NEW frame, frame = [ node |-> n, held |-> <<>> ],
         NEW kid, kid = Pending(heap, frame), Builds(heap, kid),
         \A first : Ordered(heap, first) => first[kid] = first[n],
         evaluator_stack' = Append(evaluator_stack, frame), evaluator' = Evaluate(kid),
         UNCHANGED << objects, variables >>, TreeKept
  PROVE  EvaluationInv'
<1>1. /\ n \in Pointer /\ n \in 1..Len(heap) /\ evaluator_stack \in Seq(EvaluatorFrame)
      /\ Blocks(objects) /\ evaluator.value = Null
  BY DEF EvaluationInv, EvaluatorInv, Values, Builds, Pointer
<1>2. frame \in EvaluatorFrame /\ frame.node = n /\ frame.held = <<>>
  <2>1. <<>> \in Seq(Nat)
    OBVIOUS
  <2> QED
    BY <1>1, <2>1 DEF EvaluatorFrame
<1>3. evaluator' \in EvaluatorCall /\ evaluator'.fn = "evaluate" /\ evaluator'.node = kid /\ evaluator'.value = Null
  BY DEF Evaluate, EvaluatorCall, Builds, Null
<1>4. evaluator_stack' \in Seq(EvaluatorFrame)
  BY <1>1, <1>2, PushOne
<1>5. heap' = heap /\ objects' = objects /\ variables' = variables
  BY DEF TreeKept
<1>6. Values'
  BY <1>3, <1>4, <1>5 DEF EvaluationInv, Values, Blocks
<1>7. Owned(objects, variables, evaluator_stack', Null)
  BY <1>1, <1>2, OwnSuspended DEF EvaluationInv
<1>8. Suspends(heap, objects, frame)
  BY <1>1, <1>2 DEF Suspends
<1>9. Chained(heap, objects, evaluator_stack', kid)
  <2>1. Chained(heap, objects, evaluator_stack, n)
    BY DEF EvaluationInv, EvaluatorInv
  <2> QED
    BY <1>1, <1>2, <1>8, <2>1, ChainPush
<1>10. \E first : Ordered(heap, first) /\ Assigned(heap, variables, objects, Reached(first, evaluator'))
  <2>1. PICK first : Ordered(heap, first) /\ Assigned(heap, variables, objects, Reached(first, evaluator))
    BY DEF EvaluationInv, EvaluatorInv
  <2>2. Reached(first, evaluator') = Reached(first, evaluator)
    BY <1>3, <2>1 DEF Reached
  <2> QED
    BY <2>1, <2>2
<1>11. EvaluatorInv'
  BY <1>3, <1>5, <1>9, <1>10 DEF EvaluatorInv
<1> QED
  BY <1>3, <1>5, <1>6, <1>7, <1>11 DEF EvaluationInv

\* What a call that evaluates something is sure of.
LEMMA EvaluatingIs ==
  ASSUME EvaluationInv, NEW cell, Evaluating(cell)
  PROVE  /\ heap \in Seq(Cell) /\ Typed(heap) /\ evaluator.fn = "evaluate"
         /\ evaluator.node \in 1..Len(heap) /\ heap[evaluator.node].cell = cell
BY DEF EvaluationInv, EvaluatorInv, Evaluating, Builds

\* Operators and assignments evaluate a kid first, the assignment its right-hand side.
LEMMA EvaluateUnaryInv == EvaluationInv /\ EvaluateUnary => EvaluationInv'
<1> SUFFICES ASSUME EvaluationInv, EvaluateUnary PROVE EvaluationInv'
  OBVIOUS
<1>1. PICK n : n = evaluator.node
  OBVIOUS
<1>2. /\ heap \in Seq(Cell) /\ Typed(heap) /\ evaluator.fn = "evaluate" /\ n \in 1..Len(heap)
      /\ heap[n].cell = "UNARY"
  BY <1>1, EvaluatingIs DEF EvaluateUnary
<1>3. PICK kid : kid = heap[n].kids[1]
  OBVIOUS
<1>4. Builds(heap, kid)
  <2>1. PICK op \in UnaryOperators, operand \in 1..n - 1 : heap[n] = Unary(op, operand) /\ Builds(heap, operand)
    BY <1>2, TakeApart
  <2> QED
    BY <1>3, <2>1 DEF Unary
<1>5. \A first : Ordered(heap, first) => first[kid] = first[n]
  BY <1>2, <1>3 DEF Ordered, OrderedCell
<1>6. PICK frame : frame = [ node |-> n, held |-> <<>> ]
  OBVIOUS
<1>7. kid = Pending(heap, frame)
  BY <1>2, <1>3, <1>6 DEF Pending
<1>8. /\ evaluator_stack' = Append(evaluator_stack, frame) /\ evaluator' = Evaluate(kid)
      /\ UNCHANGED << objects, variables >> /\ TreeKept
  BY <1>1, <1>3, <1>6 DEF EvaluateUnary, Suspended
<1> QED
  BY <1>1, <1>2, <1>4, <1>5, <1>6, <1>7, <1>8, EvaluateKid

LEMMA EvaluateBinaryInv == EvaluationInv /\ EvaluateBinary => EvaluationInv'
<1> SUFFICES ASSUME EvaluationInv, EvaluateBinary PROVE EvaluationInv'
  OBVIOUS
<1>1. PICK n : n = evaluator.node
  OBVIOUS
<1>2. /\ heap \in Seq(Cell) /\ Typed(heap) /\ evaluator.fn = "evaluate" /\ n \in 1..Len(heap)
      /\ heap[n].cell = "BINARY"
  BY <1>1, EvaluatingIs DEF EvaluateBinary
<1>3. PICK kid : kid = heap[n].kids[1]
  OBVIOUS
<1>4. Builds(heap, kid)
  <2>1. PICK op \in BinaryOperators, left \in 1..n - 1, right \in 1..n - 1 :
           heap[n] = Binary(op, left, right) /\ Builds(heap, left)
    BY <1>2, TakeApart
  <2> QED
    BY <1>3, <2>1 DEF Binary
<1>5. \A first : Ordered(heap, first) => first[kid] = first[n]
  BY <1>2, <1>3 DEF Ordered, OrderedCell
<1>6. PICK frame : frame = [ node |-> n, held |-> <<>> ]
  OBVIOUS
<1>7. kid = Pending(heap, frame)
  BY <1>2, <1>3, <1>6 DEF Pending
<1>8. /\ evaluator_stack' = Append(evaluator_stack, frame) /\ evaluator' = Evaluate(kid)
      /\ UNCHANGED << objects, variables >> /\ TreeKept
  BY <1>1, <1>3, <1>6 DEF EvaluateBinary, Suspended
<1> QED
  BY <1>1, <1>2, <1>4, <1>5, <1>6, <1>7, <1>8, EvaluateKid

LEMMA EvaluateAssignmentInv == EvaluationInv /\ EvaluateAssignment => EvaluationInv'
<1> SUFFICES ASSUME EvaluationInv, EvaluateAssignment PROVE EvaluationInv'
  OBVIOUS
<1>1. PICK n : n = evaluator.node
  OBVIOUS
<1>2. /\ heap \in Seq(Cell) /\ Typed(heap) /\ evaluator.fn = "evaluate" /\ n \in 1..Len(heap)
      /\ heap[n].cell = "ASSIGNMENT"
  BY <1>1, EvaluatingIs DEF EvaluateAssignment
<1>3. PICK kid : kid = heap[n].kids[2]
  OBVIOUS
<1>4. Builds(heap, kid)
  <2>1. PICK symbol \in 1..n - 1, expression \in 1..n - 1 :
           heap[n] = Assignment(symbol, expression, heap[expression].type) /\ Builds(heap, expression)
    BY <1>2, TakeApart
  <2> QED
    BY <1>3, <2>1 DEF Assignment
<1>5. \A first : Ordered(heap, first) => first[kid] = first[n]
  BY <1>2, <1>3 DEF Ordered, OrderedCell
<1>6. PICK frame : frame = [ node |-> n, held |-> <<>> ]
  OBVIOUS
<1>7. kid = Pending(heap, frame)
  BY <1>2, <1>3, <1>6 DEF Pending
<1>8. /\ evaluator_stack' = Append(evaluator_stack, frame) /\ evaluator' = Evaluate(kid)
      /\ UNCHANGED << objects, variables >> /\ TreeKept
  BY <1>1, <1>3, <1>6 DEF EvaluateAssignment, Suspended
<1> QED
  BY <1>1, <1>2, <1>4, <1>5, <1>6, <1>7, <1>8, EvaluateKid

\* A call that makes an Object and returns it.
LEMMA ReturnAllocated ==
  ASSUME EvaluationInv, evaluator.fn = "evaluate", NEW n, n = evaluator.node,
         NEW value \in Objects, value.type = heap[n].type,
         \A first : Ordered(heap, first) /\ Assigned(heap, variables, objects, first[n] - 1)
                       => Assigned(heap, variables, objects, n),
         objects' = Allocate(objects, value), evaluator' = Evaluated(n, Fresh(objects)),
         UNCHANGED << variables, evaluator_stack >>, TreeKept
  PROVE  EvaluationInv'
<1>1. PICK id \in Pointer : id = Fresh(objects) /\ id \notin DOMAIN objects
  BY FreshIsNew DEF EvaluationInv, Values
<1>2. /\ Blocks(objects') /\ DOMAIN objects' = DOMAIN objects \cup { id } /\ objects'[id] = value
      /\ Keeps(objects, objects')
  <2>1. Blocks(objects)
    BY DEF EvaluationInv, Values
  <2>2. /\ Blocks(objects') /\ DOMAIN objects' = DOMAIN objects \cup { id } /\ objects'[id] = value
        /\ \A other \in DOMAIN objects : objects'[other] = objects[other]
    BY <1>1, <2>1, AllocateBlock
  <2> QED
    BY <2>2 DEF Keeps
<1>3. /\ heap' = heap /\ variables' = variables /\ evaluator_stack' = evaluator_stack
  BY DEF TreeKept
<1>4. /\ evaluator' \in EvaluatorCall /\ evaluator'.fn = "return" /\ evaluator'.node = n /\ evaluator'.value = id
      /\ Builds(heap, n)
  BY <1>1 DEF Evaluated, EvaluatorCall, EvaluationInv, EvaluatorInv, Builds, Pointer
<1>5. Owned(objects', variables, evaluator_stack, id)
  BY <1>1, OwnAllocated DEF EvaluationInv, EvaluatorInv, Values
<1>6. Values'
  BY <1>2, <1>3, <1>4 DEF EvaluationInv, Values, Blocks
<1>7. /\ Held(objects, evaluator_stack) /\ Known(objects, variables)
      /\ Held(objects', evaluator_stack) /\ Known(objects', variables)
  BY <1>5, OwnedIsThere DEF EvaluationInv
<1>8. Chained(heap, objects', evaluator_stack, n)
  BY <1>2, <1>7, ChainKept DEF EvaluationInv, EvaluatorInv
<1>9. \E first : Ordered(heap, first) /\ Assigned(heap, variables, objects', Reached(first, evaluator'))
  <2>1. PICK first : Ordered(heap, first) /\ Assigned(heap, variables, objects, Reached(first, evaluator))
    BY DEF EvaluationInv, EvaluatorInv
  <2>2. Reached(first, evaluator) = first[n] - 1 /\ Reached(first, evaluator') = n
    BY <1>4 DEF Reached
  <2>3. Assigned(heap, variables, objects', n)
    BY <1>2, <1>7, <2>1, <2>2, AssignedKept
  <2> QED
    BY <2>1, <2>2, <2>3
<1>10. EvaluatorInv'
  BY <1>2, <1>3, <1>4, <1>8, <1>9 DEF EvaluatorInv
<1> QED
  BY <1>3, <1>4, <1>5, <1>6, <1>10 DEF EvaluationInv

\* A literal without a value was reported, so its copy is an Object.
LEMMA EvaluateLiteralInv == EvaluationInv /\ EvaluateLiteral => EvaluationInv'
<1> SUFFICES ASSUME EvaluationInv, EvaluateLiteral PROVE EvaluationInv'
  OBVIOUS
<1>1. PICK n : n = evaluator.node
  OBVIOUS
<1>2. /\ heap \in Seq(Cell) /\ Typed(heap) /\ evaluator.fn = "evaluate" /\ n \in 1..Len(heap)
      /\ heap[n].cell = "LITERAL"
  BY <1>1, EvaluatingIs DEF EvaluateLiteral
<1>3. PICK value \in Objects \cup { NullObject } : value = heap[n].value /\ value.type = heap[n].type
  BY <1>2, TakeApart
<1>4. \A first : Ordered(heap, first) => value # NullObject /\ first[n] = n
  BY <1>2, <1>3 DEF Ordered, OrderedCell
<1>5. value \in Objects
  BY <1>3, <1>4 DEF EvaluationInv, EvaluatorInv
<1>6. value.type # "NULL"
  BY <1>5 DEF Objects, Int64s, Bools, Int64, Bool
<1>7. /\ objects' = Allocate(objects, value) /\ evaluator' = Evaluated(n, Fresh(objects))
      /\ UNCHANGED << variables, evaluator_stack >> /\ TreeKept
  BY <1>1, <1>3, <1>6 DEF EvaluateLiteral
<1>8. ASSUME NEW first, Ordered(heap, first), Assigned(heap, variables, objects, first[n] - 1)
      PROVE  Assigned(heap, variables, objects, n)
  <2>1. Assigned(heap, variables, objects, n - 1)
    BY <1>4, <1>8
  <2>2. \A a \in n - 1 + 1 .. n : ~IsAssignment(heap, a)
    BY <1>2 DEF IsAssignment
  <2> QED
    BY <1>2, <2>1, <2>2, AssignedFurther
<1> QED
  BY <1>1, <1>2, <1>3, <1>5, <1>7, <1>8, ReturnAllocated

\* A variable was assigned in this submission: what it has is no leftover of another type.
LEMMA EvaluateVariableInv == EvaluationInv /\ EvaluateVariable => EvaluationInv'
<1> SUFFICES ASSUME EvaluationInv, EvaluateVariable PROVE EvaluationInv'
  OBVIOUS
<1>1. PICK n : n = evaluator.node
  OBVIOUS
<1>2. /\ heap \in Seq(Cell) /\ Typed(heap) /\ evaluator.fn = "evaluate" /\ n \in 1..Len(heap)
      /\ heap[n].cell = "VARIABLE"
  BY <1>1, EvaluatingIs DEF EvaluateVariable
<1>3. PICK first : Ordered(heap, first) /\ Assigned(heap, variables, objects, first[n] - 1)
  BY <1>1, <1>2 DEF EvaluationInv, EvaluatorInv, Reached
<1>4. /\ heap[n].kids = << n - 1 >> /\ \A other : Ordered(heap, other) => other[n] = n - 1
      /\ \E a \in 1..n - 2 : /\ IsAssignment(heap, a) /\ NameAt(heap, a) = NameAt(heap, n)
                             /\ heap[a].type = heap[n].type
  BY <1>2, <1>3 DEF Ordered, OrderedCell
<1>5. PICK a \in 1..n - 2 : /\ IsAssignment(heap, a) /\ NameAt(heap, a) = NameAt(heap, n)
                            /\ heap[a].type = heap[n].type
  BY <1>4
<1>6. PICK name : name = NameAt(heap, n)
  OBVIOUS
<1>7. name \in DOMAIN variables /\ objects[variables[name].value].type = heap[n].type
  <2>1. first[n] - 1 = n - 2
    BY <1>2, <1>3, <1>4
  <2>2. NameAt(heap, a) \in DOMAIN variables /\ objects[variables[NameAt(heap, a)].value].type = heap[a].type
    BY <1>3, <1>5, <2>1 DEF Assigned
  <2> QED
    BY <1>5, <1>6, <2>2
<1>8. PICK id : id = variables[name].value
  OBVIOUS
<1>9. id \in DOMAIN objects /\ id # Null
  BY <1>7, <1>8 DEF EvaluationInv, EvaluatorInv, Owned, Values, Blocks, Pointer, Null
<1>10. PICK value \in Objects : value = objects[id] /\ value.type = heap[n].type
  BY <1>7, <1>8, <1>9 DEF EvaluationInv, Values, Blocks
<1>11. Get(NameOf(n)) = id
  BY <1>6, <1>7, <1>8 DEF Get, NameOf, NameAt
<1>12. /\ objects' = Allocate(objects, value) /\ evaluator' = Evaluated(n, Fresh(objects))
       /\ UNCHANGED << variables, evaluator_stack >> /\ TreeKept
  BY <1>1, <1>9, <1>10, <1>11 DEF EvaluateVariable, DupId, DupIn
<1>13. ASSUME NEW other, Ordered(heap, other), Assigned(heap, variables, objects, other[n] - 1)
       PROVE  Assigned(heap, variables, objects, n)
  <2>1. Assigned(heap, variables, objects, n - 2)
    <3>1. other[n] - 1 = n - 2
      BY <1>2, <1>4, <1>13
    <3> QED
      BY <1>13, <3>1
  <2>2. \A b \in n - 2 + 1 .. n : b = n - 1 \/ b = n
    BY <1>2
  <2>3. IsSymbol(heap, n - 1)
    <3>1. PICK symbol \in 1..n - 1, type \in ObjectTypes : heap[n] = Variable(symbol, type) /\ IsSymbol(heap, symbol)
      BY <1>2, TakeApart
    <3>2. symbol = n - 1
      BY <1>4, <3>1 DEF Variable
    <3> QED
      BY <3>1, <3>2
  <2>4. \A b \in n - 2 + 1 .. n : ~IsAssignment(heap, b)
    BY <1>2, <2>2, <2>3 DEF IsAssignment, IsSymbol
  <2>5. n \in Int /\ n - 2 \in Int
    BY <1>2
  <2> QED
    BY <2>1, <2>4, <2>5, AssignedFurther
<1> QED
  BY <1>1, <1>2, <1>10, <1>12, <1>13, ReturnAllocated

\* What a call that returns to one that waits is sure of.
LEMMA ReturningTop ==
  ASSUME EvaluationInv, NEW cell, NEW held, EvaluatorReturning(cell, held)
  PROVE  /\ heap \in Seq(Cell) /\ Typed(heap) /\ evaluator.fn = "return" /\ Blocks(objects)
         /\ evaluator_stack \in Seq(EvaluatorFrame) /\ evaluator_stack # <<>>
         /\ EvaluatorPop \in Seq(EvaluatorFrame) /\ EvaluatorTop \in EvaluatorFrame
         /\ EvaluatorTop.node \in 1..Len(heap) /\ EvaluatorTop.node \in Pointer
         /\ heap[EvaluatorTop.node].cell = cell /\ Len(EvaluatorTop.held) = held
         /\ Suspends(heap, objects, EvaluatorTop) /\ Pending(heap, EvaluatorTop) = evaluator.node
         /\ Chained(heap, objects, EvaluatorPop, EvaluatorTop.node) /\ Held(objects, EvaluatorPop)
         /\ Owned(objects, variables, evaluator_stack, evaluator.value)
         /\ evaluator.value \in DOMAIN objects /\ evaluator.value \in Pointer
         /\ objects[evaluator.value] \in Objects /\ objects[evaluator.value].type = heap[evaluator.node].type
<1>1. /\ heap \in Seq(Cell) /\ Typed(heap) /\ evaluator.fn = "return" /\ Blocks(objects)
      /\ evaluator_stack \in Seq(EvaluatorFrame) /\ evaluator_stack # <<>>
      /\ heap[EvaluatorTop.node].cell = cell /\ Len(EvaluatorTop.held) = held
      /\ Owned(objects, variables, evaluator_stack, evaluator.value)
      /\ evaluator.value \in DOMAIN objects /\ objects[evaluator.value].type = heap[evaluator.node].type
      /\ Chained(heap, objects, evaluator_stack, evaluator.node)
  BY DEF EvaluationInv, EvaluatorInv, EvaluatorReturning, Values
<1>2. /\ EvaluatorTop \in EvaluatorFrame /\ Suspends(heap, objects, EvaluatorTop)
      /\ Pending(heap, EvaluatorTop) = evaluator.node
      /\ Chained(heap, objects, EvaluatorPop, EvaluatorTop.node)
  BY <1>1, ChainPop DEF EvaluatorTop, EvaluatorPop
<1>3. EvaluatorPop \in Seq(EvaluatorFrame)
  BY <1>1, PopOne DEF EvaluatorPop
<1>4. Held(objects, EvaluatorPop)
  BY <1>1, OwnedIsThere, HeldPopped DEF EvaluatorPop
<1>5. EvaluatorTop.node \in 1..Len(heap) /\ EvaluatorTop.node \in Pointer
  BY <1>2 DEF Suspends, Pointer
<1>6. evaluator.value \in Pointer /\ objects[evaluator.value] \in Objects
  BY <1>1 DEF Blocks
<1> QED
  BY <1>1, <1>2, <1>3, <1>4, <1>5, <1>6

\* A call that waited returns in its turn.
LEMMA ReturnsTo ==
  ASSUME EvaluationInv, NEW n, Builds(heap, n), NEW id \in Pointer, id \in DOMAIN objects',
         Blocks(objects'), objects'[id].type = heap[n].type,
         DOMAIN variables' \subseteq Name,
         \A name \in DOMAIN variables' : variables'[name] \in [ type : ObjectTypes, value : Nat ],
         NEW calls \in Seq(EvaluatorFrame), Owned(objects', variables', calls, id),
         Chained(heap, objects', calls, n),
         \E first : Ordered(heap, first) /\ Assigned(heap, variables', objects', n),
         evaluator' = Evaluated(n, id), evaluator_stack' = calls, heap' = heap
  PROVE  EvaluationInv'
<1>1. /\ evaluator' \in EvaluatorCall /\ evaluator'.fn = "return" /\ evaluator'.node = n /\ evaluator'.value = id
  BY DEF Evaluated, EvaluatorCall, Builds, Pointer
<1>2. Values'
  BY <1>1 DEF Values, Blocks
<1>3. \A first : Reached(first, evaluator') = n
  BY <1>1 DEF Reached
<1>4. EvaluatorInv'
  BY <1>1, <1>3 DEF EvaluatorInv
<1> QED
  BY <1>1, <1>2, <1>4 DEF EvaluationInv

\* What an operator computes has the type its table entry promises.
LEMMA UnaryComputes ==
  ASSUME NEW op \in UnaryOperators, NEW value \in Objects, value.type = op.operand_type
  PROVE  /\ UnaryOperandType(op.kind) = op.operand_type
         /\ op.kind = "IDENTITY" => op.result_type = op.operand_type
         /\ op.kind # "IDENTITY" =>
               UnaryResult(op.kind, value) \in Objects /\ UnaryResult(op.kind, value).type = op.result_type
<1>1. CASE op = UnaryOperator("PLUS_TOKEN",  "IDENTITY", "INT64")
  BY <1>1 DEF UnaryOperator, UnaryOperandType
<1>2. CASE op = UnaryOperator("MINUS_TOKEN", "NEGATION", "INT64")
  <2>1. op.kind = "NEGATION" /\ op.operand_type = "INT64" /\ op.result_type = "INT64"
    BY <1>2 DEF UnaryOperator
  <2>2. PICK i \in Int : value = Int64(i)
    BY <2>1 DEF Objects, Int64s, Bools, Int64, Bool, Ints, MinInt, MaxInt
  <2>3. UnaryResult(op.kind, value) = Int64(Wrap(-i))
    BY <2>1, <2>2 DEF UnaryResult, Int64
  <2>4. Int64(Wrap(-i)) \in Objects /\ Int64(Wrap(-i)).type = "INT64"
    <3>1. -i \in Int
      OBVIOUS
    <3> QED
      BY <3>1, WrapIsInRange DEF Int64
  <2> QED
    BY <2>1, <2>3, <2>4 DEF UnaryOperandType
<1>3. CASE op = UnaryOperator("BANG_TOKEN", "LOGICAL_NEGATION", "BOOL")
  <2>1. op.kind = "LOGICAL_NEGATION" /\ op.operand_type = "BOOL" /\ op.result_type = "BOOL"
    BY <1>3 DEF UnaryOperator
  <2>2. UnaryResult(op.kind, value) = Bool(~value.bool)
    BY <2>1 DEF UnaryResult
  <2>3. Bool(~value.bool) \in Objects /\ Bool(~value.bool).type = "BOOL"
    BY DEF Objects, Bools, Bool
  <2> QED
    BY <2>1, <2>2, <2>3 DEF UnaryOperandType
<1> QED
  BY <1>1, <1>2, <1>3 DEF UnaryOperators

\* An Object of type INT64 is its integer.
LEMMA IntegerObject ==
  ASSUME NEW value \in Objects, value.type = "INT64"
  PROVE  value.i64 \in Ints /\ value.i64 \in Int /\ value = Int64(value.i64)
BY DEF Objects, Int64s, Bools, Int64, Bool, Ints

LEMMA BinaryComputes ==
  ASSUME NEW op \in BinaryOperators, NEW left \in Objects, NEW right \in Objects,
         left.type = op.operand_type, right.type = op.operand_type
  PROVE  /\ BinaryOperandType(op.kind, left) = op.operand_type
         /\ ~(op.kind = "DIVISION" /\ DivisionTraps(left.i64, right.i64)) =>
               /\ BinaryResult(op.kind, left, right) \in Objects
               /\ BinaryResult(op.kind, left, right).type = op.result_type
<1>1. CASE op.kind \in { "ADDITION", "SUBTRACTION", "MULTIPLICATION" }
  <2>1. op.operand_type = "INT64" /\ op.result_type = "INT64"
    BY <1>1 DEF BinaryOperators, BinaryOperator
  <2>2. PICK l \in Int, r \in Int : l = left.i64 /\ r = right.i64
    BY <2>1, IntegerObject
  <2>3. l + r \in Int /\ l - r \in Int /\ l * r \in Int
    OBVIOUS
  <2>4. BinaryResult(op.kind, left, right) \in { Int64(Wrap(l + r)), Int64(Wrap(l - r)), Int64(Wrap(l * r)) }
    BY <1>1, <2>2 DEF BinaryResult
  <2>5. \A i \in Int : Int64(Wrap(i)) \in Objects /\ Int64(Wrap(i)).type = "INT64"
    BY WrapIsInRange DEF Int64
  <2> QED
    BY <1>1, <2>1, <2>3, <2>4, <2>5 DEF BinaryOperandType
<1>2. CASE op.kind = "DIVISION"
  <2>1. op.operand_type = "INT64" /\ op.result_type = "INT64"
    BY <1>2 DEF BinaryOperators, BinaryOperator
  <2>2. PICK l \in Ints, r \in Ints : l = left.i64 /\ r = right.i64
    BY <2>1, IntegerObject
  <2>3. BinaryResult(op.kind, left, right) = Int64(Quotient(l, r))
    BY <1>2, <2>2 DEF BinaryResult
  <2>4. ~DivisionTraps(l, r) => Int64(Quotient(l, r)) \in Objects /\ Int64(Quotient(l, r)).type = "INT64"
    BY QuotientIsInRange DEF Int64
  <2> QED
    BY <1>2, <2>1, <2>2, <2>3, <2>4 DEF BinaryOperandType
<1>3. CASE op.kind \in { "LOGICAL_AND", "LOGICAL_OR", "EQUALITY", "INEQUALITY" }
  <2>1. /\ op.kind \in { "LOGICAL_AND", "LOGICAL_OR" } => op.operand_type = "BOOL"
        /\ op.result_type = "BOOL"
    BY <1>3 DEF BinaryOperators, BinaryOperator
  <2>2. \E b \in BOOLEAN : BinaryResult(op.kind, left, right) = Bool(b)
    <3>1. /\ (left.bool /\ right.bool) \in BOOLEAN /\ (left.bool \/ right.bool) \in BOOLEAN
          /\ (left = right) \in BOOLEAN /\ (left # right) \in BOOLEAN
      OBVIOUS
    <3>2. CASE op.kind = "LOGICAL_AND"
      <4>1. BinaryResult(op.kind, left, right) = Bool(left.bool /\ right.bool)
        BY <3>2 DEF BinaryResult
      <4> QED
        BY <3>1, <4>1
    <3>3. CASE op.kind = "LOGICAL_OR"
      <4>1. BinaryResult(op.kind, left, right) = Bool(left.bool \/ right.bool)
        BY <3>3 DEF BinaryResult
      <4> QED
        BY <3>1, <4>1
    <3>4. CASE op.kind = "EQUALITY"
      <4>1. BinaryResult(op.kind, left, right) = Bool(left = right)
        BY <3>4 DEF BinaryResult
      <4> QED
        BY <3>1, <4>1
    <3>5. CASE op.kind = "INEQUALITY"
      <4>1. BinaryResult(op.kind, left, right) = Bool(left # right)
        BY <3>5 DEF BinaryResult
      <4> QED
        BY <3>1, <4>1
    <3> QED
      BY <1>3, <3>2, <3>3, <3>4, <3>5
  <2>3. \A b \in BOOLEAN : Bool(b) \in Objects /\ Bool(b).type = "BOOL"
    BY DEF Objects, Bools, Bool
  <2>4. BinaryOperandType(op.kind, left) = op.operand_type
    BY <1>3, <2>1 DEF BinaryOperandType
  <2> QED
    BY <2>1, <2>2, <2>3, <2>4
<1> QED
  BY <1>1, <1>2, <1>3 DEF BinaryOperators, BinaryOperator

\* The operand in hand is unwrapped, and the result, perhaps in its block, is returned.
LEMMA ReplaceBlocks ==
  ASSUME NEW cells, NEW objs, Blocks(objs), NEW map, NEW calls, NEW hand, Owned(objs, map, calls, hand),
         NEW n, Chained(cells, objs, calls, n), NEW m, Assigned(cells, map, objs, m),
         NEW value \in Objects
  PROVE  \E rest, new :
            /\ rest = Release(objs, { hand }) /\ new = Allocate(rest, value)
            /\ Blocks(new) /\ Owned(new, map, calls, Fresh(rest))
            /\ Chained(cells, new, calls, n) /\ Assigned(cells, map, new, m)
            /\ Fresh(rest) \in Pointer /\ Fresh(rest) \in DOMAIN new /\ new[Fresh(rest)] = value
<1>1. PICK rest, new : rest = Release(objs, { hand }) /\ new = Allocate(rest, value)
  OBVIOUS
<1>2. Blocks(rest) /\ DOMAIN rest = DOMAIN objs \ { hand } /\ Keeps(objs, rest)
  BY <1>1, ReleaseBlocks DEF Keeps
<1>3. Owned(rest, map, calls, Null)
  BY <1>1, OwnReleased
<1>4. /\ Held(objs, calls) /\ Known(objs, map) /\ Held(rest, calls) /\ Known(rest, map)
  BY <1>3, OwnedIsThere
<1>5. Chained(cells, rest, calls, n) /\ Assigned(cells, map, rest, m)
  BY <1>2, <1>4, ChainKept, AssignedKept
<1>6. Fresh(rest) \in Pointer
  BY <1>2, FreshIsNew
<1>7. /\ Blocks(new) /\ DOMAIN new = DOMAIN rest \cup { Fresh(rest) } /\ new[Fresh(rest)] = value
      /\ \A id \in DOMAIN rest : new[id] = rest[id]
  BY <1>1, <1>2, AllocateBlock
<1>8. Owned(new, map, calls, Fresh(rest))
  BY <1>1, <1>2, <1>3, OwnAllocated
<1>9. Held(new, calls) /\ Known(new, map) /\ Keeps(rest, new)
  BY <1>7, <1>8, OwnedIsThere DEF Keeps
<1>10. Chained(cells, new, calls, n) /\ Assigned(cells, map, new, m)
  BY <1>4, <1>5, <1>9, ChainKept, AssignedKept
<1> QED
  BY <1>1, <1>6, <1>7, <1>8, <1>10

\* The operand is unwrapped as what it is.
LEMMA ReturnFromUnaryInv == EvaluationInv /\ ReturnFromUnary => EvaluationInv'
<1> SUFFICES ASSUME EvaluationInv, ReturnFromUnary PROVE EvaluationInv'
  OBVIOUS
<1>1. PICK n, hand, calls : n = EvaluatorTop.node /\ hand = evaluator.value /\ calls = EvaluatorPop
  OBVIOUS
<1>2. /\ heap \in Seq(Cell) /\ Typed(heap) /\ evaluator.fn = "return" /\ Blocks(objects)
      /\ evaluator_stack \in Seq(EvaluatorFrame) /\ evaluator_stack # <<>>
      /\ calls \in Seq(EvaluatorFrame) /\ EvaluatorTop \in EvaluatorFrame
      /\ n \in 1..Len(heap) /\ heap[n].cell = "UNARY" /\ Len(EvaluatorTop.held) = 0
      /\ Pending(heap, EvaluatorTop) = evaluator.node
      /\ Chained(heap, objects, calls, n)
      /\ Owned(objects, variables, evaluator_stack, hand)
      /\ hand \in DOMAIN objects /\ hand \in Pointer
      /\ objects[hand] \in Objects /\ objects[hand].type = heap[evaluator.node].type
  BY <1>1, ReturningTop DEF ReturnFromUnary
<1>3. EvaluatorTop.held = <<>>
  BY <1>2, EmptySeq DEF EvaluatorFrame
<1>4. PICK op \in UnaryOperators, operand \in 1..n - 1 :
         heap[n] = Unary(op, operand) /\ heap[operand].type = op.operand_type
  BY <1>2, TakeApart
<1>5. /\ heap[n].kids[1] = operand /\ heap[n].kids = << operand >> /\ heap[n].op = op.kind /\ heap[n].type = op.result_type
      /\ Builds(heap, n)
  BY <1>2, <1>4 DEF Unary, Builds
<1>6. evaluator.node = operand
  BY <1>1, <1>2, <1>5 DEF Pending
<1>7. PICK first : Ordered(heap, first) /\ Assigned(heap, variables, objects, n)
  <2>1. PICK first : Ordered(heap, first) /\ Assigned(heap, variables, objects, Reached(first, evaluator))
    BY DEF EvaluationInv, EvaluatorInv
  <2>2. operand = n - 1
    BY <1>2, <1>5, <2>1 DEF Ordered, OrderedCell
  <2>3. Assigned(heap, variables, objects, n - 1)
    BY <1>2, <1>6, <2>1, <2>2 DEF Reached
  <2>4. \A a \in n - 1 + 1 .. n : ~IsAssignment(heap, a)
    BY <1>2 DEF IsAssignment
  <2> QED
    BY <1>2, <2>1, <2>3, <2>4, AssignedFurther
<1>8. Owned(objects, variables, calls, hand)
  BY <1>1, <1>2, <1>3, OwnPopped DEF EvaluatorPop, EvaluatorTop
<1>9. /\ UnaryOperandType(op.kind) = op.operand_type
      /\ op.kind = "IDENTITY" => op.result_type = op.operand_type
      /\ op.kind # "IDENTITY" =>
            UnaryResult(op.kind, objects[hand]) \in Objects /\ UnaryResult(op.kind, objects[hand]).type = op.result_type
  BY <1>2, <1>4, <1>6, UnaryComputes
<1>10. /\ evaluator_stack' = calls /\ variables' = variables /\ heap' = heap
  BY <1>1 DEF ReturnFromUnary, TreeKept
<1>11. /\ DOMAIN variables' \subseteq Name
       /\ \A name \in DOMAIN variables' : variables'[name] \in [ type : ObjectTypes, value : Nat ]
  BY <1>10 DEF EvaluationInv, Values
<1>12. CASE op.kind = "IDENTITY"
  <2>1. evaluator' = Evaluated(n, hand) /\ objects' = objects
    BY <1>1, <1>5, <1>12 DEF ReturnFromUnary
  <2>2. objects'[hand].type = heap[n].type
    BY <1>2, <1>4, <1>5, <1>6, <1>9, <1>12, <2>1
  <2> QED
    BY <1>2, <1>5, <1>7, <1>8, <1>10, <1>11, <2>1, <2>2, ReturnsTo
<1>13. CASE op.kind # "IDENTITY"
  <2>1. Holds(hand, UnaryOperandType(op.kind))
    BY <1>2, <1>4, <1>6, <1>9 DEF Holds
  <2>2. PICK value \in Objects : value = UnaryResult(op.kind, objects[hand]) /\ value.type = heap[n].type
    BY <1>5, <1>9, <1>13
  <2>3. Replace({ hand }, value)
    BY <1>1, <1>5, <1>13, <2>1, <2>2 DEF ReturnFromUnary
  <2>4. PICK rest : rest = Release(objects, { hand })
    OBVIOUS
  <2>5. objects' = Allocate(rest, value) /\ evaluator' = Evaluated(n, Fresh(rest))
    BY <1>1, <2>3, <2>4 DEF Replace
  <2>6. /\ Blocks(objects') /\ Owned(objects', variables, calls, Fresh(rest))
        /\ Chained(heap, objects', calls, n) /\ Assigned(heap, variables, objects', n)
        /\ Fresh(rest) \in Pointer /\ Fresh(rest) \in DOMAIN objects' /\ objects'[Fresh(rest)] = value
    <3>1. /\ Blocks(objects) /\ Owned(objects, variables, calls, hand)
          /\ Chained(heap, objects, calls, n) /\ Assigned(heap, variables, objects, n)
      BY <1>2, <1>7, <1>8
    <3>2. PICK less, new :
             /\ less = Release(objects, { hand }) /\ new = Allocate(less, value)
             /\ Blocks(new) /\ Owned(new, variables, calls, Fresh(less))
             /\ Chained(heap, new, calls, n) /\ Assigned(heap, variables, new, n)
             /\ Fresh(less) \in Pointer /\ Fresh(less) \in DOMAIN new /\ new[Fresh(less)] = value
      BY <3>1, ReplaceBlocks
    <3> QED
      BY <2>4, <2>5, <3>2
  <2> QED
    BY <1>2, <1>5, <1>7, <1>10, <1>11, <2>2, <2>5, <2>6, ReturnsTo
<1> QED
  BY <1>12, <1>13

\* The left operand changes hands, from the evaluator to the call that waits.
LEMMA ReturnFromLeftInv == EvaluationInv /\ ReturnFromLeft => EvaluationInv'
<1> SUFFICES ASSUME EvaluationInv, ReturnFromLeft PROVE EvaluationInv'
  OBVIOUS
<1>1. PICK n, hand, calls : n = EvaluatorTop.node /\ hand = evaluator.value /\ calls = EvaluatorPop
  OBVIOUS
<1>2. /\ heap \in Seq(Cell) /\ Typed(heap) /\ evaluator.fn = "return" /\ Blocks(objects)
      /\ evaluator_stack \in Seq(EvaluatorFrame) /\ evaluator_stack # <<>>
      /\ calls \in Seq(EvaluatorFrame) /\ EvaluatorTop \in EvaluatorFrame
      /\ n \in 1..Len(heap) /\ n \in Pointer /\ heap[n].cell = "BINARY" /\ Len(EvaluatorTop.held) = 0
      /\ Pending(heap, EvaluatorTop) = evaluator.node
      /\ Chained(heap, objects, calls, n)
      /\ Owned(objects, variables, evaluator_stack, hand)
      /\ hand \in DOMAIN objects /\ hand \in Pointer
      /\ objects[hand].type = heap[evaluator.node].type
  BY <1>1, ReturningTop DEF ReturnFromLeft
<1>3. EvaluatorTop.held = <<>>
  BY <1>2, EmptySeq DEF EvaluatorFrame
<1>4. PICK op \in BinaryOperators, left \in 1..n - 1, right \in 1..n - 1 :
         heap[n] = Binary(op, left, right) /\ Builds(heap, right)
  <2>1. heap \in Seq(Cell) /\ Typed(heap) /\ n \in 1..Len(heap) /\ heap[n].cell = "BINARY"
    BY <1>2
  <2> QED
    BY <2>1, TakeApart
<1>5. heap[n].kids[1] = left /\ heap[n].kids[2] = right
  BY <1>4 DEF Binary
<1>6. evaluator.node = left
  BY <1>1, <1>2, <1>3, <1>5 DEF Pending
<1>7. PICK frame : frame = [ node |-> n, held |-> << hand >> ]
  OBVIOUS
<1>8. frame \in EvaluatorFrame /\ frame.node = n /\ frame.held = << hand >> /\ frame.held # <<>> /\ frame.held[1] = hand
  <2>1. << hand >> \in Seq(Nat)
    BY <1>2 DEF Pointer
  <2> QED
    BY <1>2, <1>7, <2>1 DEF EvaluatorFrame
<1>9. /\ evaluator_stack' = Append(calls, frame) /\ evaluator' = Evaluate(right)
      /\ objects' = objects /\ variables' = variables /\ heap' = heap
  BY <1>1, <1>5, <1>7 DEF ReturnFromLeft, TreeKept
<1>10. /\ evaluator' \in EvaluatorCall /\ evaluator'.fn = "evaluate" /\ evaluator'.node = right /\ evaluator'.value = Null
  BY <1>4, <1>9 DEF Evaluate, EvaluatorCall, Null
<1>11. evaluator_stack' \in Seq(EvaluatorFrame)
  BY <1>2, <1>8, <1>9, PushOne
<1>12. Values'
  BY <1>9, <1>10, <1>11 DEF EvaluationInv, Values, Blocks
<1>13. Owned(objects, variables, calls, hand)
  BY <1>1, <1>2, <1>3, OwnPopped DEF EvaluatorPop, EvaluatorTop
<1>14. Owned(objects, variables, evaluator_stack', Null)
  BY <1>2, <1>8, <1>9, <1>13, OwnHeld
<1>15. Suspends(heap, objects, frame)
  BY <1>2, <1>5, <1>6, <1>8 DEF Suspends
<1>16. Pending(heap, frame) = right
  BY <1>2, <1>5, <1>8 DEF Pending
<1>17. Chained(heap, objects, evaluator_stack', right)
  BY <1>2, <1>8, <1>9, <1>15, <1>16, ChainPush
<1>18. \E first : Ordered(heap, first) /\ Assigned(heap, variables, objects, Reached(first, evaluator'))
  <2>1. PICK first : Ordered(heap, first) /\ Assigned(heap, variables, objects, Reached(first, evaluator))
    BY DEF EvaluationInv, EvaluatorInv
  <2>2. right = n - 1 /\ first[n - 1] = left + 1
    BY <1>2, <1>5, <2>1 DEF Ordered, OrderedCell
  <2>3. Reached(first, evaluator) = left /\ Reached(first, evaluator') = left
    BY <1>2, <1>6, <1>10, <2>2 DEF Reached
  <2> QED
    BY <2>1, <2>3
<1>19. EvaluatorInv'
  BY <1>4, <1>9, <1>10, <1>17, <1>18 DEF EvaluatorInv
<1> QED
  BY <1>2, <1>9, <1>10, <1>12, <1>14, <1>19 DEF EvaluationInv

\* Both operands are unwrapped as what they are, and a division may trap.
LEMMA ReturnFromRightInv ==
  EvaluationInv /\ ReturnFromRight => EvaluationInv' \/ (Values' /\ evaluator'.fn = "trapped")
<1> SUFFICES ASSUME EvaluationInv, ReturnFromRight
             PROVE  EvaluationInv' \/ (Values' /\ evaluator'.fn = "trapped")
  OBVIOUS
<1>1. PICK n, hand, calls : n = EvaluatorTop.node /\ hand = evaluator.value /\ calls = EvaluatorPop
  OBVIOUS
<1>2. /\ heap \in Seq(Cell) /\ Typed(heap) /\ evaluator.fn = "return" /\ Blocks(objects)
      /\ evaluator_stack \in Seq(EvaluatorFrame) /\ evaluator_stack # <<>>
      /\ calls \in Seq(EvaluatorFrame) /\ EvaluatorTop \in EvaluatorFrame
      /\ n \in 1..Len(heap) /\ heap[n].cell = "BINARY" /\ Len(EvaluatorTop.held) = 1
      /\ Suspends(heap, objects, EvaluatorTop) /\ Pending(heap, EvaluatorTop) = evaluator.node
      /\ Chained(heap, objects, calls, n) /\ Held(objects, calls)
      /\ Owned(objects, variables, evaluator_stack, hand)
      /\ hand \in DOMAIN objects
      /\ objects[hand] \in Objects /\ objects[hand].type = heap[evaluator.node].type
  BY <1>1, ReturningTop DEF ReturnFromRight
<1>3. EvaluatorTop.held # <<>>
  <2>1. Len(EvaluatorTop.held) # 0
    BY <1>2
  <2>2. Len(<<>>) = 0
    OBVIOUS
  <2> QED
    BY <2>1, <2>2
<1>4. PICK op \in BinaryOperators, left \in 1..n - 1, right \in 1..n - 1 :
         /\ heap[n] = Binary(op, left, right)
         /\ heap[left].type = op.operand_type /\ heap[right].type = op.operand_type
  <2>1. heap \in Seq(Cell) /\ Typed(heap) /\ n \in 1..Len(heap) /\ heap[n].cell = "BINARY"
    BY <1>2
  <2> QED
    BY <2>1, TakeApart
<1>5. /\ heap[n].kids[1] = left /\ heap[n].kids[2] = right /\ heap[n].op = op.kind
      /\ heap[n].type = op.result_type /\ Builds(heap, n)
  BY <1>2, <1>4 DEF Binary, Builds
<1>6. evaluator.node = right
  BY <1>1, <1>2, <1>3, <1>5 DEF Pending
<1>7. PICK first : Ordered(heap, first) /\ Assigned(heap, variables, objects, n)
  <2>1. PICK first : Ordered(heap, first) /\ Assigned(heap, variables, objects, Reached(first, evaluator))
    BY DEF EvaluationInv, EvaluatorInv
  <2>2. right = n - 1
    BY <1>2, <1>5, <2>1 DEF Ordered, OrderedCell
  <2>3. Assigned(heap, variables, objects, n - 1)
    BY <1>2, <1>6, <2>1, <2>2 DEF Reached
  <2>4. \A a \in n - 1 + 1 .. n : ~IsAssignment(heap, a)
    BY <1>2 DEF IsAssignment
  <2> QED
    BY <1>2, <2>1, <2>3, <2>4, AssignedFurther
<1>8. PICK operand : operand = EvaluatorTop.held[1]
  OBVIOUS
<1>9. PICK fewer : fewer = Release(objects, { operand })
  OBVIOUS
<1>10. operand \in DOMAIN objects /\ operand # hand /\ Owned(fewer, variables, calls, hand)
  BY <1>1, <1>2, <1>3, <1>8, <1>9, OwnFreed DEF EvaluatorTop, EvaluatorPop
<1>11. objects[operand] \in Objects /\ objects[operand].type = op.operand_type
  BY <1>1, <1>2, <1>3, <1>4, <1>5, <1>8, <1>10 DEF Suspends, Blocks
<1>12. objects[hand].type = op.operand_type
  BY <1>2, <1>4, <1>6
<1>13. /\ BinaryOperandType(op.kind, objects[operand]) = op.operand_type
       /\ ~(op.kind = "DIVISION" /\ DivisionTraps(objects[operand].i64, objects[hand].i64)) =>
             /\ BinaryResult(op.kind, objects[operand], objects[hand]) \in Objects
             /\ BinaryResult(op.kind, objects[operand], objects[hand]).type = op.result_type
  BY <1>2, <1>11, <1>12, BinaryComputes
<1>14. /\ operand \in DOMAIN objects /\ Holds(operand, BinaryOperandType(op.kind, objects[operand]))
       /\ Holds(hand, BinaryOperandType(op.kind, objects[operand]))
  BY <1>2, <1>10, <1>11, <1>12, <1>13 DEF Holds
<1>15. /\ evaluator_stack' = calls /\ variables' = variables /\ heap' = heap
  BY <1>1 DEF ReturnFromRight, TreeKept
<1>16. IF op.kind = "DIVISION" /\ DivisionTraps(objects[operand].i64, objects[hand].i64)
       THEN evaluator' = Stopped("trapped") /\ UNCHANGED objects
       ELSE Replace({ operand, hand }, BinaryResult(op.kind, objects[operand], objects[hand]))
  BY <1>1, <1>5, <1>8, <1>14 DEF ReturnFromRight
<1>17. /\ DOMAIN variables' \subseteq Name
       /\ \A name \in DOMAIN variables' : variables'[name] \in [ type : ObjectTypes, value : Nat ]
  BY <1>15 DEF EvaluationInv, Values
<1>18. CASE op.kind = "DIVISION" /\ DivisionTraps(objects[operand].i64, objects[hand].i64)
  <2>1. evaluator' = Stopped("trapped") /\ objects' = objects
    BY <1>16, <1>18
  <2>2. evaluator' \in EvaluatorCall /\ evaluator'.fn = "trapped"
    BY <2>1 DEF Stopped, EvaluatorCall, Null, EvaluationInv, Values
  <2> QED
    BY <1>2, <1>15, <1>17, <2>1, <2>2 DEF Values, Blocks
<1>19. CASE ~(op.kind = "DIVISION" /\ DivisionTraps(objects[operand].i64, objects[hand].i64))
  <2>1. PICK value \in Objects :
           value = BinaryResult(op.kind, objects[operand], objects[hand]) /\ value.type = heap[n].type
    BY <1>5, <1>13, <1>19
  <2>2. Replace({ operand, hand }, value)
    BY <1>16, <1>19, <2>1
  <2>3. /\ objects' = Allocate(Release(objects, { operand, hand }), value)
        /\ evaluator' = Evaluated(n, Fresh(Release(objects, { operand, hand })))
    BY <1>1, <2>2 DEF Replace
  <2>4. Release(objects, { operand, hand }) = Release(fewer, { hand })
    <3>1. DOMAIN fewer = DOMAIN objects \ { operand } /\ \A id \in DOMAIN fewer : fewer[id] = objects[id]
      BY <1>9 DEF Release
    <3>2. DOMAIN objects \ { operand, hand } = DOMAIN fewer \ { hand }
      BY <3>1
    <3> QED
      BY <3>1, <3>2 DEF Release
  <2>5. Blocks(fewer) /\ Keeps(objects, fewer)
    <3>1. Blocks(objects)
      BY <1>2
    <3>2. /\ Blocks(fewer) /\ DOMAIN fewer = DOMAIN objects \ { operand }
          /\ \A id \in DOMAIN objects \ { operand } : fewer[id] = objects[id]
      BY <3>1, <1>9, ReleaseBlocks
    <3> QED
      BY <3>2 DEF Keeps
  <2>6. Held(fewer, calls) /\ Known(fewer, variables) /\ Known(objects, variables)
    BY <1>2, <1>10, OwnedIsThere
  <2>7. Chained(heap, fewer, calls, n) /\ Assigned(heap, variables, fewer, n)
    BY <1>2, <1>7, <2>5, <2>6, ChainKept, AssignedKept
  <2>8. PICK rest, new :
           /\ rest = Release(fewer, { hand }) /\ new = Allocate(rest, value)
           /\ Blocks(new) /\ Owned(new, variables, calls, Fresh(rest))
           /\ Chained(heap, new, calls, n) /\ Assigned(heap, variables, new, n)
           /\ Fresh(rest) \in Pointer /\ Fresh(rest) \in DOMAIN new /\ new[Fresh(rest)] = value
    BY <1>10, <2>5, <2>7, ReplaceBlocks
  <2>9. objects' = new /\ evaluator' = Evaluated(n, Fresh(rest))
    BY <2>3, <2>4, <2>8
  <2>10. EvaluationInv'
    <3>1. calls \in Seq(EvaluatorFrame) /\ Builds(heap, n) /\ Ordered(heap, first)
      BY <1>2, <1>5, <1>7
    <3> QED
      BY <1>15, <1>17, <2>1, <2>8, <2>9, <3>1, ReturnsTo
  <2> QED
    BY <2>10
<1> QED
  BY <1>18, <1>19

\* The map gets its copy, and the variable is assigned from now on.
LEMMA ReturnFromAssignmentInv == EvaluationInv /\ ReturnFromAssignment => EvaluationInv'
<1> SUFFICES ASSUME EvaluationInv, ReturnFromAssignment PROVE EvaluationInv'
  OBVIOUS
<1>1. PICK n, hand, calls : n = EvaluatorTop.node /\ hand = evaluator.value /\ calls = EvaluatorPop
  OBVIOUS
<1>2. /\ heap \in Seq(Cell) /\ Typed(heap) /\ evaluator.fn = "return" /\ Blocks(objects)
      /\ evaluator_stack \in Seq(EvaluatorFrame) /\ evaluator_stack # <<>>
      /\ calls \in Seq(EvaluatorFrame) /\ EvaluatorTop \in EvaluatorFrame
      /\ n \in 1..Len(heap) /\ heap[n].cell = "ASSIGNMENT" /\ Len(EvaluatorTop.held) = 0
      /\ Pending(heap, EvaluatorTop) = evaluator.node
      /\ Chained(heap, objects, calls, n) /\ Held(objects, calls)
      /\ Owned(objects, variables, evaluator_stack, hand)
      /\ hand \in DOMAIN objects /\ hand \in Pointer
      /\ objects[hand] \in Objects /\ objects[hand].type = heap[evaluator.node].type
  BY <1>1, ReturningTop DEF ReturnFromAssignment
<1>3. EvaluatorTop.held = <<>>
  BY <1>2, EmptySeq DEF EvaluatorFrame
<1>4. PICK symbol \in 1..n - 1, expression \in 1..n - 1 :
         /\ heap[n] = Assignment(symbol, expression, heap[expression].type) /\ IsSymbol(heap, symbol)
  <2>1. heap \in Seq(Cell) /\ Typed(heap) /\ n \in 1..Len(heap) /\ heap[n].cell = "ASSIGNMENT"
    BY <1>2
  <2> QED
    BY <2>1, TakeApart
<1>5. /\ heap[n].kids[1] = symbol /\ heap[n].kids[2] = expression /\ heap[n].kids = << symbol, expression >>
      /\ heap[n].type = heap[expression].type /\ Builds(heap, n)
  BY <1>2, <1>4 DEF Assignment, Builds
<1>6. evaluator.node = expression
  BY <1>1, <1>2, <1>3, <1>5 DEF Pending
<1>7. PICK name \in Name : name = NameAt(heap, n) /\ name = NameOf(n)
  <2>1. symbol \in 1..Len(heap) /\ heap[symbol].cell = "SYMBOL"
    BY <1>4 DEF IsSymbol
  <2>2. heap[symbol].name \in Name
    BY <1>2, <2>1, TakeApart
  <2> QED
    BY <1>5, <2>2 DEF NameAt, NameOf
<1>8. PICK type \in ObjectTypes : type = heap[symbol].type
  BY <1>2, <1>4, CellHasType
<1>9. PICK value \in Objects : value = objects[hand] /\ value.type = heap[n].type
  BY <1>2, <1>5, <1>6
<1>10. PICK new \in Pointer : new = Fresh(objects) /\ new \notin DOMAIN objects
  BY <1>2, FreshIsNew
<1>11. PICK all : all = Allocate(objects, value)
  OBVIOUS
<1>12. /\ Blocks(all) /\ DOMAIN all = DOMAIN objects \cup { new } /\ all[new] = value
       /\ \A id \in DOMAIN objects : all[id] = objects[id]
  <2>1. Blocks(objects)
    BY <1>2
  <2> QED
    BY <2>1, <1>10, <1>11, AllocateBlock
<1>13. /\ Define(name, type, new, all) /\ evaluator' = Evaluated(n, hand)
       /\ evaluator_stack' = calls /\ heap' = heap
  <2>1. DupId(hand) = new /\ DupIn(hand) = all
    BY <1>2, <1>9, <1>10, <1>11 DEF DupId, DupIn, Null, Pointer
  <2> QED
    BY <1>1, <1>5, <1>7, <1>8, <2>1 DEF ReturnFromAssignment, TreeKept
<1>14. Owned(objects, variables, calls, hand)
  BY <1>1, <1>2, <1>3, OwnPopped DEF EvaluatorPop, EvaluatorTop
<1>15. PICK kept \in ObjectTypes :
          /\ variables' = WithName(variables, name, [ type |-> kept, value |-> new ])
          /\ objects' = IF name \in DOMAIN variables THEN Release(all, { variables[name].value }) ELSE all
  <2>1. CASE name \in DOMAIN variables
    <3>1. variables[name].type \in ObjectTypes
      BY <2>1 DEF EvaluationInv, Values
    <3> QED
      BY <1>13, <2>1, <3>1 DEF Define, WithVariable, WithName
  <2>2. CASE name \notin DOMAIN variables
    BY <1>13, <2>2 DEF Define, WithVariable, WithName
  <2> QED
    BY <2>1, <2>2
<1>16. PICK entry : entry = [ type |-> kept, value |-> new ]
  OBVIOUS
<1>17. /\ DOMAIN variables' = DOMAIN variables \cup { name } /\ variables'[name] = entry
       /\ \A other \in DOMAIN variables : other # name => variables'[other] = variables[other]
  BY <1>15, <1>16 DEF WithName
<1>18. /\ name \notin DOMAIN variables => Owned(all, variables', calls, hand)
       /\ name \in DOMAIN variables =>
             /\ Owned(Release(all, { variables[name].value }), variables', calls, hand)
             /\ variables[name].value \in DOMAIN objects \ { hand }
             /\ \A other \in DOMAIN variables : other # name => variables[other].value # variables[name].value
  <2>1. Blocks(objects) /\ entry.value = Fresh(objects)
    BY <1>2, <1>10, <1>16
  <2>2. PICK every, more :
           /\ every = Allocate(objects, value) /\ more = WithName(variables, name, entry)
           /\ name \notin DOMAIN variables => Owned(every, more, calls, hand)
           /\ name \in DOMAIN variables =>
                 /\ Owned(Release(every, { variables[name].value }), more, calls, hand)
                 /\ variables[name].value \in DOMAIN objects \ { hand }
                 /\ \A other \in DOMAIN variables :
                       other # name => variables[other].value # variables[name].value
    BY <1>14, <2>1, OwnDefined
  <2>3. every = all /\ more = variables'
    BY <1>11, <1>15, <1>16, <2>2
  <2> QED
    BY <2>2, <2>3
<1>19. Owned(objects', variables', calls, hand)
  BY <1>15, <1>18
<1>20. Blocks(objects') /\ \A id \in DOMAIN objects' : id \in DOMAIN all /\ objects'[id] = all[id]
  <2>1. CASE name \in DOMAIN variables
    <3>1. PICK old : old = variables[name].value
      OBVIOUS
    <3>2. objects' = Release(all, { old }) /\ Blocks(all)
      BY <1>12, <1>15, <2>1, <3>1
    <3>3. /\ Blocks(objects') /\ DOMAIN objects' = DOMAIN all \ { old }
          /\ \A id \in DOMAIN all \ { old } : objects'[id] = all[id]
      BY <3>2, ReleaseBlocks
    <3> QED
      BY <3>3
  <2>2. CASE name \notin DOMAIN variables
    BY <1>12, <1>15, <2>2
  <2> QED
    BY <2>1, <2>2
<1>21. Keeps(objects, objects')
  BY <1>12, <1>20 DEF Keeps
<1>22. Held(objects', calls) /\ Known(objects', variables')
  BY <1>19, OwnedIsThere
<1>23. Chained(heap, objects', calls, n)
  BY <1>2, <1>21, <1>22, ChainKept
<1>24. hand \in DOMAIN objects' /\ objects'[hand].type = heap[n].type
  <2>1. hand \in DOMAIN objects'
    BY <1>2, <1>19 DEF Owned, Null, Pointer
  <2>2. objects'[hand] = objects[hand]
    BY <1>2, <1>21, <2>1 DEF Keeps
  <2> QED
    BY <1>9, <2>1, <2>2
<1>25. DOMAIN variables' \subseteq Name
  BY <1>17 DEF EvaluationInv, Values
<1>26. \A other \in DOMAIN variables' : variables'[other] \in [ type : ObjectTypes, value : Nat ]
  <2>1. entry \in [ type : ObjectTypes, value : Nat ]
    BY <1>16 DEF Pointer
  <2> QED
    BY <1>17, <2>1 DEF EvaluationInv, Values
<1>27. \E first : Ordered(heap, first) /\ Assigned(heap, variables', objects', n)
  <2>1. PICK first : Ordered(heap, first) /\ Assigned(heap, variables, objects, Reached(first, evaluator))
    BY DEF EvaluationInv, EvaluatorInv
  <2>2. /\ symbol = n - 2 /\ expression = n - 3 /\ IsSymbol(heap, n - 1)
        /\ \A a \in 1..n - 1 : IsAssignment(heap, a) => NameAt(heap, a) # NameAt(heap, n)
    BY <1>2, <1>5, <2>1 DEF Ordered, OrderedCell
  <2>3. Assigned(heap, variables, objects, n - 3)
    BY <1>2, <1>6, <2>1, <2>2 DEF Reached
  <2>4. ASSUME NEW a \in 1..n, IsAssignment(heap, a)
        PROVE  /\ NameAt(heap, a) \in DOMAIN variables'
               /\ objects'[variables'[NameAt(heap, a)].value].type = heap[a].type
    <3>1. CASE a = n
      <4>1. variables'[name].value = new
        BY <1>16, <1>17
      <4>2. new \in DOMAIN objects'
        BY <1>17, <1>22, <4>1 DEF Known
      <4>3. objects'[new] = value
        BY <1>12, <1>20, <4>2
      <4> QED
        BY <1>7, <1>9, <1>17, <3>1, <4>1, <4>3
    <3>2. CASE a # n
      <4>1. a \in 1..n - 3
        <5>1. ~IsAssignment(heap, n - 2) /\ ~IsAssignment(heap, n - 1)
          BY <1>4, <2>2 DEF IsSymbol, IsAssignment
        <5>2. a # n - 2 /\ a # n - 1
          BY <2>4, <5>1
        <5> QED
          BY <1>2, <3>2, <5>2
      <4>2. PICK other : other = NameAt(heap, a)
        OBVIOUS
      <4>3. other \in DOMAIN variables /\ objects[variables[other].value].type = heap[a].type
        BY <2>3, <2>4, <4>1, <4>2 DEF Assigned
      <4>4. other # name
        <5>1. a \in 1..n - 1
          BY <1>2, <3>2
        <5> QED
          BY <1>7, <2>2, <2>4, <4>2, <5>1
      <4>5. variables'[other] = variables[other] /\ other \in DOMAIN variables'
        BY <1>17, <4>3, <4>4
      <4>6. variables[other].value \in DOMAIN objects'
        BY <1>22, <4>5 DEF Known
      <4>7. variables[other].value \in DOMAIN objects
        BY <1>14, <4>3 DEF Owned
      <4>8. objects'[variables[other].value] = objects[variables[other].value]
        BY <1>21, <4>6, <4>7 DEF Keeps
      <4> QED
        BY <4>2, <4>3, <4>5, <4>8
    <3> QED
      BY <3>1, <3>2
  <2>5. Assigned(heap, variables', objects', n)
    BY <2>4 DEF Assigned
  <2> QED
    BY <2>1, <2>5
<1>28. calls \in Seq(EvaluatorFrame) /\ Builds(heap, n) /\ hand \in Pointer
  BY <1>2, <1>5
<1> QED
  BY <1>13, <1>19, <1>20, <1>23, <1>24, <1>25, <1>26, <1>27, <1>28, ReturnsTo

\* Every step of the evaluator keeps its invariant, but for the trap of a division.
LEMMA EvaluatorNextInv ==
  EvaluationInv /\ EvaluatorNext => EvaluationInv' \/ (Values' /\ evaluator'.fn = "trapped")
BY EvaluateLiteralInv, EvaluateVariableInv, EvaluateUnaryInv, EvaluateBinaryInv, EvaluateAssignmentInv,
   ReturnFromUnaryInv, ReturnFromLeftInv, ReturnFromRightInv, ReturnFromAssignmentInv DEF EvaluatorNext

--------------------------------------------------------------------------------
(* The steps of a submission.                                                   *)

\* The session starts without Objects.
LEMMA CompilationInitInv == Init => CompilationInv
<1> SUFFICES ASSUME Init PROVE CompilationInv
  OBVIOUS
<1>1. DOMAIN objects = {} /\ DOMAIN variables = {} /\ DOMAIN scope = {}
  BY DEF Init, CompilationInit
<1>2. IsFiniteSet({})
  BY FS_EmptySet
<1>3. evaluator = Nothing /\ evaluator_stack = <<>>
  BY DEF Init, CompilationInit, Nothing
<1>4. Nothing \in EvaluatorCall /\ <<>> \in Seq(EvaluatorFrame) /\ Nothing.value = Null
  BY DEF Nothing, EvaluatorCall, Null
<1>5. Values
  BY <1>1, <1>2, <1>3, <1>4 DEF Values, Blocks
<1>6. Owned(objects, variables, evaluator_stack, evaluator.value)
  BY <1>1, <1>3, <1>4 DEF Owned
<1>7. /\ phase = "ready" /\ heap = <<>> /\ freed = {} /\ declared = {} /\ reports = <<>>
      /\ binder = [ fn |-> "idle", node |-> 0 ] /\ binder_stack = <<>>
      /\ result = NoResult /\ NoResult.diagnostics = <<>>
  BY DEF Init, CompilationInit, NoResult
<1> QED
  BY <1>1, <1>3, <1>5, <1>6, <1>7 DEF CompilationInv, Phases

\* A pass of the binder leaves the Objects alone, one of the evaluator the bound tree.
LEMMA ValuesKept == Values /\ UNCHANGED evaluator_vars => Values'
BY DEF Values, Blocks, evaluator_vars

LEMMA EvaluatorKeepsTree == EvaluatorNext => UNCHANGED << heap, freed >>
BY DEF EvaluatorNext, EvaluateLiteral, EvaluateVariable, EvaluateUnary, EvaluateBinary, EvaluateAssignment,
       ReturnFromUnary, ReturnFromLeft, ReturnFromRight, ReturnFromAssignment, TreeKept

\* Cells may be freed once the binder is done.
LEMMA BinderInvKept ==
  BinderInv /\ UNCHANGED << heap, syntax, scope, declared, reports, binder, binder_stack >>
    /\ freed' \subseteq 1..Len(heap) => BinderInv'
BY DEF BinderInv, Clean

\* What a finished binder leaves.
LEMMA FinishedBinder ==
  ASSUME BinderInv, binder.fn = "done"
  PROVE  /\ heap \in Seq(Cell) /\ Typed(heap) /\ Builds(heap, binder.node)
         /\ Below[binder.node] \subseteq 1..Len(heap)
         /\ binder_stack = <<>> /\ DOMAIN scope = {}
         /\ Clean => \E first : Ordered(heap, first) /\ first[binder.node] = 1
<1>1. /\ heap \in Seq(Cell) /\ Typed(heap) /\ Builds(heap, binder.node)
      /\ binder_stack = <<>> /\ DOMAIN scope = {}
  BY DEF BinderInv, BoundBy
<1>2. Below[binder.node] \subseteq 1..Len(heap)
  <2>1. PICK size \in Nat : size = Len(heap)
    BY <1>1
  <2>2. Older(heap)
    BY <1>1, TypedIsOlder
  <2> QED
    BY <1>1, <2>1, <2>2, BelowIsWithin DEF Builds
<1>3. ASSUME Clean PROVE \E first : Ordered(heap, first) /\ first[binder.node] = 1
  <2>1. PICK first, edge : BoundInOrder(heap, scope, binder, binder_stack, first, edge)
    BY <1>3 DEF BinderInv
  <2>2. Ordered(heap, first) /\ edge[1] = 0 /\ first[binder.node] = edge[Len(binder_stack) + 1] + 1
    BY <2>1 DEF BoundInOrder, Edges
  <2>3. Len(binder_stack) + 1 = 1
    BY <1>1
  <2> QED
    BY <2>2, <2>3
<1> QED
  BY <1>1, <1>2, <1>3

\* One step of the session after the other.
LEMMA SubmitInv == \A tree : IsSyntaxTree(tree) /\ CompilationInv /\ Submit(tree) => CompilationInv'
<1> SUFFICES ASSUME NEW tree, IsSyntaxTree(tree), CompilationInv, Submit(tree) PROVE CompilationInv'
  OBVIOUS
<1>1. phase = "ready" /\ phase' = "binding" /\ BindGlobalScope(tree) /\ UNCHANGED << evaluator_vars, result >>
  BY DEF Submit
<1>2. BinderInv'
  BY <1>1, BindGlobalScopeInv
<1>3. Values'
  BY <1>1, ValuesKept DEF CompilationInv
<1>4. /\ Owned(objects, variables, evaluator_stack, evaluator.value)
      /\ evaluator = Nothing /\ evaluator_stack = <<>> /\ result = NoResult /\ NoResult.diagnostics = <<>>
  BY <1>1 DEF CompilationInv, NoResult
<1>5. UNCHANGED << objects, variables, evaluator_stack, evaluator, result >>
  BY <1>1 DEF evaluator_vars
<1> QED
  BY <1>1, <1>2, <1>3, <1>4, <1>5 DEF CompilationInv, Phases

LEMMA BindStepInv == CompilationInv /\ BindStep => CompilationInv'
<1> SUFFICES ASSUME CompilationInv, BindStep PROVE CompilationInv'
  OBVIOUS
<1>1. phase = "binding" /\ phase' = "binding" /\ BinderNext /\ UNCHANGED << evaluator_vars, result >>
  BY DEF BindStep
<1>2. BinderInv'
  BY <1>1, BinderNextInv DEF CompilationInv
<1>3. Values'
  BY <1>1, ValuesKept DEF CompilationInv
<1>4. /\ Owned(objects, variables, evaluator_stack, evaluator.value)
      /\ evaluator = Nothing /\ evaluator_stack = <<>> /\ result = NoResult /\ NoResult.diagnostics = <<>>
  BY <1>1 DEF CompilationInv, NoResult
<1>5. UNCHANGED << objects, variables, evaluator_stack, evaluator, result >>
  BY <1>1 DEF evaluator_vars
<1> QED
  BY <1>1, <1>2, <1>3, <1>4, <1>5 DEF CompilationInv, Phases

LEMMA AnswerWithReportsInv == CompilationInv /\ AnswerWithReports => CompilationInv'
<1> SUFFICES ASSUME CompilationInv, AnswerWithReports PROVE CompilationInv'
  OBVIOUS
<1>1. /\ phase = "binding" /\ phase' = "answered" /\ binder.fn = "done"
      /\ UNCHANGED << heap, syntax, scope, declared, reports, binder, binder_stack >>
      /\ freed' = freed \cup Below[binder.node]
      /\ UNCHANGED evaluator_vars /\ result'.value = Null
  BY DEF AnswerWithReports
<1>2. BinderInv'
  <2>1. BinderInv /\ freed \subseteq 1..Len(heap)
    BY <1>1 DEF CompilationInv, BinderInv
  <2>2. Below[binder.node] \subseteq 1..Len(heap)
    BY <1>1, <2>1, FinishedBinder
  <2> QED
    BY <1>1, <2>1, <2>2, BinderInvKept
<1>3. Values'
  BY <1>1, ValuesKept DEF CompilationInv
<1>4. /\ Owned(objects, variables, evaluator_stack, evaluator.value)
      /\ evaluator = Nothing /\ evaluator_stack = <<>> /\ Nothing.value = Null
  BY <1>1 DEF CompilationInv, Nothing
<1>5. UNCHANGED << objects, variables, evaluator_stack, evaluator >>
  BY <1>1 DEF evaluator_vars
<1> QED
  BY <1>1, <1>2, <1>3, <1>4, <1>5 DEF CompilationInv, Phases

LEMMA StartEvaluatorInv == CompilationInv /\ StartEvaluator => CompilationInv'
<1> SUFFICES ASSUME CompilationInv, StartEvaluator PROVE CompilationInv'
  OBVIOUS
<1>1. /\ phase = "binding" /\ phase' = "evaluating" /\ binder.fn = "done" /\ AllReports = <<>>
      /\ UNCHANGED binder_vars /\ evaluator' = Evaluate(binder.node)
      /\ UNCHANGED << objects, variables, evaluator_stack, result >>
  BY DEF StartEvaluator
<1>2. UNCHANGED << heap, freed, syntax, scope, declared, reports, binder, binder_stack >>
  BY <1>1 DEF binder_vars
<1>3. BinderInv /\ freed \subseteq 1..Len(heap) /\ reports \in Seq(BinderReports)
      /\ syntax.diagnostics \in Seq({ "lexical_error", "unexpected_token" })
  BY <1>1 DEF CompilationInv, BinderInv, IsSyntaxTree
<1>4. Clean
  <2>1. PICK m, n \in Nat : m = Len(syntax.diagnostics) /\ n = Len(reports)
    BY <1>3
  <2>2. Len(AllReports) = m + n
    BY <1>3, <2>1 DEF AllReports
  <2>3. m = 0 /\ n = 0
    BY <1>1, <2>1, <2>2
  <2> QED
    BY <1>3, <2>1, <2>3, EmptySeq DEF Clean
<1>5. BinderInv' /\ Clean'
  BY <1>2, <1>3, <1>4, BinderInvKept DEF Clean
<1>6. /\ Values /\ Owned(objects, variables, evaluator_stack, evaluator.value)
      /\ evaluator = Nothing /\ evaluator_stack = <<>> /\ Nothing.value = Null
      /\ result = NoResult /\ NoResult.diagnostics = <<>>
  BY <1>1 DEF CompilationInv, Nothing, NoResult
<1>7. PICK n : n = binder.node
  OBVIOUS
<1>8. /\ heap \in Seq(Cell) /\ Builds(heap, n)
      /\ \E first : Ordered(heap, first) /\ first[n] = 1
  BY <1>1, <1>3, <1>4, <1>7, FinishedBinder
<1>9. /\ evaluator'.fn = "evaluate" /\ evaluator'.node = n /\ evaluator'.value = Null
      /\ evaluator' \in EvaluatorCall
  BY <1>1, <1>7, <1>8 DEF Evaluate, EvaluatorCall, Null, Builds
<1>10. Values'
  BY <1>1, <1>6, <1>9 DEF Values, Blocks
<1>11. Chained(heap, objects, <<>>, n)
  BY DEF Chained
<1>12. \E first : Ordered(heap, first) /\ Assigned(heap, variables, objects, Reached(first, evaluator'))
  <2>1. PICK first : Ordered(heap, first) /\ first[n] = 1
    BY <1>8
  <2>2. Reached(first, evaluator') = 0
    BY <1>9, <2>1 DEF Reached
  <2>3. Assigned(heap, variables, objects, 0)
    BY DEF Assigned
  <2> QED
    BY <2>1, <2>2, <2>3
<1>13. EvaluatorInv'
  BY <1>1, <1>2, <1>6, <1>8, <1>9, <1>11, <1>12 DEF EvaluatorInv
<1>14. Owned(objects', variables', evaluator_stack', evaluator'.value)
  BY <1>1, <1>6, <1>9
<1> QED
  BY <1>1, <1>2, <1>5, <1>6, <1>10, <1>13, <1>14 DEF CompilationInv, Phases

LEMMA EvaluateStepInv == CompilationInv /\ EvaluateStep => CompilationInv'
<1> SUFFICES ASSUME CompilationInv, EvaluateStep PROVE CompilationInv'
  OBVIOUS
<1>1. /\ phase = "evaluating" /\ EvaluatorNext
      /\ phase' = IF evaluator'.fn \in { "aborted", "trapped" } THEN "dead" ELSE "evaluating"
      /\ UNCHANGED << syntax, scope, declared, reports, binder, binder_stack, result >>
  BY DEF EvaluateStep
<1>2. UNCHANGED << heap, freed >>
  BY <1>1, EvaluatorKeepsTree
<1>3. /\ BinderInv /\ freed \subseteq 1..Len(heap) /\ Clean /\ EvaluatorInv /\ Values
      /\ Owned(objects, variables, evaluator_stack, evaluator.value)
      /\ heap \in Seq(Cell) /\ Typed(heap) /\ binder.fn = "done"
      /\ result = NoResult /\ NoResult.diagnostics = <<>>
  BY <1>1 DEF CompilationInv, BinderInv, BoundBy, NoResult
<1>4. BinderInv' /\ Clean'
  BY <1>1, <1>2, <1>3, BinderInvKept DEF Clean
<1>5. EvaluationInv' \/ (Values' /\ evaluator'.fn = "trapped")
  BY <1>1, <1>3, EvaluatorNextInv DEF EvaluationInv
<1>6. CASE EvaluationInv'
  <2>1. /\ Values' /\ EvaluatorInv' /\ Owned(objects', variables', evaluator_stack', evaluator'.value)
        /\ evaluator'.fn \in { "evaluate", "return" }
    BY <1>6 DEF EvaluationInv, EvaluatorInv
  <2>2. phase' = "evaluating"
    BY <1>1, <2>1
  <2> QED
    BY <1>1, <1>3, <1>4, <2>1, <2>2 DEF CompilationInv, Phases
<1>7. CASE Values' /\ evaluator'.fn = "trapped"
  BY <1>1, <1>3, <1>4, <1>7 DEF CompilationInv, Phases
<1> QED
  BY <1>5, <1>6, <1>7

LEMMA AnswerWithValueInv == CompilationInv /\ AnswerWithValue => CompilationInv'
<1> SUFFICES ASSUME CompilationInv, AnswerWithValue PROVE CompilationInv'
  OBVIOUS
<1>1. /\ phase = "evaluating" /\ phase' = "answered" /\ evaluator_stack = <<>>
      /\ UNCHANGED << heap, syntax, scope, declared, reports, binder, binder_stack >>
      /\ freed' = freed \cup Below[binder.node]
      /\ evaluator' = Nothing /\ UNCHANGED << objects, variables, evaluator_stack >>
      /\ result'.value = evaluator.value /\ result'.diagnostics = <<>>
  BY DEF AnswerWithValue, Nothing
<1>2. /\ BinderInv /\ freed \subseteq 1..Len(heap) /\ binder.fn = "done" /\ Values
      /\ Owned(objects, variables, evaluator_stack, evaluator.value)
  BY <1>1 DEF CompilationInv, BinderInv
<1>3. Below[binder.node] \subseteq 1..Len(heap)
  BY <1>2, FinishedBinder
<1>4. BinderInv'
  BY <1>1, <1>2, <1>3, BinderInvKept
<1>5. Nothing \in EvaluatorCall
  BY DEF Nothing, EvaluatorCall, Null
<1>6. Values'
  BY <1>1, <1>2, <1>5 DEF Values, Blocks
<1> QED
  BY <1>1, <1>2, <1>4, <1>6 DEF CompilationInv, Phases

LEMMA PrintResultInv == CompilationInv /\ PrintResult => CompilationInv'
<1> SUFFICES ASSUME CompilationInv, PrintResult PROVE CompilationInv'
  OBVIOUS
<1>1. /\ phase = "answered" /\ phase' = "ready" /\ result' = NoResult /\ NoResult.diagnostics = <<>>
      /\ heap' = <<>> /\ freed' = {} /\ declared' = {} /\ reports' = <<>>
      /\ binder' = [ fn |-> "idle", node |-> 0 ]
      /\ UNCHANGED << scope, binder_stack, variables, evaluator, evaluator_stack >>
      /\ objects' = IF result.diagnostics = <<>> THEN Release(objects, { result.value }) ELSE objects
  BY DEF PrintResult, NoResult
<1>2. /\ Values /\ Blocks(objects) /\ BinderInv /\ binder.fn = "done"
      /\ Owned(objects, variables, evaluator_stack, result.value)
      /\ evaluator = Nothing /\ evaluator_stack = <<>> /\ Nothing.value = Null
      /\ result.diagnostics # <<>> => result.value = Null
  BY <1>1 DEF CompilationInv, Values, Nothing
<1>3. binder_stack = <<>> /\ DOMAIN scope = {}
  BY <1>2, FinishedBinder
<1>4. Blocks(objects') /\ Owned(objects', variables, evaluator_stack, Null)
  <2>1. CASE result.diagnostics = <<>>
    <3>1. PICK hand : hand = result.value
      OBVIOUS
    <3>2. /\ objects' = Release(objects, { hand }) /\ Blocks(objects)
          /\ Owned(objects, variables, evaluator_stack, hand)
      BY <1>1, <1>2, <2>1, <3>1
    <3> QED
      BY <3>2, ReleaseBlocks, OwnReleased
  <2>2. CASE result.diagnostics # <<>>
    BY <1>1, <1>2, <2>2
  <2> QED
    BY <2>1, <2>2
<1>5. Values'
  BY <1>1, <1>2, <1>4 DEF Values
<1>6. Owned(objects', variables', evaluator_stack', evaluator'.value)
  BY <1>1, <1>2, <1>4
<1> QED
  BY <1>1, <1>2, <1>3, <1>5, <1>6 DEF CompilationInv, Phases

LEMMA CompilationStutterInv == CompilationInv /\ UNCHANGED vars => CompilationInv'
<1> SUFFICES ASSUME CompilationInv, UNCHANGED vars PROVE CompilationInv'
  OBVIOUS
<1>1. /\ UNCHANGED << heap, freed, syntax, scope, declared, reports, binder, binder_stack >>
      /\ UNCHANGED << objects, variables, evaluator, evaluator_stack >> /\ UNCHANGED << phase, result >>
      /\ UNCHANGED evaluator_vars
  BY DEF vars, binder_vars, evaluator_vars
<1>2. Values'
  BY <1>1, ValuesKept DEF CompilationInv
<1>3. BinderInv' = BinderInv /\ Clean' = Clean
  BY <1>1 DEF BinderInv, Clean
<1>4. EvaluatorInv' = EvaluatorInv
  BY <1>1 DEF EvaluatorInv
<1> QED
  BY <1>1, <1>2, <1>3, <1>4 DEF CompilationInv

\* Whatever is submitted, and in whatever order: the passes of a compilation keep CompilationInv.
THEOREM CompilationInvariant == Spec => []CompilationInv
<1>1. Init => CompilationInv
  BY CompilationInitInv
<1>2. CompilationInv /\ [Next]_vars => CompilationInv'
  BY TreesAssumption, SubmitInv, BindStepInv, AnswerWithReportsInv, StartEvaluatorInv, EvaluateStepInv, AnswerWithValueInv,
     PrintResultInv, CompilationStutterInv DEF Next, CompilationStep
<1> QED
  BY <1>1, <1>2, PTL DEF Spec

\* CompilationInv says more than what the runs check.
LEMMA SoundnessFollows == CompilationInv => TypeSoundness
<1> SUFFICES ASSUME CompilationInv PROVE TypeSoundness
  OBVIOUS
<1>1. phase \in Phases /\ Values
  BY DEF CompilationInv
<1>2. /\ heap \in Seq(Cell) /\ freed \subseteq 1..Len(heap) /\ declared \subseteq 1..Len(heap)
      /\ DOMAIN scope \subseteq Name /\ \A name \in DOMAIN scope : scope[name] \in 1..Len(heap)
      /\ reports \in Seq(BinderReports) /\ binder \in BinderCall /\ binder_stack \in Seq(BinderFrame)
  <2>1. CASE phase = "ready"
    <3>1. /\ heap = <<>> /\ freed = {} /\ declared = {} /\ reports = <<>> /\ DOMAIN scope = {}
          /\ binder = [ fn |-> "idle", node |-> 0 ] /\ binder_stack = <<>>
      BY <2>1 DEF CompilationInv
    <3> QED
      BY <3>1 DEF BinderCall
  <2>2. CASE phase # "ready"
    <3>1. BinderInv
      BY <2>2 DEF CompilationInv
    <3>2. BoundBy(syntax, heap, scope, binder, binder_stack)
      BY <3>1 DEF BinderInv
    <3>3. DOMAIN scope \subseteq Name /\ \A name \in DOMAIN scope : scope[name] \in 1..Len(heap)
      BY <3>2 DEF BoundBy, IsSymbol
    <3>4. heap \in Seq(Cell) /\ binder \in BinderCall /\ binder_stack \in Seq(BinderFrame)
      BY <3>2 DEF BoundBy
    <3> QED
      BY <3>1, <3>3, <3>4 DEF BinderInv
  <2> QED
    BY <2>1, <2>2
<1>3. TypeOK
  BY <1>1, <1>2 DEF TypeOK, Values, Blocks
<1>4. /\ evaluator.fn # "aborted"
      /\ evaluator.fn = "return" =>
            /\ evaluator.value \in DOMAIN objects
            /\ objects[evaluator.value].type = heap[evaluator.node].type
  <2>1. CASE phase = "evaluating"
    BY <2>1 DEF CompilationInv, EvaluatorInv
  <2>2. CASE phase = "dead"
    BY <2>2 DEF CompilationInv
  <2>3. CASE phase \notin { "evaluating", "dead" }
    BY <2>3 DEF CompilationInv, Nothing
  <2> QED
    BY <2>1, <2>2, <2>3
<1> QED
  BY <1>3, <1>4 DEF TypeSoundness

\* What the binder accepts, the evaluator can unwrap: no assertion of object.c fails, and every
\* value that is returned has the type the binder gave its expression, for every language of
\* literals and names, every width of an integer and every list of trees.
THEOREM WhatIsBoundIsSound == Spec => []TypeSoundness
BY CompilationInvariant, SoundnessFollows, PTL

--------------------------------------------------------------------------------
(* Every Object has one owner.                                                  *)

\* The owners of an Object, and the operands that waiting calls own.
LEMMA OwnersOf ==
  ASSUME NEW id
  PROVE  ObjectOwners(id) =
            ({ "call" } \X { at \in Operands(evaluator_stack) : evaluator_stack[at[1]].held[at[2]] = id })
              \cup ({ "evaluator" } \X ({ evaluator.value } \cap { id }))
              \cup ({ "result" } \X ({ result.value } \cap { id }))
              \cup ({ "map" } \X { name \in DOMAIN variables : variables[name].value = id })
BY DEF ObjectOwners

LEMMA OperandsOfOwned ==
  ASSUME NEW calls \in Seq(EvaluatorFrame), NEW objs, NEW map, NEW hand, Owned(objs, map, calls, hand)
  PROVE  /\ \A at \in Operands(calls) :
               \E i \in 1..Len(calls) : at = << i, 1 >> /\ calls[i].held # <<>> /\ Len(calls[i].held) = 1
         /\ \A i \in 1..Len(calls) : calls[i].held # <<>> => << i, 1 >> \in Operands(calls)
<1>1. \A i \in 1..Len(calls) : calls[i].held = <<>> \/ Len(calls[i].held) = 1
  BY DEF Owned
<1>2. ASSUME NEW at \in Operands(calls)
      PROVE  \E i \in 1..Len(calls) : at = << i, 1 >> /\ calls[i].held # <<>> /\ Len(calls[i].held) = 1
  <2>1. PICK i \in 1..Len(calls), k \in 1..2 : at = << i, k >> /\ k <= Len(calls[i].held)
    BY DEF Operands
  <2>2. calls[i].held # <<>>
    <3>1. Len(<<>>) = 0 /\ ~(k <= 0)
      OBVIOUS
    <3> QED
      BY <2>1, <3>1
  <2>3. Len(calls[i].held) = 1
    BY <1>1, <2>2
  <2>4. k = 1
    BY <2>1, <2>3
  <2> QED
    BY <2>1, <2>2, <2>3, <2>4
<1>3. ASSUME NEW i \in 1..Len(calls), calls[i].held # <<>>
      PROVE  << i, 1 >> \in Operands(calls)
  <2>1. Len(calls[i].held) = 1
    BY <1>1, <1>3
  <2>2. PICK at : at = << i, 1 >>
    OBVIOUS
  <2>3. at[1] = i /\ at[2] = 1
    BY <2>2
  <2>4. at \in (1..Len(calls)) \X (1..2)
    BY <2>2
  <2>5. calls[at[1]].held = calls[i].held
    BY <2>3
  <2>6. at[2] <= Len(calls[at[1]].held)
    <3>1. Len(calls[at[1]].held) = 1
      BY <2>1, <2>5
    <3>2. 1 <= 1
      OBVIOUS
    <3> QED
      BY <2>3, <3>1, <3>2, Zenon
  <2> QED
    BY <2>2, <2>4, <2>6 DEF Operands
<1> QED
  BY <1>2, <1>3

\* Three kinds of owner, and an Object of one has none of another kind.
LEMMA OwnershipFollows == CompilationInv => ObjectsOwnedOnce
<1> SUFFICES ASSUME CompilationInv, phase # "dead" PROVE ObjectsOwnedOnce
  BY DEF ObjectsOwnedOnce
<1> DEFINE calls == evaluator_stack
           hand  == IF phase = "answered" THEN result.value ELSE evaluator.value
           other == IF phase = "answered" THEN evaluator.value ELSE result.value
<1>1. Blocks(objects) /\ calls \in Seq(EvaluatorFrame) /\ Owned(objects, variables, calls, hand)
  BY DEF CompilationInv, Values
<1>2. other = Null
  BY DEF CompilationInv, Nothing, NoResult
<1>3. Null \notin DOMAIN objects
  BY <1>1 DEF Blocks, Pointer, Null
<1>4. /\ \A at \in Operands(calls) :
            \E i \in 1..Len(calls) : at = << i, 1 >> /\ calls[i].held # <<>> /\ Len(calls[i].held) = 1
      /\ \A i \in 1..Len(calls) : calls[i].held # <<>> => << i, 1 >> \in Operands(calls)
  BY <1>1, OperandsOfOwned
<1>5. /\ hand # Null => hand \in DOMAIN objects
      /\ \A name \in DOMAIN variables : variables[name].value \in DOMAIN objects \ { hand }
      /\ \A one, name \in DOMAIN variables : variables[one].value = variables[name].value => one = name
  BY <1>1 DEF Owned
<1>6. /\ \A i \in 1..Len(calls) :
            \/ calls[i].held = <<>>
            \/ /\ calls[i].held[1] \in DOMAIN objects \ { hand }
               /\ \A name \in DOMAIN variables : calls[i].held[1] # variables[name].value
      /\ \A i, j \in 1..Len(calls) :
            (calls[i].held # <<>> /\ calls[j].held # <<>> /\ calls[i].held[1] = calls[j].held[1]) => i = j
  BY <1>1 DEF Owned
<1>7. \A id \in DOMAIN objects :
          \/ id = hand
          \/ \E name \in DOMAIN variables : variables[name].value = id
          \/ \E i \in 1..Len(calls) : calls[i].held = << id >>
  BY <1>1 DEF Owned
<1>8. ASSUME NEW id \in DOMAIN objects
      PROVE  \E owner \in ObjectOwners(id) : ObjectOwners(id) = { owner }
  <2> DEFINE who == IF phase = "answered" THEN "result" ELSE "evaluator"
             holds == { at \in Operands(calls) : calls[at[1]].held[at[2]] = id }
             names == { name \in DOMAIN variables : variables[name].value = id }
             hands == { hand } \cap { id }
  <2>1. ObjectOwners(id) = ({ "call" } \X holds) \cup ({ who } \X hands) \cup ({ "map" } \X names)
    <3>1. { other } \cap { id } = {}
      BY <1>2, <1>3
    <3>2. CASE phase = "answered"
      BY <3>1, <3>2, OwnersOf
    <3>3. CASE phase # "answered"
      BY <3>1, <3>3, OwnersOf
    <3> QED
      BY <3>2, <3>3
  <2>2. CASE id = hand
    <3>1. hands = { id }
      BY <2>2
    <3>2. names = {}
      BY <1>5, <2>2
    <3>3. holds = {}
      BY <1>4, <1>6, <2>2
    <3> HIDE DEF holds, names, hands, who
    <3>4. ObjectOwners(id) = { << who, id >> }
      BY <2>1, <3>1, <3>2, <3>3
    <3> QED
      BY <3>4
  <2>3. CASE id # hand /\ \E name \in DOMAIN variables : variables[name].value = id
    <3>1. PICK name \in DOMAIN variables : variables[name].value = id
      BY <2>3
    <3>2. hands = {}
      BY <2>3
    <3>3. names = { name }
      BY <1>5, <3>1
    <3>4. holds = {}
      BY <1>4, <1>6, <3>1
    <3> HIDE DEF holds, names, hands, who
    <3>5. ObjectOwners(id) = { << "map", name >> }
      BY <2>1, <3>2, <3>3, <3>4
    <3> QED
      BY <3>5
  <2>4. CASE id # hand /\ \E i \in 1..Len(calls) : calls[i].held = << id >>
    <3>1. PICK i \in 1..Len(calls) : calls[i].held = << id >>
      BY <2>4
    <3>2. hands = {}
      BY <2>4
    <3>3. calls[i].held # <<>> /\ calls[i].held[1] = id
      BY <3>1
    <3>4. names = {}
      BY <1>6, <3>3
    <3>5. holds = { << i, 1 >> }
      <4>1. << i, 1 >> \in holds
        BY <1>4, <3>3
      <4>2. ASSUME NEW at \in holds PROVE at = << i, 1 >>
        <5>1. PICK j \in 1..Len(calls) : at = << j, 1 >> /\ calls[j].held # <<>>
          BY <1>4
        <5>2. calls[j].held[1] = id
          BY <5>1
        <5> QED
          BY <1>6, <3>3, <5>1, <5>2
      <4> QED
        BY <4>1, <4>2
    <3> HIDE DEF holds, names, hands, who
    <3>6. ObjectOwners(id) = { << "call", << i, 1 >> >> }
      BY <2>1, <3>2, <3>4, <3>5
    <3> QED
      BY <3>6
  <2> QED
    BY <1>7, <2>2, <2>3, <2>4
<1>9. \A at \in Operands(calls) : calls[at[1]].held[at[2]] \in DOMAIN objects \cup { Null }
  BY <1>4, <1>6
<1>10. { evaluator.value, result.value } \subseteq DOMAIN objects \cup { Null }
  BY <1>2, <1>5
<1> QED
  BY <1>5, <1>8, <1>9, <1>10 DEF ObjectsOwnedOnce

\* Every Object has one owner and every pointer that is not NULL leads to a live one, in every
\* state of every session: nothing is freed twice, used after it was freed, shared, or lost.
THEOREM EveryObjectIsOwnedOnce == Spec => []ObjectsOwnedOnce
BY CompilationInvariant, OwnershipFollows, PTL

--------------------------------------------------------------------------------
(* What the typing rules make of a tree.                                        *)

\* The kids of a node are older nodes.
LEMMA KidsAreOlder ==
  ASSUME IsSyntaxTree(syntax)
  PROVE  /\ Len(syntax.nodes) \in Nat
         /\ \A n \in 1..Len(syntax.nodes) :
               /\ KindOf(n) = "ASSIGNMENT_EXPRESSION" => Kid(n, 3) \in 1..n - 1
               /\ KindOf(n) \in { "PARENTHESIZED_EXPRESSION", "UNARY_EXPRESSION" } => Kid(n, 2) \in 1..n - 1
               /\ KindOf(n) = "BINARY_EXPRESSION" => Kid(n, 1) \in 1..n - 1 /\ Kid(n, 3) \in 1..n - 1
<1>1. Len(syntax.nodes) \in Nat
  <2>1. PICK N : syntax.nodes \in Seq(N)
    BY DEF IsSyntaxTree
  <2> QED
    BY <2>1
<1>2. ASSUME NEW n \in 1..Len(syntax.nodes), KindOf(n) = "ASSIGNMENT_EXPRESSION"
      PROVE  Kid(n, 3) \in 1..n - 1
  BY <1>2 DEF IsSyntaxTree, KindOf, Kid
<1>3. ASSUME NEW n \in 1..Len(syntax.nodes),
             KindOf(n) \in { "PARENTHESIZED_EXPRESSION", "UNARY_EXPRESSION" }
      PROVE  Kid(n, 2) \in 1..n - 1
  BY <1>3 DEF IsSyntaxTree, KindOf, Kid
<1>4. ASSUME NEW n \in 1..Len(syntax.nodes), KindOf(n) = "BINARY_EXPRESSION"
      PROVE  Kid(n, 1) \in 1..n - 1 /\ Kid(n, 3) \in 1..n - 1
  BY <1>4 DEF IsSyntaxTree, KindOf, Kid
<1> QED
  BY <1>1, <1>2, <1>3, <1>4

\* So the type of a node depends on those of the older ones alone.
LEMMA TypingAgrees ==
  ASSUME IsSyntaxTree(syntax), NEW n \in 1..Len(syntax.nodes), NEW f, NEW g, NEW env,
         \A k \in 1..n - 1 : f[k] = g[k]
  PROVE  TypingIn(n, f, env) = TypingIn(n, g, env)
<1>1. CASE KindOf(n) = "ASSIGNMENT_EXPRESSION"
  <2>1. f[Kid(n, 3)] = g[Kid(n, 3)]
    BY <1>1, KidsAreOlder
  <2> QED
    BY <1>1, <2>1 DEF TypingIn
<1>2. CASE KindOf(n) = "UNARY_EXPRESSION"
  <2>1. f[Kid(n, 2)] = g[Kid(n, 2)]
    BY <1>2, KidsAreOlder
  <2> QED
    BY <1>2, <2>1 DEF TypingIn
<1>3. CASE KindOf(n) = "PARENTHESIZED_EXPRESSION"
  <2>1. f[Kid(n, 2)] = g[Kid(n, 2)]
    BY <1>3, KidsAreOlder
  <2> QED
    BY <1>3, <2>1 DEF TypingIn
<1>4. CASE KindOf(n) = "BINARY_EXPRESSION"
  <2>1. f[Kid(n, 1)] = g[Kid(n, 1)] /\ f[Kid(n, 3)] = g[Kid(n, 3)]
    BY <1>4, KidsAreOlder
  <2> QED
    BY <1>4, <2>1 DEF TypingIn
<1>5. CASE KindOf(n) \notin { "ASSIGNMENT_EXPRESSION", "UNARY_EXPRESSION", "PARENTHESIZED_EXPRESSION",
                              "BINARY_EXPRESSION" }
  BY <1>5 DEF TypingIn
<1> QED
  BY <1>1, <1>2, <1>3, <1>4, <1>5

\* So Typing is what its recursive definition says.
LEMMA TypingIs ==
  ASSUME IsSyntaxTree(syntax)
  PROVE  \A n \in 1..Len(syntax.nodes) :
            Typing[n] = [ env \in Environments(ObjectTypes) |-> TypingIn(n, Typing, env) ]
<1>1. PICK size \in Nat : size = Len(syntax.nodes)
  BY KidsAreOlder
<1>2. PICK E : E = Environments(ObjectTypes)
  OBVIOUS
<1> DEFINE made(n, f) == [ env \in E |-> TypingIn(n, f, env) ]
           Fits(m, f) == f = [ n \in 1..m |-> made(n, f) ]
           T == { m \in 0..size : ~\E f : Fits(m, f) }
<1>3. ASSUME NEW n \in 1..size, NEW f, NEW g, \A k \in 1..n - 1 : f[k] = g[k] PROVE made(n, f) = made(n, g)
  <2>1. n \in 1..Len(syntax.nodes)
    BY <1>1
  <2>2. \A env \in E : TypingIn(n, f, env) = TypingIn(n, g, env)
    BY <1>3, <2>1, TypingAgrees
  <2> QED
    BY <2>2
<1> HIDE DEF made
<1>4. T = {}
  <2> SUFFICES ASSUME T # {} PROVE FALSE
    OBVIOUS
  <2>1. PICK m \in T : \A other \in T : m <= other
    <3>1. T \subseteq Nat
      OBVIOUS
    <3> HIDE DEF T
    <3> QED
      BY <3>1, LeastElement
  <2>2. m \in 0..size /\ ~\E f : Fits(m, f)
    BY <2>1
  <2>3. CASE m = 0
    <3>1. PICK f : f = [ n \in 1..0 |-> n ]
      OBVIOUS
    <3>2. Fits(0, f)
      BY <3>1
    <3> QED
      BY <2>2, <2>3, <3>2
  <2>4. CASE m # 0
    <3>1. PICK l \in 0..size : m = l + 1 /\ m \in 1..size /\ ~(m <= l)
      <4>1. m - 1 \in 0..size /\ m = m - 1 + 1 /\ m \in 1..size /\ ~(m <= m - 1)
        BY <2>2, <2>4
      <4> QED
        BY <4>1
    <3>2. l \notin T
      BY <2>1, <3>1
    <3>3. PICK f : Fits(l, f)
      BY <3>2
    <3>4. PICK g : g = [ n \in 1..m |-> made(n, f) ]
      OBVIOUS
    <3>5. \A n \in 1..l : n \in 1..m /\ n \in 1..size
      BY <3>1
    <3>6. \A n \in 1..l : f[n] = g[n]
      BY <3>3, <3>4, <3>5
    <3>7. ASSUME NEW n \in 1..m PROVE made(n, f) = made(n, g)
      <4>1. n \in 1..size /\ \A k \in 1..n - 1 : k \in 1..l
        BY <3>1
      <4>2. \A k \in 1..n - 1 : f[k] = g[k]
        BY <3>6, <4>1
      <4> QED
        BY <1>3, <4>1, <4>2
    <3>8. Fits(m, g)
      BY <3>4, <3>7
    <3> QED
      BY <2>2, <3>8
  <2> QED
    BY <2>3, <2>4
<1>5. \E f : Fits(size, f)
  <2>1. size \in 0..size
    OBVIOUS
  <2> QED
    BY <1>4, <2>1
<1>6. Typing = CHOOSE f : Fits(size, f)
  BY <1>1, <1>2 DEF Typing, made
<1> HIDE DEF Fits
<1>7. Fits(size, Typing)
  BY <1>5, <1>6
<1>8. \A n \in 1..size : Typing[n] = made(n, Typing)
  BY <1>7 DEF Fits
<1> QED
  BY <1>1, <1>2, <1>8 DEF made

\* What the rules say of each kind of expression.
LEMMA LiteralTyping ==
  ASSUME IsSyntaxTree(syntax), NEW n \in 1..Len(syntax.nodes), NEW env \in Environments(ObjectTypes),
         NEW typing, typing = Typing[n][env], KindOf(n) = "LITERAL_EXPRESSION"
  PROVE  typing.ok /\ typing.type = LiteralValue(n).type /\ typing.env = env
<1>1. typing = [ ok |-> TRUE, type |-> LiteralValue(n).type, env |-> env ]
  <2>1. typing = TypingIn(n, Typing, env)
    BY TypingIs
  <2> QED
    BY <2>1 DEF TypingIn
<1> QED
  BY <1>1

LEMMA NameTyping ==
  ASSUME IsSyntaxTree(syntax), NEW n \in 1..Len(syntax.nodes), NEW env \in Environments(ObjectTypes),
         NEW typing, typing = Typing[n][env], KindOf(n) = "NAME_EXPRESSION",
         NEW name, name = TextOf(Kid(n, 1))
  PROVE  /\ typing.ok <=> name \in DOMAIN env
         /\ typing.type = IF name \in DOMAIN env THEN env[name] ELSE "NULL"
         /\ typing.env = env
<1>1. typing = IF name \in DOMAIN env THEN [ ok |-> TRUE, type |-> env[name], env |-> env ]
                                      ELSE [ ok |-> FALSE, type |-> "NULL", env |-> env ]
  <2>1. typing = TypingIn(n, Typing, env)
    BY TypingIs
  <2> QED
    BY <2>1 DEF TypingIn
<1> QED
  BY <1>1

LEMMA ParenthesizedTyping ==
  ASSUME IsSyntaxTree(syntax), NEW n \in 1..Len(syntax.nodes), KindOf(n) = "PARENTHESIZED_EXPRESSION"
  PROVE  Typing[n] = Typing[Kid(n, 2)]
<1>1. Kid(n, 2) \in 1..Len(syntax.nodes)
  BY KidsAreOlder
<1>2. PICK E : E = Environments(ObjectTypes)
  OBVIOUS
<1>3. \A e \in E : TypingIn(n, Typing, e) = Typing[Kid(n, 2)][e]
  BY DEF TypingIn
<1>4. Typing[n] = [ e \in E |-> Typing[Kid(n, 2)][e] ]
  BY <1>2, <1>3, TypingIs
<1>5. Typing[Kid(n, 2)] = [ e \in E |-> TypingIn(Kid(n, 2), Typing, e) ]
  BY <1>1, <1>2, TypingIs
<1> QED
  BY <1>4, <1>5

LEMMA AssignmentTyping ==
  ASSUME IsSyntaxTree(syntax), NEW n \in 1..Len(syntax.nodes), NEW env \in Environments(ObjectTypes),
         NEW typing, typing = Typing[n][env], KindOf(n) = "ASSIGNMENT_EXPRESSION",
         NEW name, name = TextOf(Kid(n, 1)), NEW right, right = Typing[Kid(n, 3)][env]
  PROVE  /\ typing.ok <=> (right.ok /\ name \notin DOMAIN right.env)
         /\ typing.type = right.type
         /\ typing.env = Extended(right.env, name, right.type)
<1>1. typing = [ ok   |-> right.ok /\ name \notin DOMAIN right.env,
                 type |-> right.type,
                 env  |-> Extended(right.env, name, right.type) ]
  <2>1. typing = TypingIn(n, Typing, env)
    BY TypingIs
  <2> QED
    BY <2>1 DEF TypingIn
<1>2. typing.ok = (right.ok /\ name \notin DOMAIN right.env)
  BY <1>1
<1>3. typing.type = right.type
  BY <1>1
<1>4. typing.env = Extended(right.env, name, right.type)
  BY <1>1
<1> QED
  BY <1>2, <1>3, <1>4

\* What an operator makes of its operands, when there is one for their types.
TypeIn(types) == IF types = {} THEN "NULL" ELSE CHOOSE t \in types : TRUE

LEMMA UnaryTyping ==
  ASSUME IsSyntaxTree(syntax), NEW n \in 1..Len(syntax.nodes), NEW env \in Environments(ObjectTypes),
         NEW typing, typing = Typing[n][env], KindOf(n) = "UNARY_EXPRESSION",
         NEW operand, operand = Typing[Kid(n, 2)][env],
         NEW types, types = Signature(KindOf(Kid(n, 1)), << operand.type >>)
  PROVE  /\ typing.ok <=> (operand.ok /\ types # {})
         /\ typing.type = TypeIn(types)
         /\ typing.env = operand.env
<1>1. typing = [ ok |-> operand.ok /\ types # {}, type |-> TypeIn(types), env |-> operand.env ]
  <2>1. typing = TypingIn(n, Typing, env)
    BY TypingIs
  <2> QED
    BY <2>1 DEF TypingIn, TypeIn
<1>2. typing.ok = (operand.ok /\ types # {})
  BY <1>1
<1>3. typing.type = TypeIn(types) /\ typing.env = operand.env
  BY <1>1
<1> QED
  BY <1>2, <1>3

LEMMA BinaryTyping ==
  ASSUME IsSyntaxTree(syntax), NEW n \in 1..Len(syntax.nodes), NEW env \in Environments(ObjectTypes),
         NEW typing, typing = Typing[n][env], KindOf(n) = "BINARY_EXPRESSION",
         NEW left, left = Typing[Kid(n, 1)][env], NEW right, right = Typing[Kid(n, 3)][left.env],
         NEW types, types = Signature(KindOf(Kid(n, 2)), << left.type, right.type >>)
  PROVE  /\ typing.ok <=> (left.ok /\ right.ok /\ types # {})
         /\ typing.type = TypeIn(types)
         /\ typing.env = right.env
<1>1. typing = [ ok |-> left.ok /\ right.ok /\ types # {}, type |-> TypeIn(types), env |-> right.env ]
  <2>1. typing = TypingIn(n, Typing, env)
    BY TypingIs
  <2> QED
    BY <2>1 DEF TypingIn, TypeIn
<1>2. PICK ok, type, after :
         ok = (left.ok /\ right.ok /\ types # {}) /\ type = TypeIn(types) /\ after = right.env
  OBVIOUS
<1>3. typing = [ ok |-> ok, type |-> type, env |-> after ]
  BY <1>1, <1>2
<1>4. typing.ok = ok /\ typing.type = type /\ typing.env = after
  BY <1>3
<1> QED
  BY <1>2, <1>4

\* The operators the binder looks up are those of the rules.
LEMMA SignaturesAreMatches ==
  /\ \A kind, type :
        /\ Signature(kind, << type >>) = {} <=> UnaryMatches(kind, type) = {}
        /\ \A op \in UnaryMatches(kind, type) :
              \A t \in Signature(kind, << type >>) : t = op.result_type
  /\ \A kind, left, right :
        /\ Signature(kind, << left, right >>) = {} <=> BinaryMatches(kind, left, right) = {}
        /\ \A op \in BinaryMatches(kind, left, right) :
              \A t \in Signature(kind, << left, right >>) : t = op.result_type
<1>1. ASSUME NEW kind, NEW type
      PROVE  Signature(kind, << type >>) = { op.result_type : op \in UnaryMatches(kind, type) }
  <2>1. Len(<< type >>) = 1 /\ << type >>[1] = type
    OBVIOUS
  <2> QED
    BY <2>1 DEF Signature, UnaryMatches
<1>2. ASSUME NEW kind, NEW left, NEW right
      PROVE  Signature(kind, << left, right >>) = { op.result_type : op \in BinaryMatches(kind, left, right) }
  <2>1. Len(<< left, right >>) # 1
    OBVIOUS
  <2>2. \A t : << left, right >> = << t, t >> <=> (t = left /\ t = right)
    OBVIOUS
  <2> QED
    BY <2>1, <2>2 DEF Signature, BinaryMatches
<1>3. ASSUME NEW kind, NEW type, NEW op \in UnaryMatches(kind, type), NEW other \in UnaryMatches(kind, type)
      PROVE  other.result_type = op.result_type
  BY DEF UnaryMatches, UnaryOperators, UnaryOperator
<1>4. ASSUME NEW kind, NEW left, NEW right,
             NEW op \in BinaryMatches(kind, left, right), NEW other \in BinaryMatches(kind, left, right)
      PROVE  other.result_type = op.result_type
  BY DEF BinaryMatches, BinaryOperators, BinaryOperator
<1>5. ASSUME NEW kind, NEW type
      PROVE  /\ Signature(kind, << type >>) = {} <=> UnaryMatches(kind, type) = {}
             /\ \A op \in UnaryMatches(kind, type) :
                   \A t \in Signature(kind, << type >>) : t = op.result_type
  BY <1>1, <1>3
<1>6. ASSUME NEW kind, NEW left, NEW right
      PROVE  /\ Signature(kind, << left, right >>) = {} <=> BinaryMatches(kind, left, right) = {}
             /\ \A op \in BinaryMatches(kind, left, right) :
                   \A t \in Signature(kind, << left, right >>) : t = op.result_type
  BY <1>2, <1>4
<1> QED
  BY <1>5, <1>6

\* The types the rules give are types, and the names are names.
LEMMA ExtendedIs ==
  ASSUME NEW S, NEW env \in Environments(S), NEW name \in Name, NEW x \in S
  PROVE  Extended(env, name, x) \in Environments(S)
<1>1. PICK names \in SUBSET Name : env \in [ names -> S ]
  BY DEF Environments
<1>2. Extended(env, name, x) \in [ names \cup { name } -> S ]
  BY <1>1 DEF Extended
<1> QED
  BY <1>2 DEF Environments

LEMMA TypingTyped ==
  ASSUME IsSyntaxTree(syntax)
  PROVE  \A n \in 1..Len(syntax.nodes), env \in Environments(ObjectTypes) :
            Typing[n][env].type \in ObjectTypes /\ Typing[n][env].env \in Environments(ObjectTypes)
<1>1. PICK size \in Nat : size = Len(syntax.nodes)
  BY KidsAreOlder
<1>2. PICK E : E = Environments(ObjectTypes)
  OBVIOUS
<1> DEFINE Fine(n) == \A env \in E : Typing[n][env].type \in ObjectTypes /\ Typing[n][env].env \in E
           T == { n \in 1..size : ~Fine(n) }
<1>3. ASSUME NEW n \in 1..size, \A k \in 1..n - 1 : Fine(k), NEW env \in E
      PROVE  Typing[n][env].type \in ObjectTypes /\ Typing[n][env].env \in E
  <2>1. n \in 1..Len(syntax.nodes) /\ env \in Environments(ObjectTypes)
    BY <1>1, <1>2
  <2>2. PICK typing : typing = Typing[n][env]
    OBVIOUS
  <2>3. \A kind, operands : TypeIn(Signature(kind, operands)) \in ObjectTypes
    <3>1. \A kind, operands : Signature(kind, operands) \subseteq ObjectTypes
      BY DEF Signature, UnaryOperators, UnaryOperator, BinaryOperators, BinaryOperator, ObjectTypes
    <3>2. \A types : types \subseteq ObjectTypes => TypeIn(types) \in ObjectTypes
      BY DEF TypeIn, ObjectTypes
    <3> QED
      BY <3>1, <3>2
  <2>4. CASE KindOf(n) = "LITERAL_EXPRESSION"
    <3>1. LiteralValue(n) \in Objects \cup { NullObject }
      BY <2>1, <2>4, ReadTree
    <3>2. LiteralValue(n).type \in ObjectTypes
      BY <3>1 DEF Objects, Int64s, Bools, Int64, Bool, NullObject, ObjectTypes
    <3>3. typing.type = LiteralValue(n).type /\ typing.env = env
      BY <2>1, <2>2, <2>4, LiteralTyping
    <3> QED
      BY <1>2, <2>1, <2>2, <3>2, <3>3
  <2>5. CASE KindOf(n) = "NAME_EXPRESSION"
    <3>1. PICK name : name = TextOf(Kid(n, 1))
      OBVIOUS
    <3>2. name \in DOMAIN env => env[name] \in ObjectTypes
      BY <2>1 DEF Environments
    <3>3. typing.type = (IF name \in DOMAIN env THEN env[name] ELSE "NULL") /\ typing.env = env
      BY <2>1, <2>2, <2>5, <3>1, NameTyping
    <3> QED
      BY <1>2, <2>1, <2>2, <3>2, <3>3 DEF ObjectTypes
  <2>6. CASE KindOf(n) = "PARENTHESIZED_EXPRESSION"
    <3>1. Kid(n, 2) \in 1..n - 1 /\ Typing[n] = Typing[Kid(n, 2)]
      BY <2>1, <2>6, ParenthesizedTyping, KidsAreOlder
    <3> QED
      BY <1>3, <3>1
  <2>7. CASE KindOf(n) = "ASSIGNMENT_EXPRESSION"
    <3>1. Kid(n, 3) \in 1..n - 1 /\ TextOf(Kid(n, 1)) \in Name
      BY <2>1, <2>7, KidsAreOlder, ReadTree
    <3>2. PICK right : right = Typing[Kid(n, 3)][env]
      OBVIOUS
    <3>3. right.type \in ObjectTypes /\ right.env \in Environments(ObjectTypes)
      BY <1>2, <1>3, <3>1, <3>2
    <3>4. typing.type = right.type /\ typing.env = Extended(right.env, TextOf(Kid(n, 1)), right.type)
      BY <2>1, <2>2, <2>7, <3>2, AssignmentTyping
    <3>5. Extended(right.env, TextOf(Kid(n, 1)), right.type) \in Environments(ObjectTypes)
      BY <3>1, <3>3, ExtendedIs
    <3> QED
      BY <1>2, <2>2, <3>3, <3>4, <3>5
  <2>8. CASE KindOf(n) = "UNARY_EXPRESSION"
    <3>1. Kid(n, 2) \in 1..n - 1
      BY <2>1, <2>8, KidsAreOlder
    <3>2. PICK operand : operand = Typing[Kid(n, 2)][env]
      OBVIOUS
    <3>3. operand.env \in E
      BY <1>3, <3>1, <3>2
    <3>4. typing.type = TypeIn(Signature(KindOf(Kid(n, 1)), << operand.type >>)) /\ typing.env = operand.env
      BY <2>1, <2>2, <2>8, <3>2, UnaryTyping
    <3> QED
      BY <2>2, <2>3, <3>3, <3>4
  <2>9. CASE KindOf(n) = "BINARY_EXPRESSION"
    <3>1. Kid(n, 1) \in 1..n - 1 /\ Kid(n, 3) \in 1..n - 1
      BY <2>1, <2>9, KidsAreOlder
    <3>2. PICK left : left = Typing[Kid(n, 1)][env]
      OBVIOUS
    <3>3. PICK right : right = Typing[Kid(n, 3)][left.env]
      OBVIOUS
    <3>4. left.env \in E
      BY <1>3, <3>1, <3>2
    <3>5. right.env \in E
      BY <1>3, <3>1, <3>3, <3>4
    <3>6. /\ typing.type = TypeIn(Signature(KindOf(Kid(n, 2)), << left.type, right.type >>))
          /\ typing.env = right.env
      BY <2>1, <2>2, <2>9, <3>2, <3>3, BinaryTyping
    <3> QED
      BY <2>2, <2>3, <3>5, <3>6
  <2>10. CASE KindOf(n) \notin { "LITERAL_EXPRESSION", "NAME_EXPRESSION", "PARENTHESIZED_EXPRESSION",
                                 "ASSIGNMENT_EXPRESSION", "UNARY_EXPRESSION", "BINARY_EXPRESSION" }
    <3>1. TypingIn(n, Typing, env) = [ ok |-> FALSE, type |-> "NULL", env |-> env ]
      BY <2>10 DEF TypingIn
    <3>2. Typing[n][env] = TypingIn(n, Typing, env)
      BY <2>1, TypingIs
    <3> QED
      BY <3>1, <3>2 DEF ObjectTypes
  <2> QED
    BY <2>4, <2>5, <2>6, <2>7, <2>8, <2>9, <2>10
<1>4. T = {}
  <2> SUFFICES ASSUME T # {} PROVE FALSE
    OBVIOUS
  <2>1. T \subseteq Nat
    OBVIOUS
  <2> HIDE DEF T
  <2>2. PICK n \in T : \A other \in T : n <= other
    BY <2>1, LeastElement
  <2> USE DEF T
  <2>3. n \in 1..size /\ ~Fine(n)
    OBVIOUS
  <2>4. ASSUME NEW k \in 1..n - 1 PROVE Fine(k)
    <3>1. k \in 1..size /\ ~(n <= k)
      BY <2>3
    <3> HIDE DEF Fine
    <3> QED
      BY <2>2, <3>1
  <2> QED
    BY <1>3, <2>3, <2>4
<1> QED
  BY <1>1, <1>2, <1>4

--------------------------------------------------------------------------------
(* What the binder reported of a tree, against the rules.  A call is asked for  *)
(* the type of a node under the names declared so far.                          *)

Questions(S) == [ node : Nat, env : Environments(S) ]
Question(n, env) == [ node |-> n, env |-> env ]

\* The node a waiting call asks for, and the names it asks with.
Awaited(tree, frame) ==
    CASE frame.fn = "unary" -> tree.nodes[frame.syntax].kids[2]
      [] frame.fn = "left"  -> tree.nodes[frame.syntax].kids[1]
      [] OTHER              -> tree.nodes[frame.syntax].kids[3]
Asks(tree, typing, cells, frame, from, to) ==
    /\ typing[frame.syntax] = typing[from.node]
    /\ to.node = Awaited(tree, frame)
    /\ IF frame.fn = "right"
       THEN LET left == typing[tree.nodes[frame.syntax].kids[1]][from.env] IN
            left.ok /\ left.type = cells[frame.held[1]].type /\ to.env = left.env
       ELSE to.env = from.env

\* No call is asked in vain: what has no type takes the type of the tree with it.
IllTyped(typing, q) == ~typing[q.node][q.env].ok
Whole(tree) == Question(tree.nodes[tree.root].kids[1], NoNames)
Asked(tree, typing, cells, calls, at) ==
    /\ at \in [ 1..Len(calls) + 1 -> Questions(ObjectTypes) ] /\ at[1] = Whole(tree)
    /\ \A i \in 1..Len(calls) : Asks(tree, typing, cells, calls[i], at[i], at[i + 1])
    /\ \A i \in 1..Len(calls) + 1 : IllTyped(typing, at[i]) => IllTyped(typing, Whole(tree))

\* The call that is running has the question yet to answer, or has answered it.
TypesOf(cells, names) == [ name \in DOMAIN names |-> cells[names[name]].type ]
Answers(typing, cells, names, call, q) ==
    IF call.fn = "bind"
    THEN typing[call.node] = typing[q.node] /\ q.env = TypesOf(cells, names)
    ELSE LET answer == typing[q.node][q.env] IN
         answer.ok /\ answer.type = cells[call.node].type /\ answer.env = TypesOf(cells, names)

RulesInv ==
    IF reports # <<>> THEN IllTyped(Typing, Whole(syntax))
    ELSE IF binder.fn = "done"
    THEN ~IllTyped(Typing, Whole(syntax)) /\ Typing[Expression][NoNames].type = heap[binder.node].type
    ELSE \E at : /\ Asked(syntax, Typing, heap, binder_stack, at)
                 /\ Answers(Typing, heap, scope, binder, at[Len(binder_stack) + 1])

\* A question more, and the one before again.
LEMMA AskMore ==
  ASSUME NEW tree, NEW typing, NEW cells, NEW calls \in Seq(BinderFrame),
         NEW at, Asked(tree, typing, cells, calls, at), NEW frame \in BinderFrame,
         NEW q \in Questions(ObjectTypes), Asks(tree, typing, cells, frame, at[Len(calls) + 1], q),
         IllTyped(typing, q) => IllTyped(typing, Whole(tree))
  PROVE  \E more : /\ Asked(tree, typing, cells, Append(calls, frame), more)
                   /\ more[Len(Append(calls, frame)) + 1] = q
<1>1. PICK size \in Nat : size = Len(calls)
  OBVIOUS
<1>2. PICK longer \in Seq(BinderFrame) :
         /\ longer = Append(calls, frame) /\ Len(longer) = size + 1
         /\ longer[size + 1] = frame /\ \A i \in 1..size : longer[i] = calls[i]
  <2>1. Append(calls, frame) \in Seq(BinderFrame)
    BY PushOne
  <2>2. /\ Len(Append(calls, frame)) = size + 1 /\ Append(calls, frame)[size + 1] = frame
        /\ \A i \in 1..size : Append(calls, frame)[i] = calls[i]
    BY <1>1, PushOne
  <2> QED
    BY <2>1, <2>2
<1>3. PICK more : more = [ i \in 1..size + 2 |-> IF i = size + 2 THEN q ELSE at[i] ]
  OBVIOUS
<1>4. at \in [ 1..size + 1 -> Questions(ObjectTypes) ] /\ at[1] = Whole(tree)
  BY <1>1 DEF Asked
<1>5. /\ 1 \in 1..size + 1 /\ size + 1 \in 1..size + 1 /\ size + 2 \in 1..size + 2 /\ size + 1 + 1 = size + 2
      /\ \A i \in 1..size + 1 : i \in 1..size + 2 /\ i # size + 2 /\ i + 1 \in 1..size + 2
      /\ \A i \in 1..size + 2 : i = size + 2 \/ i \in 1..size + 1
      /\ \A i \in 1..size + 1 : i = size + 1 \/ i \in 1..size
      /\ \A i \in 1..size : i \in 1..size + 1 /\ i + 1 \in 1..size + 1
  BY <1>1
<1>6. more[size + 2] = q /\ \A i \in 1..size + 1 : more[i] = at[i]
  BY <1>3, <1>5
<1>7. more \in [ 1..size + 2 -> Questions(ObjectTypes) ]
  <2>1. \A i \in 1..size + 2 : (IF i = size + 2 THEN q ELSE at[i]) \in Questions(ObjectTypes)
    BY <1>4, <1>5
  <2> QED
    BY <1>3, <2>1
<1>8. more[1] = Whole(tree)
  BY <1>4, <1>5, <1>6
<1>9. ASSUME NEW i \in 1..size + 1
      PROVE  Asks(tree, typing, cells, longer[i], more[i], more[i + 1])
  <2>1. CASE i = size + 1
    BY <1>1, <1>2, <1>5, <1>6, <2>1
  <2>2. CASE i # size + 1
    <3>1. i \in 1..size
      BY <1>5, <2>2
    <3>2. more[i] = at[i] /\ more[i + 1] = at[i + 1] /\ longer[i] = calls[i]
      BY <1>2, <1>5, <1>6, <3>1
    <3>3. Asks(tree, typing, cells, calls[i], at[i], at[i + 1])
      BY <1>1, <3>1 DEF Asked
    <3> QED
      BY <3>2, <3>3
  <2> QED
    BY <2>1, <2>2
<1>10. ASSUME NEW i \in 1..size + 2, IllTyped(typing, more[i]) PROVE IllTyped(typing, Whole(tree))
  <2>1. CASE i = size + 2
    BY <1>6, <1>10, <2>1
  <2>2. CASE i # size + 2
    <3>1. i \in 1..size + 1 /\ more[i] = at[i]
      BY <1>5, <1>6, <2>2
    <3> QED
      BY <1>1, <1>10, <3>1 DEF Asked
  <2> QED
    BY <2>1, <2>2
<1> QED
  BY <1>2, <1>5, <1>6, <1>7, <1>8, <1>9, <1>10 DEF Asked

LEMMA AskLess ==
  ASSUME NEW tree, NEW typing, NEW cells, NEW calls \in Seq(BinderFrame), calls # <<>>,
         NEW at, Asked(tree, typing, cells, calls, at)
  PROVE  \E less, q :
            /\ Asked(tree, typing, cells, SubSeq(calls, 1, Len(calls) - 1), less)
            /\ q \in Questions(ObjectTypes) /\ q = less[Len(SubSeq(calls, 1, Len(calls) - 1)) + 1]
            /\ Asks(tree, typing, cells, calls[Len(calls)], q, at[Len(calls) + 1])
            /\ IllTyped(typing, q) => IllTyped(typing, Whole(tree))
<1>1. PICK size \in Nat : size + 1 = Len(calls) /\ Len(calls) - 1 = size /\ Len(calls) + 1 = size + 2
  <2>1. Len(calls) \in Nat \ {0}
    BY PopOne
  <2> QED
    BY <2>1
<1>2. PICK rest \in Seq(BinderFrame) : /\ rest = SubSeq(calls, 1, Len(calls) - 1) /\ Len(rest) = size
                                       /\ \A i \in 1..size : rest[i] = calls[i]
  BY <1>1, PopOne
<1>3. PICK less : less = [ i \in 1..size + 1 |-> at[i] ]
  OBVIOUS
<1>4. /\ \A i \in 1..size + 1 : i \in 1..size + 2
      /\ \A i \in 1..size : i \in 1..size + 1 /\ i + 1 \in 1..size + 1
      /\ 1 \in 1..size + 1 /\ size + 1 \in 1..size + 1 /\ size + 1 + 1 = size + 2
  BY <1>1
<1>5. /\ at \in [ 1..size + 2 -> Questions(ObjectTypes) ] /\ at[1] = Whole(tree)
      /\ \A i \in 1..size + 1 : Asks(tree, typing, cells, calls[i], at[i], at[i + 1])
      /\ \A i \in 1..size + 2 : IllTyped(typing, at[i]) => IllTyped(typing, Whole(tree))
  BY <1>1 DEF Asked
<1>6. less \in [ 1..size + 1 -> Questions(ObjectTypes) ] /\ \A i \in 1..size + 1 : less[i] = at[i]
  BY <1>3, <1>4, <1>5
<1>7. ASSUME NEW i \in 1..size PROVE Asks(tree, typing, cells, rest[i], less[i], less[i + 1])
  BY <1>2, <1>4, <1>5, <1>6
<1>8. \A i \in 1..size + 1 : IllTyped(typing, less[i]) => IllTyped(typing, Whole(tree))
  BY <1>4, <1>5, <1>6
<1>9. less[1] = Whole(tree)
  BY <1>4, <1>5, <1>6
<1>10. Asked(tree, typing, cells, rest, less)
  BY <1>2, <1>6, <1>7, <1>8, <1>9 DEF Asked
<1>11. PICK q \in Questions(ObjectTypes) : q = less[size + 1]
  BY <1>4, <1>6
<1>12. Asks(tree, typing, cells, calls[Len(calls)], q, at[Len(calls) + 1])
  BY <1>1, <1>4, <1>5, <1>6, <1>11
<1>13. IllTyped(typing, q) => IllTyped(typing, Whole(tree))
  BY <1>4, <1>8, <1>11
<1> QED
  BY <1>2, <1>10, <1>11, <1>12, <1>13

\* New cells do not change what was asked.
LEMMA AskedKept ==
  ASSUME NEW tree, NEW typing, NEW old \in Seq(Cell), NEW new \in Seq(Cell), Extends(old, new),
         NEW calls \in Seq(BinderFrame), \A i \in 1..Len(calls) : Waiting(tree, old, calls[i]),
         NEW at, Asked(tree, typing, old, calls, at)
  PROVE  Asked(tree, typing, new, calls, at)
<1>1. ASSUME NEW i \in 1..Len(calls), calls[i].fn = "right"
      PROVE  new[calls[i].held[1]] = old[calls[i].held[1]]
  BY <1>1, BuildsKept DEF Waiting
<1> QED
  BY <1>1 DEF Asked, Asks

LEMMA TypesKept ==
  ASSUME NEW old \in Seq(Cell), NEW new \in Seq(Cell), Extends(old, new),
         NEW names, \A name \in DOMAIN names : name \in Name /\ IsSymbol(old, names[name])
  PROVE  TypesOf(new, names) = TypesOf(old, names)
<1>1. \A name \in DOMAIN names : new[names[name]] = old[names[name]]
  BY BuildsKept
<1> QED
  BY <1>1 DEF TypesOf

\* The rules of a tree do not depend on anything else.
LEMMA TypingKept ==
  ASSUME syntax' = syntax
  PROVE  Typing' = Typing /\ Expression' = Expression
<1>1. Expression' = Expression
  BY DEF Expression
<1>2. Typing' = Typing
  BY DEF Typing, TypingIn, KindOf, Kid, TextOf, LiteralValue
<1> QED
  BY <1>1, <1>2

\* Cells that are added come after those there are.
LEMMA GrowByOne ==
  ASSUME NEW s \in Seq(Cell), NEW a
  PROVE  Extends(s, Append(s, a)) /\ Append(s, a)[Len(s) + 1] = a
<1>1. PICK S : S = Cell \cup { a }
  OBVIOUS
<1>2. s \in Seq(S) /\ a \in S /\ Len(s) \in Nat
  BY <1>1
<1>3. /\ Len(Append(s, a)) = Len(s) + 1 /\ Append(s, a)[Len(s) + 1] = a
      /\ \A i \in 1..Len(s) : Append(s, a)[i] = s[i]
  BY <1>2, PushOne
<1> QED
  BY <1>2, <1>3 DEF Extends

LEMMA GrowByTwo ==
  ASSUME NEW s \in Seq(Cell), NEW a, NEW b
  PROVE  Extends(s, s \o << a, b >>) /\ (s \o << a, b >>)[Len(s) + 2] = b
<1>1. PICK S : S = Cell \cup { a, b }
  OBVIOUS
<1>2. s \in Seq(S) /\ a \in S /\ b \in S /\ Len(s) \in Nat
  BY <1>1
<1>3. /\ Len(s \o << a, b >>) = Len(s) + 2 /\ (s \o << a, b >>)[Len(s) + 2] = b
      /\ \A i \in 1..Len(s) : (s \o << a, b >>)[i] = s[i]
  BY <1>2, PushTwo
<1> QED
  BY <1>2, <1>3 DEF Extends

LEMMA GrowByThree ==
  ASSUME NEW s \in Seq(Cell), NEW a, NEW b, NEW c
  PROVE  /\ Extends(s, s \o << a, b, c >>)
         /\ (s \o << a, b, c >>)[Len(s) + 1] = a
         /\ (s \o << a, b, c >>)[Len(s) + 2] = b /\ (s \o << a, b, c >>)[Len(s) + 3] = c
<1>1. PICK S : S = Cell \cup { a, b, c }
  OBVIOUS
<1>2. s \in Seq(S) /\ a \in S /\ b \in S /\ c \in S
  BY <1>1
<1>3. PICK size \in Nat : size = Len(s)
  OBVIOUS
<1>4. PICK t \in Seq(S) : /\ t = s \o << a, b >> /\ Len(t) = size + 2 /\ t[size + 1] = a /\ t[size + 2] = b
                          /\ \A i \in 1..size : t[i] = s[i]
  <2>1. /\ s \o << a, b >> \in Seq(S) /\ Len(s \o << a, b >>) = size + 2
        /\ (s \o << a, b >>)[size + 1] = a /\ (s \o << a, b >>)[size + 2] = b
        /\ \A i \in 1..size : (s \o << a, b >>)[i] = s[i]
    BY <1>2, <1>3, PushTwo
  <2> QED
    BY <2>1
<1>5. s \o << a, b, c >> = Append(t, c)
  <2>1. s \o << a, b, c >> = Append(Append(Append(s, a), b), c)
    BY <1>2, PushThrice
  <2>2. s \o << a, b >> = Append(Append(s, a), b)
    BY <1>2, PushTwice
  <2> QED
    BY <1>4, <2>1, <2>2
<1>6. PICK u : u = Append(t, c) /\ Len(u) = size + 3 /\ u[size + 3] = c /\ \A i \in 1..size + 2 : u[i] = t[i]
  <2>1. /\ Len(Append(t, c)) = size + 2 + 1 /\ Append(t, c)[size + 2 + 1] = c
        /\ \A i \in 1..size + 2 : Append(t, c)[i] = t[i]
    BY <1>2, <1>4, PushOne
  <2>2. size + 2 + 1 = size + 3
    OBVIOUS
  <2> QED
    BY <2>1, <2>2
<1>7. /\ size + 1 \in 1..size + 2 /\ size + 2 \in 1..size + 2 /\ size <= size + 3 /\ \A i \in 1..size : i \in 1..size + 2
  OBVIOUS
<1>8. u[size + 1] = a /\ u[size + 2] = b /\ \A i \in 1..size : u[i] = s[i]
  BY <1>4, <1>6, <1>7
<1> QED
  BY <1>3, <1>5, <1>6, <1>7, <1>8 DEF Extends

\* What was asked of the running call, and the names it has to answer with.
LEMMA AskedNow ==
  ASSUME BinderInv, RulesInv, reports = <<>>, binder.fn # "done"
  PROVE  \E at, q :
            /\ Asked(syntax, Typing, heap, binder_stack, at)
            /\ q \in Questions(ObjectTypes) /\ q = at[Len(binder_stack) + 1]
            /\ Answers(Typing, heap, scope, binder, q)
            /\ IllTyped(Typing, q) => IllTyped(Typing, Whole(syntax))
<1>1. PICK at : /\ Asked(syntax, Typing, heap, binder_stack, at)
                /\ Answers(Typing, heap, scope, binder, at[Len(binder_stack) + 1])
  BY DEF RulesInv
<1>2. binder_stack \in Seq(BinderFrame)
  BY DEF BinderInv, BoundBy
<1>3. Len(binder_stack) + 1 \in 1..Len(binder_stack) + 1
  BY <1>2
<1>4. PICK q \in Questions(ObjectTypes) : q = at[Len(binder_stack) + 1]
  BY <1>1, <1>3 DEF Asked
<1>5. IllTyped(Typing, q) => IllTyped(Typing, Whole(syntax))
  BY <1>1, <1>3, <1>4 DEF Asked
<1> QED
  BY <1>1, <1>4, <1>5

\* And what is to be shown of a step.
LEMMA AnsweredNow ==
  ASSUME syntax' = syntax, reports' = <<>>, binder'.fn # "done",
         NEW at, Asked(syntax, Typing, heap', binder_stack', at),
         Answers(Typing, heap', scope', binder', at[Len(binder_stack') + 1])
  PROVE  RulesInv'
<1>1. Typing' = Typing
  BY TypingKept
<1> QED
  BY <1>1 DEF RulesInv

LEMMA ReportedNow ==
  ASSUME syntax' = syntax, reports' # <<>>, IllTyped(Typing, Whole(syntax))
  PROVE  RulesInv'
<1>1. Typing' = Typing
  BY TypingKept
<1> QED
  BY <1>1 DEF RulesInv

LEMMA AReport ==
  ASSUME reports \in Seq(BinderReports), NEW report, reports' = Append(reports, report)
  PROVE  reports' # <<>>
<1>1. PICK S : S = BinderReports \cup { report }
  OBVIOUS
<1>2. reports \in Seq(S) /\ report \in S
  BY <1>1
<1>3. Len(reports') = Len(reports) + 1 /\ Len(reports) \in Nat
  BY <1>2, PushOne
<1> QED
  BY <1>3

\* A call that is bound answers its question.
LEMMA BindingAsked ==
  ASSUME BinderInv, RulesInv, reports = <<>>, NEW kind, Binding(kind)
  PROVE  \E at, q :
            /\ Asked(syntax, Typing, heap, binder_stack, at)
            /\ q \in Questions(ObjectTypes) /\ q = at[Len(binder_stack) + 1]
            /\ Typing[binder.node] = Typing[q.node] /\ q.env = TypesOf(heap, scope)
            /\ q.env \in Environments(ObjectTypes)
            /\ IllTyped(Typing, q) => IllTyped(Typing, Whole(syntax))
<1>1. binder.fn = "bind"
  BY DEF Binding
<1>2. PICK at, q :
         /\ Asked(syntax, Typing, heap, binder_stack, at)
         /\ q \in Questions(ObjectTypes) /\ q = at[Len(binder_stack) + 1]
         /\ Answers(Typing, heap, scope, binder, q)
         /\ IllTyped(Typing, q) => IllTyped(Typing, Whole(syntax))
  BY <1>1, AskedNow
<1>3. q.env \in Environments(ObjectTypes)
  BY <1>2 DEF Questions
<1> QED
  BY <1>1, <1>2, <1>3 DEF Answers

\* A node that is answered with a cell at once.
LEMMA RulesAnswer ==
  ASSUME BinderInv, BinderInv', RulesInv, reports = <<>>, NEW kind, Binding(kind),
         Extends(heap, heap'), reports' = reports, UNCHANGED << syntax, scope, binder_stack >>,
         NEW m, binder' = Bound(m),
         \A e, t : (e \in Environments(ObjectTypes) /\ e = TypesOf(heap, scope) /\ t = Typing[binder.node][e])
                      => t.ok /\ t.type = heap'[m].type /\ t.env = e
  PROVE  RulesInv'
<1>1. PICK at, q :
         /\ Asked(syntax, Typing, heap, binder_stack, at)
         /\ q \in Questions(ObjectTypes) /\ q = at[Len(binder_stack) + 1]
         /\ Typing[binder.node] = Typing[q.node] /\ q.env = TypesOf(heap, scope)
         /\ q.env \in Environments(ObjectTypes)
  BY BindingAsked
<1>2. /\ heap \in Seq(Cell) /\ heap' \in Seq(Cell) /\ binder_stack \in Seq(BinderFrame)
      /\ \A i \in 1..Len(binder_stack) : Waiting(syntax, heap, binder_stack[i])
      /\ \A name \in DOMAIN scope : name \in Name /\ IsSymbol(heap, scope[name])
  BY DEF BinderInv, BoundBy
<1>3. Asked(syntax, Typing, heap', binder_stack, at)
  BY <1>1, <1>2, AskedKept
<1>4. TypesOf(heap', scope) = TypesOf(heap, scope)
  BY <1>2, TypesKept
<1>5. PICK t : t = Typing[q.node][q.env]
  OBVIOUS
<1>6. t.ok /\ t.type = heap'[m].type /\ t.env = TypesOf(heap', scope)
  BY <1>1, <1>4, <1>5
<1>7. Answers(Typing, heap', scope, Bound(m), q)
  BY <1>5, <1>6 DEF Answers, Bound
<1> QED
  BY <1>1, <1>3, <1>7, AnsweredNow DEF Bound

\* A node that has to ask for the type of a kid first.
LEMMA RulesSuspend ==
  ASSUME BinderInv, BinderInv', RulesInv, reports = <<>>, NEW kind, Binding(kind),
         reports' = reports, UNCHANGED << syntax, heap, scope >>,
         NEW fn \in { "unary", "left", "assignment" }, NEW kid \in Nat,
         binder_stack' = Append(binder_stack, Await(fn, binder.node, <<>>)), binder' = Bind(kid),
         Awaited(syntax, Await(fn, binder.node, <<>>)) = kid,
         \A e \in Environments(ObjectTypes) : ~Typing[kid][e].ok => ~Typing[binder.node][e].ok
  PROVE  RulesInv'
<1>1. PICK at, q :
         /\ Asked(syntax, Typing, heap, binder_stack, at)
         /\ q \in Questions(ObjectTypes) /\ q = at[Len(binder_stack) + 1]
         /\ Typing[binder.node] = Typing[q.node] /\ q.env = TypesOf(heap, scope)
         /\ q.env \in Environments(ObjectTypes)
         /\ IllTyped(Typing, q) => IllTyped(Typing, Whole(syntax))
  BY BindingAsked
<1>2. binder_stack \in Seq(BinderFrame) /\ binder.node \in Nat
  BY DEF BinderInv, BoundBy, BinderCall
<1>3. PICK frame \in BinderFrame : /\ frame = Await(fn, binder.node, <<>>) /\ frame.fn # "right"
                                   /\ frame.syntax = binder.node
  BY <1>2, AwaitIs
<1>4. PICK r : r = Question(kid, q.env)
  OBVIOUS
<1>5. r \in Questions(ObjectTypes) /\ r.node = kid /\ r.env = q.env
  BY <1>1, <1>4 DEF Question, Questions
<1>6. Asks(syntax, Typing, heap, frame, q, r)
  BY <1>1, <1>3, <1>5 DEF Asks
<1>7. IllTyped(Typing, r) => IllTyped(Typing, Whole(syntax))
  <2> SUFFICES ASSUME IllTyped(Typing, r) PROVE IllTyped(Typing, q)
    BY <1>1
  <2>1. ~Typing[kid][q.env].ok
    BY <1>5 DEF IllTyped
  <2>2. ~Typing[binder.node][q.env].ok
    BY <1>1, <2>1
  <2> QED
    BY <1>1, <2>2 DEF IllTyped
<1>8. PICK more : /\ Asked(syntax, Typing, heap, Append(binder_stack, frame), more)
                  /\ more[Len(Append(binder_stack, frame)) + 1] = r
  BY <1>1, <1>2, <1>5, <1>6, <1>7, AskMore
<1>9. Answers(Typing, heap, scope, Bind(kid), r)
  BY <1>1, <1>5 DEF Answers, Bind
<1> QED
  BY <1>3, <1>8, <1>9, AnsweredNow DEF Bind

\* The steps that bind a node.
LEMMA BindLiteralRules ==
  ASSUME BinderInv, BinderInv', RulesInv, reports = <<>>, BindLiteral PROVE RulesInv'
<1>1. Binding("LITERAL_EXPRESSION")
  BY DEF BindLiteral
<1>2. /\ IsSyntaxTree(syntax) /\ binder.node \in 1..Len(syntax.nodes)
      /\ KindOf(binder.node) = "LITERAL_EXPRESSION" /\ heap \in Seq(Cell)
  BY <1>1, BindingIs
<1>3. PICK value : value = LiteralValue(binder.node)
  OBVIOUS
<1>4. /\ heap' = Append(heap, Literal(value)) /\ binder' = Bound(Len(heap) + 1) /\ reports' = reports
      /\ UNCHANGED << syntax, scope, binder_stack >>
  BY <1>3 DEF BindLiteral, TreeUnchanged
<1>5. Extends(heap, heap') /\ heap'[Len(heap) + 1] = Literal(value)
  BY <1>2, <1>4, GrowByOne
<1>6. ASSUME NEW e, NEW t, e \in Environments(ObjectTypes), e = TypesOf(heap, scope),
             t = Typing[binder.node][e]
      PROVE  t.ok /\ t.type = heap'[Len(heap) + 1].type /\ t.env = e
  <2>1. t.ok /\ t.type = value.type /\ t.env = e
    BY <1>2, <1>3, <1>6, LiteralTyping
  <2> QED
    BY <1>5, <2>1 DEF Literal
<1> QED
  BY <1>1, <1>4, <1>5, <1>6, RulesAnswer

LEMMA BindUnaryRules ==
  ASSUME BinderInv, BinderInv', RulesInv, reports = <<>>, BindUnary PROVE RulesInv'
<1>1. Binding("UNARY_EXPRESSION")
  BY DEF BindUnary
<1>2. /\ IsSyntaxTree(syntax) /\ binder.node \in 1..Len(syntax.nodes)
      /\ KindOf(binder.node) = "UNARY_EXPRESSION"
  BY <1>1, BindingIs
<1>3. PICK kid \in Nat : kid = Kid(binder.node, 2)
  BY <1>2, KidsAreOlder
<1>4. /\ binder_stack' = Append(binder_stack, Await("unary", binder.node, <<>>)) /\ binder' = Bind(kid)
      /\ reports' = reports /\ UNCHANGED << syntax, heap, scope >>
  BY <1>3 DEF BindUnary, TreeUnchanged
<1>5. Awaited(syntax, Await("unary", binder.node, <<>>)) = kid
  BY <1>3 DEF Awaited, Await, Kid
<1>6. ASSUME NEW e \in Environments(ObjectTypes), ~Typing[kid][e].ok PROVE ~Typing[binder.node][e].ok
  <2>1. PICK t, operand : t = Typing[binder.node][e] /\ operand = Typing[Kid(binder.node, 2)][e]
    OBVIOUS
  <2>2. PICK types : types = Signature(KindOf(Kid(binder.node, 1)), << operand.type >>)
    OBVIOUS
  <2>3. t.ok => operand.ok
    BY <1>2, <2>1, <2>2, UnaryTyping
  <2> QED
    BY <1>3, <1>6, <2>1, <2>3
<1> QED
  BY <1>1, <1>4, <1>5, <1>6, RulesSuspend

LEMMA BindBinaryRules ==
  ASSUME BinderInv, BinderInv', RulesInv, reports = <<>>, BindBinary PROVE RulesInv'
<1>1. Binding("BINARY_EXPRESSION")
  BY DEF BindBinary
<1>2. /\ IsSyntaxTree(syntax) /\ binder.node \in 1..Len(syntax.nodes)
      /\ KindOf(binder.node) = "BINARY_EXPRESSION"
  BY <1>1, BindingIs
<1>3. PICK kid \in Nat : kid = Kid(binder.node, 1)
  BY <1>2, KidsAreOlder
<1>4. /\ binder_stack' = Append(binder_stack, Await("left", binder.node, <<>>)) /\ binder' = Bind(kid)
      /\ reports' = reports /\ UNCHANGED << syntax, heap, scope >>
  BY <1>3 DEF BindBinary, TreeUnchanged
<1>5. Awaited(syntax, Await("left", binder.node, <<>>)) = kid
  BY <1>3 DEF Awaited, Await, Kid
<1>6. ASSUME NEW e \in Environments(ObjectTypes), ~Typing[kid][e].ok PROVE ~Typing[binder.node][e].ok
  <2>1. PICK t, left : t = Typing[binder.node][e] /\ left = Typing[Kid(binder.node, 1)][e]
    OBVIOUS
  <2>2. PICK right : right = Typing[Kid(binder.node, 3)][left.env]
    OBVIOUS
  <2>3. PICK types : types = Signature(KindOf(Kid(binder.node, 2)), << left.type, right.type >>)
    OBVIOUS
  <2>4. t.ok => left.ok
    BY <1>2, <2>1, <2>2, <2>3, BinaryTyping
  <2> QED
    BY <1>3, <1>6, <2>1, <2>4
<1> QED
  BY <1>1, <1>4, <1>5, <1>6, RulesSuspend

LEMMA BindAssignmentRules ==
  ASSUME BinderInv, BinderInv', RulesInv, reports = <<>>, BindAssignment PROVE RulesInv'
<1>1. Binding("ASSIGNMENT_EXPRESSION")
  BY DEF BindAssignment
<1>2. /\ IsSyntaxTree(syntax) /\ binder.node \in 1..Len(syntax.nodes)
      /\ KindOf(binder.node) = "ASSIGNMENT_EXPRESSION"
  BY <1>1, BindingIs
<1>3. PICK kid \in Nat : kid = Kid(binder.node, 3)
  BY <1>2, KidsAreOlder
<1>4. /\ binder_stack' = Append(binder_stack, Await("assignment", binder.node, <<>>)) /\ binder' = Bind(kid)
      /\ reports' = reports /\ UNCHANGED << syntax, heap, scope >>
  BY <1>3 DEF BindAssignment, TreeUnchanged
<1>5. Awaited(syntax, Await("assignment", binder.node, <<>>)) = kid
  BY <1>3 DEF Awaited, Await, Kid
<1>6. ASSUME NEW e \in Environments(ObjectTypes), ~Typing[kid][e].ok PROVE ~Typing[binder.node][e].ok
  <2>1. PICK t, right : t = Typing[binder.node][e] /\ right = Typing[Kid(binder.node, 3)][e]
    OBVIOUS
  <2>2. t.ok => right.ok
    BY <1>2, <2>1, AssignmentTyping
  <2> QED
    BY <1>3, <1>6, <2>1, <2>2
<1> QED
  BY <1>1, <1>4, <1>5, <1>6, RulesSuspend

LEMMA BindParenthesizedRules ==
  ASSUME BinderInv, BinderInv', RulesInv, reports = <<>>, BindParenthesized PROVE RulesInv'
<1>1. Binding("PARENTHESIZED_EXPRESSION")
  BY DEF BindParenthesized
<1>2. /\ IsSyntaxTree(syntax) /\ binder.node \in 1..Len(syntax.nodes)
      /\ KindOf(binder.node) = "PARENTHESIZED_EXPRESSION"
  BY <1>1, BindingIs
<1>3. PICK kid : kid = Kid(binder.node, 2)
  OBVIOUS
<1>4. /\ binder' = Bind(kid) /\ reports' = reports /\ UNCHANGED << syntax, heap, scope, binder_stack >>
  BY <1>3 DEF BindParenthesized, TreeUnchanged
<1>5. Typing[binder.node] = Typing[kid]
  BY <1>2, <1>3, ParenthesizedTyping
<1>6. PICK at, q :
         /\ Asked(syntax, Typing, heap, binder_stack, at)
         /\ q = at[Len(binder_stack) + 1]
         /\ Typing[binder.node] = Typing[q.node] /\ q.env = TypesOf(heap, scope)
  BY <1>1, BindingAsked
<1>7. Answers(Typing, heap, scope, Bind(kid), q)
  BY <1>5, <1>6 DEF Answers, Bind
<1> QED
  BY <1>4, <1>6, <1>7, AnsweredNow DEF Bind

LEMMA BindDeclaredNameRules ==
  ASSUME BinderInv, BinderInv', RulesInv, reports = <<>>, BindDeclaredName PROVE RulesInv'
<1>1. Binding("NAME_EXPRESSION")
  BY DEF BindDeclaredName
<1>2. /\ IsSyntaxTree(syntax) /\ binder.node \in 1..Len(syntax.nodes)
      /\ KindOf(binder.node) = "NAME_EXPRESSION" /\ heap \in Seq(Cell)
  BY <1>1, BindingIs
<1>3. PICK name : name = TextOf(Kid(binder.node, 1))
  OBVIOUS
<1>4. PICK type : type = heap[scope[name]].type
  OBVIOUS
<1>5. /\ name \in DOMAIN scope
      /\ heap' = heap \o << Symbol(name, type), Variable(Len(heap) + 1, type) >>
      /\ binder' = Bound(Len(heap) + 2) /\ reports' = reports
      /\ UNCHANGED << syntax, scope, binder_stack >>
  BY <1>3, <1>4 DEF BindDeclaredName, TreeUnchanged
<1>6. Extends(heap, heap') /\ heap'[Len(heap) + 2] = Variable(Len(heap) + 1, type)
  BY <1>2, <1>5, GrowByTwo
<1>7. ASSUME NEW e, NEW t, e \in Environments(ObjectTypes), e = TypesOf(heap, scope),
             t = Typing[binder.node][e]
      PROVE  t.ok /\ t.type = heap'[Len(heap) + 2].type /\ t.env = e
  <2>1. DOMAIN e = DOMAIN scope /\ e[name] = type
    BY <1>4, <1>5, <1>7 DEF TypesOf
  <2>2. t.ok /\ t.type = e[name] /\ t.env = e
    BY <1>2, <1>3, <1>5, <1>7, <2>1, NameTyping
  <2> QED
    BY <1>6, <2>1, <2>2 DEF Variable
<1> QED
  BY <1>1, <1>5, <1>6, <1>7, RulesAnswer

LEMMA BindUndefinedNameRules ==
  ASSUME BinderInv, BinderInv', RulesInv, reports = <<>>, BindUndefinedName PROVE RulesInv'
<1>1. Binding("NAME_EXPRESSION")
  BY DEF BindUndefinedName
<1>2. /\ IsSyntaxTree(syntax) /\ binder.node \in 1..Len(syntax.nodes)
      /\ KindOf(binder.node) = "NAME_EXPRESSION" /\ reports \in Seq(BinderReports)
  BY <1>1, BindingIs
<1>3. PICK name : name = TextOf(Kid(binder.node, 1))
  OBVIOUS
<1>4. name \notin DOMAIN scope /\ reports' = Append(reports, "undefined_name") /\ syntax' = syntax
  BY <1>3 DEF BindUndefinedName, TreeUnchanged
<1>5. PICK q :
         /\ Typing[binder.node] = Typing[q.node] /\ q.env = TypesOf(heap, scope)
         /\ q.env \in Environments(ObjectTypes)
         /\ IllTyped(Typing, q) => IllTyped(Typing, Whole(syntax))
  BY <1>1, BindingAsked
<1>6. PICK t : t = Typing[binder.node][q.env]
  OBVIOUS
<1>7. DOMAIN q.env = DOMAIN scope
  BY <1>5 DEF TypesOf
<1>8. ~t.ok
  BY <1>2, <1>3, <1>4, <1>5, <1>6, <1>7, NameTyping
<1>9. IllTyped(Typing, Whole(syntax))
  BY <1>5, <1>6, <1>8 DEF IllTyped
<1>10. reports' # <<>>
  BY <1>2, <1>4, AReport
<1> QED
  BY <1>4, <1>9, <1>10, ReportedNow

\* A call that returns answers the question of the one that waits for it.
LEMMA ReturningAsked ==
  ASSUME BinderInv, RulesInv, reports = <<>>, NEW fn, BinderReturning(fn)
  PROVE  \E less, r, q, t :
            /\ Asked(syntax, Typing, heap, BinderPop, less)
            /\ r \in Questions(ObjectTypes) /\ r = less[Len(BinderPop) + 1]
            /\ r.env \in Environments(ObjectTypes) /\ q.env \in Environments(ObjectTypes)
            /\ Asks(syntax, Typing, heap, BinderTop, r, q)
            /\ t = Typing[q.node][q.env] /\ t.ok
            /\ t.type = heap[binder.node].type /\ t.env = TypesOf(heap, scope)
            /\ IllTyped(Typing, r) => IllTyped(Typing, Whole(syntax))
<1>1. binder.fn = "return" /\ binder_stack # <<>> /\ binder_stack \in Seq(BinderFrame)
  BY DEF BinderReturning, BinderInv, BoundBy
<1>2. PICK at, q :
         /\ Asked(syntax, Typing, heap, binder_stack, at)
         /\ q \in Questions(ObjectTypes) /\ q = at[Len(binder_stack) + 1]
         /\ Answers(Typing, heap, scope, binder, q)
  BY <1>1, AskedNow
<1>3. PICK t : t = Typing[q.node][q.env] /\ t.ok
               /\ t.type = heap[binder.node].type /\ t.env = TypesOf(heap, scope)
  BY <1>1, <1>2 DEF Answers
<1>4. PICK less, r :
         /\ Asked(syntax, Typing, heap, BinderPop, less)
         /\ r \in Questions(ObjectTypes) /\ r = less[Len(BinderPop) + 1]
         /\ Asks(syntax, Typing, heap, BinderTop, r, at[Len(binder_stack) + 1])
         /\ IllTyped(Typing, r) => IllTyped(Typing, Whole(syntax))
  BY <1>1, <1>2, AskLess DEF BinderPop, BinderTop
<1>5. r.env \in Environments(ObjectTypes) /\ q.env \in Environments(ObjectTypes)
  BY <1>2, <1>4 DEF Questions
<1> QED
  BY <1>2, <1>3, <1>4, <1>5

\* It may return a cell itself ...
LEMMA RulesReturn ==
  ASSUME BinderInv, BinderInv', NEW fn, BinderReturning(fn), Extends(heap, heap'), reports' = <<>>,
         syntax' = syntax, binder_stack' = BinderPop, NEW m, binder' = Bound(m),
         NEW less, Asked(syntax, Typing, heap, BinderPop, less), NEW r, r = less[Len(BinderPop) + 1],
         NEW t, t = Typing[r.node][r.env], t.ok, t.type = heap'[m].type, t.env = TypesOf(heap', scope')
  PROVE  RulesInv'
<1>1. /\ heap \in Seq(Cell) /\ heap' \in Seq(Cell) /\ BinderPop \in Seq(BinderFrame)
      /\ \A i \in 1..Len(BinderPop) : Waiting(syntax, heap, BinderPop[i])
  BY ReturningIs DEF BinderInv, BoundBy
<1>2. Asked(syntax, Typing, heap', BinderPop, less)
  BY <1>1, AskedKept
<1>3. Answers(Typing, heap', scope', Bound(m), r)
  BY DEF Answers, Bound
<1> QED
  BY <1>2, <1>3, AnsweredNow DEF Bound

\* With an operator for its operands, a binary expression has a type.
LEMMA BinaryIsTyped ==
  ASSUME IsSyntaxTree(syntax), NEW n \in 1..Len(syntax.nodes), NEW env \in Environments(ObjectTypes),
         NEW typing, typing = Typing[n][env], KindOf(n) = "BINARY_EXPRESSION",
         NEW left, left = Typing[Kid(n, 1)][env], NEW right, right = Typing[Kid(n, 3)][left.env],
         NEW types, types = Signature(KindOf(Kid(n, 2)), << left.type, right.type >>),
         left.ok, right.ok, types # {}
  PROVE  typing.ok
BY BinaryTyping

\* The steps that return to a call that waits: for an operand ...
LEMMA FinishUnaryRules ==
  ASSUME BinderInv, BinderInv', RulesInv, reports = <<>>, FinishUnary PROVE RulesInv'
<1>1. BinderReturning("unary")
  BY DEF FinishUnary
<1>2. /\ IsSyntaxTree(syntax) /\ heap \in Seq(Cell) /\ reports \in Seq(BinderReports)
      /\ BinderTop.fn = "unary" /\ Waiting(syntax, heap, BinderTop)
  BY <1>1, ReturningIs
<1>3. PICK n \in 1..Len(syntax.nodes) : n = BinderTop.syntax /\ KindOf(n) = "UNARY_EXPRESSION"
  BY <1>2 DEF Waiting, KindBoundBy, Kind, KindOf
<1>4. PICK less, r, q, operand :
         /\ Asked(syntax, Typing, heap, BinderPop, less)
         /\ r = less[Len(BinderPop) + 1] /\ r.env \in Environments(ObjectTypes)
         /\ Asks(syntax, Typing, heap, BinderTop, r, q)
         /\ operand = Typing[q.node][q.env] /\ operand.ok
         /\ operand.type = heap[binder.node].type /\ operand.env = TypesOf(heap, scope)
         /\ IllTyped(Typing, r) => IllTyped(Typing, Whole(syntax))
  BY <1>1, ReturningAsked
<1>5. Typing[n] = Typing[r.node] /\ operand = Typing[Kid(n, 2)][r.env]
  BY <1>2, <1>3, <1>4 DEF Asks, Awaited, Kid
<1>6. PICK t, types : t = Typing[n][r.env] /\ types = Signature(KindOf(Kid(n, 1)), << operand.type >>)
  OBVIOUS
<1>7. /\ t.ok <=> (operand.ok /\ types # {})
      /\ t.type = TypeIn(types) /\ t.env = operand.env
  <2>1. IsSyntaxTree(syntax) /\ r.env \in Environments(ObjectTypes) /\ KindOf(n) = "UNARY_EXPRESSION"
    BY <1>2, <1>3, <1>4
  <2> QED
    BY <1>5, <1>6, <2>1, UnaryTyping
<1>8. (t.ok => types # {}) /\ (types # {} => t.ok)
  BY <1>4, <1>7
<1>9. t.type = TypeIn(types) /\ t.env = operand.env
  BY <1>7
<1>10. PICK matches : matches = UnaryMatches(KindOf(Kid(n, 1)), heap[binder.node].type)
  OBVIOUS
<1>11. types = {} <=> matches = {}
  BY <1>4, <1>6, <1>10, SignaturesAreMatches
<1>12. \A op \in matches, type \in types : type = op.result_type
  BY <1>4, <1>6, <1>10, SignaturesAreMatches
<1>13. syntax' = syntax /\ scope' = scope /\ binder_stack' = BinderPop
  BY DEF FinishUnary, TreeUnchanged
<1>14. CASE matches = {}
  <2>1. reports' = Append(reports, "undefined_unary_operator")
    BY <1>3, <1>6, <1>10, <1>14 DEF FinishUnary
  <2>2. reports' # <<>>
    BY <1>2, <2>1, AReport
  <2>3. ~t.ok
    BY <1>8, <1>11, <1>14
  <2>4. IllTyped(Typing, Whole(syntax))
    BY <1>4, <1>5, <1>6, <2>3 DEF IllTyped
  <2> QED
    BY <1>13, <2>2, <2>4, ReportedNow
<1>15. CASE matches # {}
  <2>1. PICK op \in matches : heap' = Append(heap, Unary(op, binder.node))
    BY <1>3, <1>6, <1>10, <1>15 DEF FinishUnary
  <2>2. reports' = <<>> /\ binder' = Bound(Len(heap) + 1)
    BY <1>3, <1>6, <1>10, <1>15 DEF FinishUnary
  <2>3. Extends(heap, heap') /\ heap'[Len(heap) + 1] = Unary(op, binder.node)
    BY <1>2, <2>1, GrowByOne
  <2>4. TypeIn(types) = op.result_type
    BY <1>11, <1>12, <1>15 DEF TypeIn
  <2>5. t.type = heap'[Len(heap) + 1].type
    BY <1>9, <2>3, <2>4 DEF Unary
  <2>6. TypesOf(heap', scope') = TypesOf(heap, scope)
    <3>1. /\ heap' \in Seq(Cell)
          /\ \A name \in DOMAIN scope : name \in Name /\ IsSymbol(heap, scope[name])
      BY DEF BinderInv, BoundBy
    <3> QED
      BY <1>2, <1>13, <2>3, <3>1, TypesKept
  <2>7. t.ok /\ t.env = TypesOf(heap', scope')
    BY <1>4, <1>8, <1>9, <1>11, <1>15, <2>6
  <2>8. t = Typing[r.node][r.env]
    BY <1>5, <1>6
  <2> QED
    BY <1>1, <1>4, <1>13, <2>2, <2>3, <2>5, <2>7, <2>8, RulesReturn
<1> QED
  BY <1>14, <1>15

\* ... for the left one, which goes on to ask for the right one ...
LEMMA FinishLeftRules ==
  ASSUME BinderInv, BinderInv', RulesInv, reports = <<>>, FinishLeft PROVE RulesInv'
<1>1. BinderReturning("left")
  BY DEF FinishLeft
<1>2. /\ IsSyntaxTree(syntax) /\ binder.fn = "return" /\ Builds(heap, binder.node)
      /\ BinderPop \in Seq(BinderFrame) /\ heap \in Seq(Cell) /\ Len(heap) \in Nat
      /\ BinderTop.fn = "left" /\ Waiting(syntax, heap, BinderTop)
  BY <1>1, ReturningIs
<1>3. PICK n \in 1..Len(syntax.nodes) : n = BinderTop.syntax /\ KindOf(n) = "BINARY_EXPRESSION"
  BY <1>2 DEF Waiting, KindBoundBy, Kind, KindOf
<1>4. PICK less, r, q, left :
         /\ Asked(syntax, Typing, heap, BinderPop, less)
         /\ r = less[Len(BinderPop) + 1] /\ r.env \in Environments(ObjectTypes)
         /\ q.env \in Environments(ObjectTypes)
         /\ Asks(syntax, Typing, heap, BinderTop, r, q)
         /\ left = Typing[q.node][q.env] /\ left.ok
         /\ left.type = heap[binder.node].type /\ left.env = TypesOf(heap, scope)
         /\ IllTyped(Typing, r) => IllTyped(Typing, Whole(syntax))
  BY <1>1, ReturningAsked
<1>5. Typing[n] = Typing[r.node] /\ q.node = Kid(n, 1) /\ left = Typing[Kid(n, 1)][r.env]
  BY <1>2, <1>3, <1>4 DEF Asks, Awaited, Kid
<1>6. PICK kid \in 1..Len(syntax.nodes) : kid = Kid(n, 3)
  BY <1>2, <1>3, KidsAreOlder
<1>7. Kid(n, 1) \in 1..Len(syntax.nodes)
  BY <1>2, <1>3, KidsAreOlder
<1>8. left.env \in Environments(ObjectTypes)
  BY <1>2, <1>4, <1>5, <1>7, TypingTyped
<1>9. PICK frame : frame = Await("right", n, << binder.node >>)
  OBVIOUS
<1>10. /\ frame \in BinderFrame /\ frame.fn = "right" /\ frame.syntax = n /\ frame.held[1] = binder.node
  <2>1. << binder.node >> \in Seq(Pointer) /\ n \in Nat
    BY <1>2, KidsAreOlder DEF Builds, Pointer
  <2> QED
    BY <1>9, <2>1 DEF Await, BinderFrame
<1>11. /\ syntax' = syntax /\ scope' = scope /\ heap' = heap /\ reports' = <<>>
       /\ binder_stack' = Append(BinderPop, frame) /\ binder' = Bind(kid)
  BY <1>3, <1>6, <1>9 DEF FinishLeft, TreeUnchanged
<1>12. PICK more : more = Question(kid, left.env)
  OBVIOUS
<1>13. more \in Questions(ObjectTypes) /\ more.node = kid /\ more.env = left.env
  BY <1>2, <1>6, <1>8, <1>12, KidsAreOlder DEF Question, Questions
<1>14. Asks(syntax, Typing, heap, frame, r, more)
  <2>1. Awaited(syntax, frame) = kid
    BY <1>6, <1>10 DEF Awaited, Kid
  <2>2. left = Typing[syntax.nodes[frame.syntax].kids[1]][r.env]
    BY <1>5, <1>10 DEF Kid
  <2> QED
    BY <1>4, <1>5, <1>10, <1>13, <2>1, <2>2 DEF Asks
<1>15. IllTyped(Typing, more) => IllTyped(Typing, Whole(syntax))
  <2> SUFFICES ASSUME IllTyped(Typing, more) PROVE IllTyped(Typing, r)
    BY <1>4
  <2>1. PICK t, right : t = Typing[n][r.env] /\ right = Typing[Kid(n, 3)][left.env]
    OBVIOUS
  <2>2. PICK types : types = Signature(KindOf(Kid(n, 2)), << left.type, right.type >>)
    OBVIOUS
  <2>3. t.ok => right.ok
    <3>1. IsSyntaxTree(syntax) /\ r.env \in Environments(ObjectTypes) /\ KindOf(n) = "BINARY_EXPRESSION"
      BY <1>2, <1>3, <1>4
    <3> QED
      BY <1>5, <2>1, <2>2, <3>1, BinaryTyping
  <2>4. ~right.ok
    BY <1>6, <1>13, <2>1 DEF IllTyped
  <2> QED
    BY <1>5, <2>1, <2>3, <2>4 DEF IllTyped
<1>16. PICK at : /\ Asked(syntax, Typing, heap, Append(BinderPop, frame), at)
                 /\ at[Len(Append(BinderPop, frame)) + 1] = more
  BY <1>2, <1>4, <1>10, <1>13, <1>14, <1>15, AskMore
<1>17. Answers(Typing, heap, scope, Bind(kid), more)
  BY <1>4, <1>13 DEF Answers, Bind
<1> QED
  BY <1>11, <1>16, <1>17, AnsweredNow DEF Bind

\* ... for the right one, with the left one in hand ...
LEMMA FinishBinaryRules ==
  ASSUME BinderInv, BinderInv', RulesInv, reports = <<>>, FinishBinary PROVE RulesInv'
<1>1. BinderReturning("right")
  BY DEF FinishBinary
<1>2. /\ IsSyntaxTree(syntax) /\ heap \in Seq(Cell) /\ reports \in Seq(BinderReports)
      /\ BinderTop.fn = "right" /\ Waiting(syntax, heap, BinderTop)
  BY <1>1, ReturningIs
<1>3. PICK n \in 1..Len(syntax.nodes) : n = BinderTop.syntax /\ KindOf(n) = "BINARY_EXPRESSION"
  BY <1>2 DEF Waiting, KindBoundBy, Kind, KindOf
<1>4. PICK less, r, q, right :
         /\ Asked(syntax, Typing, heap, BinderPop, less)
         /\ r = less[Len(BinderPop) + 1] /\ r.env \in Environments(ObjectTypes)
         /\ Asks(syntax, Typing, heap, BinderTop, r, q)
         /\ right = Typing[q.node][q.env] /\ right.ok
         /\ right.type = heap[binder.node].type /\ right.env = TypesOf(heap, scope)
         /\ IllTyped(Typing, r) => IllTyped(Typing, Whole(syntax))
  BY <1>1, ReturningAsked
<1>5. PICK left : left = Typing[Kid(n, 1)][r.env]
  OBVIOUS
<1>6. /\ Typing[n] = Typing[r.node] /\ left.ok /\ left.type = heap[BinderTop.held[1]].type
      /\ right = Typing[Kid(n, 3)][left.env]
  <2>1. left = Typing[syntax.nodes[BinderTop.syntax].kids[1]][r.env]
    BY <1>3, <1>5 DEF Kid
  <2>2. q.node = Kid(n, 3)
    BY <1>2, <1>3, <1>4 DEF Asks, Awaited, Kid
  <2> QED
    BY <1>2, <1>3, <1>4, <2>1, <2>2 DEF Asks
<1>7. PICK t, types :
         t = Typing[n][r.env] /\ types = Signature(KindOf(Kid(n, 2)), << left.type, right.type >>)
  OBVIOUS
<1>8. /\ (t.ok => types # {}) /\ (types # {} => t.ok)
      /\ t.type = TypeIn(types) /\ t.env = right.env
  <2>1. IsSyntaxTree(syntax) /\ r.env \in Environments(ObjectTypes) /\ KindOf(n) = "BINARY_EXPRESSION"
    BY <1>2, <1>3, <1>4
  <2>2. PICK env \in Environments(ObjectTypes) : env = r.env
    BY <2>1
  <2>3. t = Typing[n][env] /\ left = Typing[Kid(n, 1)][env] /\ right = Typing[Kid(n, 3)][left.env]
    BY <1>5, <1>6, <1>7, <2>2
  <2>4. types = Signature(KindOf(Kid(n, 2)), << left.type, right.type >>)
    BY <1>7
  <2>5. left.ok /\ right.ok
    BY <1>4, <1>6
  <2>6. t.ok => types # {}
    BY <2>1, <2>3, <2>4, BinaryTyping
  <2>7. types # {} => t.ok
    BY <2>1, <2>3, <2>4, <2>5, BinaryIsTyped
  <2>8. t.type = TypeIn(types) /\ t.env = right.env
    BY <2>1, <2>3, <2>4, BinaryTyping
  <2> QED
    BY <2>6, <2>7, <2>8
<1>9. t.type = TypeIn(types) /\ t.env = right.env
  BY <1>8
<1>10. PICK matches : matches = BinaryMatches(KindOf(Kid(n, 2)), heap[BinderTop.held[1]].type, heap[binder.node].type)
  OBVIOUS
<1>11. types = {} <=> matches = {}
  BY <1>4, <1>6, <1>7, <1>10, SignaturesAreMatches
<1>12. \A op \in matches, type \in types : type = op.result_type
  BY <1>4, <1>6, <1>7, <1>10, SignaturesAreMatches
<1>13. syntax' = syntax /\ scope' = scope /\ binder_stack' = BinderPop
  BY DEF FinishBinary, TreeUnchanged
<1>14. CASE matches = {}
  <2>1. reports' = Append(reports, "undefined_binary_operator")
    BY <1>3, <1>7, <1>10, <1>14 DEF FinishBinary, RejectOperands
  <2>2. reports' # <<>>
    BY <1>2, <2>1, AReport
  <2>3. ~t.ok
    BY <1>8, <1>11, <1>14
  <2>4. IllTyped(Typing, Whole(syntax))
    BY <1>4, <1>6, <1>7, <2>3 DEF IllTyped
  <2> QED
    BY <1>13, <2>2, <2>4, ReportedNow
<1>15. CASE matches # {}
  <2>1. PICK op \in matches : heap' = Append(heap, Binary(op, BinderTop.held[1], binder.node))
    BY <1>3, <1>7, <1>10, <1>15 DEF FinishBinary
  <2>2. reports' = <<>> /\ binder' = Bound(Len(heap) + 1)
    BY <1>3, <1>7, <1>10, <1>15 DEF FinishBinary
  <2>3. Extends(heap, heap') /\ heap'[Len(heap) + 1] = Binary(op, BinderTop.held[1], binder.node)
    BY <1>2, <2>1, GrowByOne
  <2>4. TypeIn(types) = op.result_type
    BY <1>11, <1>12, <1>15 DEF TypeIn
  <2>5. t.type = heap'[Len(heap) + 1].type
    BY <1>9, <2>3, <2>4 DEF Binary
  <2>6. TypesOf(heap', scope') = TypesOf(heap, scope)
    <3>1. /\ heap' \in Seq(Cell)
          /\ \A name \in DOMAIN scope : name \in Name /\ IsSymbol(heap, scope[name])
      BY DEF BinderInv, BoundBy
    <3> QED
      BY <1>2, <1>13, <2>3, <3>1, TypesKept
  <2>7. t.ok /\ t.env = TypesOf(heap', scope')
    BY <1>4, <1>6, <1>8, <1>9, <1>11, <1>15, <2>6
  <2>8. t = Typing[r.node][r.env]
    BY <1>6, <1>7
  <2> QED
    BY <1>1, <1>4, <1>13, <2>2, <2>3, <2>5, <2>7, <2>8, RulesReturn
<1> QED
  BY <1>14, <1>15

\* ... and for the right-hand side of an assignment.
LEMMA FinishAssignmentRules ==
  ASSUME BinderInv, BinderInv', RulesInv, reports = <<>>, FinishAssignment PROVE RulesInv'
<1>1. BinderReturning("assignment")
  BY DEF FinishAssignment
<1>2. /\ IsSyntaxTree(syntax) /\ heap \in Seq(Cell) /\ Len(heap) \in Nat /\ reports \in Seq(BinderReports)
      /\ BinderTop.fn = "assignment" /\ Waiting(syntax, heap, BinderTop)
  BY <1>1, ReturningIs
<1>3. PICK n \in 1..Len(syntax.nodes) : n = BinderTop.syntax /\ KindOf(n) = "ASSIGNMENT_EXPRESSION"
  BY <1>2 DEF Waiting, KindBoundBy, Kind, KindOf
<1>4. PICK less, r, q, right :
         /\ Asked(syntax, Typing, heap, BinderPop, less)
         /\ r = less[Len(BinderPop) + 1] /\ r.env \in Environments(ObjectTypes)
         /\ Asks(syntax, Typing, heap, BinderTop, r, q)
         /\ right = Typing[q.node][q.env] /\ right.ok
         /\ right.type = heap[binder.node].type /\ right.env = TypesOf(heap, scope)
         /\ IllTyped(Typing, r) => IllTyped(Typing, Whole(syntax))
  BY <1>1, ReturningAsked
<1>5. Typing[n] = Typing[r.node] /\ right = Typing[Kid(n, 3)][r.env]
  BY <1>2, <1>3, <1>4 DEF Asks, Awaited, Kid
<1>6. PICK t, name, type : /\ t = Typing[n][r.env] /\ name = TextOf(Kid(n, 1))
                           /\ type = heap[binder.node].type
  OBVIOUS
<1>7. t.ok <=> (right.ok /\ name \notin DOMAIN right.env)
  BY <1>2, <1>3, <1>4, <1>5, <1>6, AssignmentTyping
<1>8. t.type = type /\ t.env = Extended(right.env, name, type)
  BY <1>2, <1>3, <1>4, <1>5, <1>6, AssignmentTyping
<1>9. DOMAIN right.env = DOMAIN scope
  BY <1>4 DEF TypesOf
<1>10. PICK size \in Nat : size = Len(heap)
  BY <1>2
<1>11. /\ syntax' = syntax /\ binder_stack' = BinderPop /\ binder' = Bound(size + 3)
       /\ heap' = heap \o << Symbol(name, type), Symbol(name, type),
                             Assignment(size + 1, binder.node, type) >>
       /\ TryDeclare(name, size + 1 + 1)
  BY <1>3, <1>6, <1>10 DEF FinishAssignment, TreeUnchanged
<1>12. CASE name \in DOMAIN scope
  <2>1. reports' = Append(reports, "variable_already_declared")
    BY <1>11, <1>12 DEF TryDeclare
  <2>2. reports' # <<>>
    BY <1>2, <2>1, AReport
  <2>3. ~t.ok
    BY <1>7, <1>9, <1>12
  <2>4. IllTyped(Typing, Whole(syntax))
    BY <1>4, <1>5, <1>6, <2>3 DEF IllTyped
  <2> QED
    BY <1>11, <2>2, <2>4, ReportedNow
<1>13. CASE name \notin DOMAIN scope
  <2>1. PICK symbol, assignment :
           symbol = Symbol(name, type) /\ assignment = Assignment(size + 1, binder.node, type)
    OBVIOUS
  <2>2. /\ Extends(heap, heap') /\ heap'[size + 2] = symbol /\ heap'[size + 3] = assignment
    BY <1>2, <1>10, <1>11, <2>1, GrowByThree
  <2>3. /\ reports' = <<>>
        /\ scope' = [ m \in DOMAIN scope \cup { name } |-> IF m = name THEN size + 2 ELSE scope[m] ]
    <3>1. size + 1 + 1 = size + 2
      OBVIOUS
    <3> QED
      BY <1>11, <1>13, <3>1 DEF TryDeclare
  <2>4. t.ok /\ t.type = heap'[size + 3].type
    BY <1>4, <1>7, <1>8, <1>9, <1>13, <2>1, <2>2 DEF Assignment
  <2>5. t.env = TypesOf(heap', scope')
    <3>1. heap'[size + 2].type = type
      BY <2>1, <2>2 DEF Symbol
    <3>2. TypesOf(heap', scope) = TypesOf(heap, scope)
      <4>1. /\ heap' \in Seq(Cell)
            /\ \A m \in DOMAIN scope : m \in Name /\ IsSymbol(heap, scope[m])
        BY DEF BinderInv, BoundBy
      <4> QED
        BY <1>2, <2>2, <4>1, TypesKept
    <3>3. right.env = TypesOf(heap', scope)
      BY <1>4, <3>2
    <3>4. Extended(right.env, name, type) = TypesOf(heap', scope')
      BY <2>3, <3>1, <3>3 DEF Extended, TypesOf
    <3> QED
      BY <1>8, <3>4
  <2>6. t = Typing[r.node][r.env]
    BY <1>5, <1>6
  <2> QED
    BY <1>1, <1>4, <1>11, <2>2, <2>3, <2>4, <2>5, <2>6, RulesReturn
<1> QED
  BY <1>12, <1>13

\* In the end the whole is answered.
LEMMA FinishGlobalScopeRules ==
  ASSUME BinderInv, RulesInv, reports = <<>>, FinishGlobalScope PROVE RulesInv'
<1>1. /\ binder.fn = "return" /\ binder_stack = <<>> /\ binder' = [ fn |-> "done", node |-> binder.node ]
      /\ heap' = heap /\ syntax' = syntax /\ reports' = <<>>
  BY DEF FinishGlobalScope
<1>2. PICK at, q :
         /\ Asked(syntax, Typing, heap, binder_stack, at)
         /\ q = at[Len(binder_stack) + 1] /\ Answers(Typing, heap, scope, binder, q)
  BY <1>1, AskedNow
<1>3. q = Whole(syntax)
  <2>1. Len(binder_stack) + 1 = 1
    BY <1>1
  <2> QED
    BY <1>2, <2>1 DEF Asked
<1>4. q.node = Expression /\ q.env = NoNames
  BY <1>3 DEF Whole, Question, Expression
<1>5. ~IllTyped(Typing, Whole(syntax)) /\ Typing[Expression][NoNames].type = heap[binder.node].type
  BY <1>1, <1>2, <1>3, <1>4 DEF Answers, IllTyped
<1>6. Typing' = Typing /\ Expression' = Expression
  BY <1>1, TypingKept
<1> QED
  BY <1>1, <1>5, <1>6 DEF RulesInv

\* What was reported stays reported.
LEMMA RulesNextInv == BinderInv /\ RulesInv /\ BinderNext => RulesInv'
<1> SUFFICES ASSUME BinderInv, RulesInv, BinderNext PROVE RulesInv'
  OBVIOUS
<1>1. BinderInv'
  BY BinderNextInv
<1>2. CASE reports = <<>>
  BY <1>1, <1>2, BindLiteralRules, BindUnaryRules, BindBinaryRules, BindParenthesizedRules,
     BindDeclaredNameRules, BindUndefinedNameRules, BindAssignmentRules, FinishUnaryRules, FinishLeftRules,
     FinishBinaryRules, FinishAssignmentRules, FinishGlobalScopeRules DEF BinderNext
<1>3. CASE reports # <<>>
  <2>1. syntax' = syntax
    BY DEF BinderNext, BindLiteral, BindUnary, BindBinary, BindParenthesized, BindDeclaredName,
           BindUndefinedName, BindAssignment, FinishUnary, FinishLeft, FinishBinary, FinishAssignment,
           FinishGlobalScope, TreeUnchanged
  <2>2. reports' = reports \/ \E report : reports' = Append(reports, report)
    BY DEF BinderNext, BindLiteral, BindUnary, BindBinary, BindParenthesized, BindDeclaredName,
           BindUndefinedName, BindAssignment, FinishUnary, FinishLeft, FinishBinary, RejectOperands,
           FinishAssignment, TryDeclare, FinishGlobalScope
  <2>3. reports' # <<>>
    BY <1>3, <2>2, AReport DEF BinderInv
  <2>4. IllTyped(Typing, Whole(syntax))
    BY <1>3 DEF RulesInv
  <2> QED
    BY <2>1, <2>3, <2>4, ReportedNow
<1> QED
  BY <1>2, <1>3

--------------------------------------------------------------------------------
(* The rules and the steps of a session.                                        *)

Ruled == phase # "ready" => RulesInv

\* Nothing was declared when the whole is asked for.
LEMMA SubmitRules == \A tree : IsSyntaxTree(tree) /\ Submit(tree) => RulesInv'
<1> SUFFICES ASSUME NEW tree, IsSyntaxTree(tree), Submit(tree) PROVE RulesInv'
  OBVIOUS
<1>1. /\ syntax' = tree /\ heap' = <<>> /\ scope' = [ name \in {} |-> 0 ] /\ reports' = <<>>
      /\ binder' = Bind(tree.nodes[tree.root].kids[1]) /\ binder_stack' = <<>>
  BY DEF Submit, BindGlobalScope
<1>2. PICK q : q = Whole(tree)
  OBVIOUS
<1>3. PICK n \in Nat : n = tree.nodes[tree.root].kids[1]
  <2>1. tree.nodes[tree.root].kids[1] \in 1..Len(tree.nodes)
    BY DEF IsSyntaxTree
  <2>2. PICK size : size = Len(tree.nodes)
    OBVIOUS
  <2> QED
    BY <2>1, <2>2
<1>4. NoNames \in Environments(ObjectTypes) /\ DOMAIN NoNames = {}
  BY DEF NoNames, Environments
<1>5. q \in Questions(ObjectTypes) /\ q.node = n /\ q.env = NoNames
  BY <1>2, <1>3, <1>4 DEF Whole, Question, Questions
<1>6. PICK typing : typing = Typing'
  OBVIOUS
<1>7. PICK at : at = [ i \in 1..1 |-> q ]
  OBVIOUS
<1>8. 1 \in 1..1 /\ Len(<<>>) = 0 /\ 0 + 1 = 1 /\ 1..0 = {} /\ \A i \in 1..1 : at[i] = q
  BY <1>7
<1>9. Asked(tree, typing, <<>>, <<>>, at)
  BY <1>2, <1>5, <1>7, <1>8 DEF Asked
<1>10. TypesOf(<<>>, scope') = NoNames
  BY <1>1 DEF TypesOf, NoNames
<1>11. Answers(typing, <<>>, scope', Bind(n), q)
  BY <1>5, <1>10 DEF Answers, Bind
<1>12. Asked(syntax', typing, heap', binder_stack', at) /\ Answers(typing, heap', scope', binder', at[Len(binder_stack') + 1])
  BY <1>1, <1>3, <1>8, <1>9, <1>11
<1> QED
  BY <1>1, <1>6, <1>12 DEF RulesInv, Bind

\* After the binder nobody touches what it made of the tree.
LEMMA RulesKept ==
  RulesInv /\ UNCHANGED << heap, syntax, scope, reports, binder, binder_stack >> => RulesInv'
<1> SUFFICES ASSUME RulesInv, UNCHANGED << heap, syntax, scope, reports, binder, binder_stack >> PROVE RulesInv'
  OBVIOUS
<1>1. Typing' = Typing /\ Expression' = Expression
  BY TypingKept
<1> QED
  BY <1>1 DEF RulesInv

LEMMA RuledNext == CompilationInv /\ Ruled /\ [Next]_vars => Ruled'
<1> SUFFICES ASSUME CompilationInv, Ruled, [Next]_vars PROVE Ruled'
  OBVIOUS
<1>1. CASE \E tree \in Trees : Submit(tree)
  BY <1>1, TreesAssumption, SubmitRules DEF Ruled
<1>2. CASE BindStep
  <2>1. phase = "binding" /\ phase' = "binding" /\ BinderNext
    BY <1>2 DEF BindStep
  <2> QED
    BY <2>1, RulesNextInv DEF Ruled, CompilationInv
<1>3. CASE AnswerWithReports \/ StartEvaluator \/ AnswerWithValue
  <2>1. phase # "ready" /\ UNCHANGED << heap, syntax, scope, reports, binder, binder_stack >>
    BY <1>3 DEF AnswerWithReports, StartEvaluator, AnswerWithValue, binder_vars
  <2> QED
    BY <2>1, RulesKept DEF Ruled
<1>4. CASE EvaluateStep
  <2>1. phase # "ready" /\ UNCHANGED << heap, syntax, scope, reports, binder, binder_stack >>
    BY <1>4, EvaluatorKeepsTree DEF EvaluateStep
  <2> QED
    BY <2>1, RulesKept DEF Ruled
<1>5. CASE PrintResult
  BY <1>5 DEF PrintResult, Ruled
<1>6. CASE UNCHANGED vars
  BY <1>6, RulesKept DEF vars, binder_vars, Ruled
<1> QED
  BY <1>1, <1>2, <1>3, <1>4, <1>5, <1>6 DEF Next, CompilationStep

LEMMA ReportsFollow == CompilationInv /\ Ruled => ReportsIffIllTyped
<1> SUFFICES ASSUME CompilationInv, Ruled, binder.fn = "done"
             PROVE  /\ (reports = <<>>) <=> Typing[Expression][NoNames].ok
                    /\ Typing[Expression][NoNames].ok =>
                          heap[binder.node].type = Typing[Expression][NoNames].type
  BY DEF ReportsIffIllTyped
<1>1. RulesInv
  BY DEF CompilationInv, Ruled
<1>2. PICK typing : typing = Typing[Expression][NoNames]
  OBVIOUS
<1>3. Whole(syntax).node = Expression /\ Whole(syntax).env = NoNames
  BY DEF Whole, Question, Expression
<1>4. reports # <<>> => ~typing.ok
  BY <1>1, <1>2, <1>3 DEF RulesInv, IllTyped
<1>5. reports = <<>> => typing.ok /\ typing.type = heap[binder.node].type
  BY <1>1, <1>2, <1>3 DEF RulesInv, IllTyped
<1> QED
  BY <1>2, <1>4, <1>5

\* The binder reports something exactly when the submission has no type, and what it accepts
\* has the type of the bound tree: going on with an operand, the left one or the literal 0
\* after a report of binder_bind_expression makes up no first error and hides none, whatever
\* the tree, the names and the width of an integer.
THEOREM TheRulesDecideWhatIsReported == Spec => []ReportsIffIllTyped
<1>1. Init => Ruled
  BY DEF Init, CompilationInit, Ruled
<1>2. CompilationInv /\ Ruled /\ [Next]_vars => Ruled'
  BY RuledNext
<1>3. CompilationInv /\ Ruled => ReportsIffIllTyped
  BY ReportsFollow
<1> QED
  BY <1>1, <1>2, <1>3, CompilationInvariant, PTL DEF Spec

--------------------------------------------------------------------------------
(* Who owns a cell.                                                             *)

\* CellOwners, of any cells, calls and scope, and by the kind of owner.
Live(cells, gone) == (1..Len(cells)) \ gone
KidSlots(cells, gone, n) ==
    { at \in Live(cells, gone) \X (1..2) :
        at[2] <= Len(cells[at[1]].kids) /\ cells[at[1]].kids[at[2]] = n }
HeldSlots(calls, n) == { at \in Operands(calls) : calls[at[1]].held[at[2]] = n }
NameSlots(names, n) == { name \in DOMAIN names : names[name] = n }
CallSlots(call, n)  == { running \in { call } : running.fn \in { "return", "done" } /\ running.node = n }
Slots(kids, holds, names, calls) ==
    ({ "cell" } \X kids) \cup ({ "call" } \X holds) \cup ({ "scope" } \X names) \cup ({ "binder" } \X calls)
Owners(cells, gone, calls, names, call, n) ==
    Slots(KidSlots(cells, gone, n), HeldSlots(calls, n), NameSlots(names, n), CallSlots(call, n))

\* Nobody owns a freed cell or shares a live one, and only symbols may be lost.
Once(cells, gone, calls, names, call) ==
    \A n : LET owners == Owners(cells, gone, calls, names, call, n) IN
        /\ owners # {} => n \in Live(cells, gone)
        /\ \A one, other \in owners : one = other
        /\ n \in Live(cells, gone) /\ owners = {} => cells[n].cell = "SYMBOL"
Lost(cells, gone, calls, names, call) ==
    { n \in Live(cells, gone) : Owners(cells, gone, calls, names, call, n) = {} }

\* An owner of one kind leaves no room for one of another.
LEMMA SlotsOfOne ==
  ASSUME NEW kids, NEW holds, NEW names, NEW calls,
         \A one, other \in Slots(kids, holds, names, calls) : one = other
  PROVE  /\ Slots(kids, holds, names, calls) = {} <=> kids = {} /\ holds = {} /\ names = {} /\ calls = {}
         /\ kids # {} => holds = {} /\ names = {} /\ calls = {}
         /\ holds # {} => kids = {} /\ names = {} /\ calls = {}
         /\ names # {} => kids = {} /\ holds = {} /\ calls = {}
         /\ calls # {} => kids = {} /\ holds = {} /\ names = {}
         /\ \A one, other \in kids : one = other
         /\ \A one, other \in holds : one = other
         /\ \A one, other \in names : one = other
<1> DEFINE all == Slots(kids, holds, names, calls)
<1>1. /\ \A x \in kids  : << "cell", x >> \in all
      /\ \A x \in holds : << "call", x >> \in all
      /\ \A x \in names : << "scope", x >> \in all
      /\ \A x \in calls : << "binder", x >> \in all
  BY DEF Slots
<1>2. ASSUME kids = {}, holds = {}, names = {}, calls = {} PROVE all = {}
  BY <1>2 DEF Slots
<1> HIDE DEF all
<1>3. \A x, y : /\ << "cell", x >> # << "call", y >> /\ << "cell", x >> # << "scope", y >>
                /\ << "cell", x >> # << "binder", y >> /\ << "call", x >> # << "scope", y >>
                /\ << "call", x >> # << "binder", y >> /\ << "scope", x >> # << "binder", y >>
  OBVIOUS
<1>4. \A one, other \in all : one = other
  BY DEF all
<1>5. \A one, other \in kids : one = other
  <2> SUFFICES ASSUME NEW one \in kids, NEW other \in kids PROVE one = other
    OBVIOUS
  <2>1. << "cell", one >> = << "cell", other >>
    BY <1>1, <1>4
  <2> QED
    BY <2>1
<1>6. \A one, other \in names : one = other
  <2> SUFFICES ASSUME NEW one \in names, NEW other \in names PROVE one = other
    OBVIOUS
  <2>1. << "scope", one >> = << "scope", other >>
    BY <1>1, <1>4
  <2> QED
    BY <2>1
<1>7. \A one, other \in holds : one = other
  <2> SUFFICES ASSUME NEW one \in holds, NEW other \in holds PROVE one = other
    OBVIOUS
  <2>1. << "call", one >> = << "call", other >>
    BY <1>1, <1>4
  <2> QED
    BY <2>1
<1>8. kids # {} => holds = {} /\ names = {} /\ calls = {}
  BY <1>1, <1>3, <1>4
<1>9. holds # {} => kids = {} /\ names = {} /\ calls = {}
  BY <1>1, <1>3, <1>4
<1>10. names # {} => kids = {} /\ holds = {} /\ calls = {}
  BY <1>1, <1>3, <1>4
<1>11. calls # {} => kids = {} /\ holds = {} /\ names = {}
  BY <1>1, <1>3, <1>4
<1>12. all = {} => kids = {} /\ holds = {} /\ names = {} /\ calls = {}
  BY <1>1
<1> QED
  BY <1>2, <1>5, <1>6, <1>8, <1>9, <1>10, <1>11, <1>12, <1>7 DEF all

LEMMA OneSlot ==
  /\ Slots({}, {}, {}, {}) = {}
  /\ \A x : /\ Slots({ x }, {}, {}, {}) = { << "cell", x >> }
            /\ Slots({}, { x }, {}, {}) = { << "call", x >> }
            /\ Slots({}, {}, { x }, {}) = { << "scope", x >> }
            /\ Slots({}, {}, {}, { x }) = { << "binder", x >> }
BY DEF Slots

\* What is known of one cell.
LEMMA OwnersOfCell ==
  ASSUME NEW cells, NEW gone, NEW calls, NEW names, NEW call, Once(cells, gone, calls, names, call), NEW n
  PROVE  /\ KidSlots(cells, gone, n) # {} =>
               /\ n \in Live(cells, gone)
               /\ HeldSlots(calls, n) = {} /\ NameSlots(names, n) = {} /\ CallSlots(call, n) = {}
         /\ HeldSlots(calls, n) # {} =>
               /\ n \in Live(cells, gone)
               /\ KidSlots(cells, gone, n) = {} /\ NameSlots(names, n) = {} /\ CallSlots(call, n) = {}
         /\ NameSlots(names, n) # {} =>
               /\ n \in Live(cells, gone)
               /\ KidSlots(cells, gone, n) = {} /\ HeldSlots(calls, n) = {} /\ CallSlots(call, n) = {}
         /\ CallSlots(call, n) # {} =>
               /\ n \in Live(cells, gone)
               /\ KidSlots(cells, gone, n) = {} /\ HeldSlots(calls, n) = {} /\ NameSlots(names, n) = {}
         /\ \A one, other \in KidSlots(cells, gone, n) : one = other
         /\ \A one, other \in HeldSlots(calls, n) : one = other
         /\ \A one, other \in NameSlots(names, n) : one = other
         /\ n \notin Live(cells, gone) =>
               /\ KidSlots(cells, gone, n) = {} /\ HeldSlots(calls, n) = {}
               /\ NameSlots(names, n) = {} /\ CallSlots(call, n) = {}
<1> DEFINE kids == KidSlots(cells, gone, n)
           holds == HeldSlots(calls, n)
           scopes == NameSlots(names, n)
           runs == CallSlots(call, n)
           here == n \in Live(cells, gone)
<1>1. /\ Slots(kids, holds, scopes, runs) # {} => here
      /\ \A one, other \in Slots(kids, holds, scopes, runs) : one = other
  BY DEF Once, Owners
<1> HIDE DEF kids, holds, scopes, runs, here
<1>2. /\ Slots(kids, holds, scopes, runs) = {} <=> kids = {} /\ holds = {} /\ scopes = {} /\ runs = {}
      /\ kids # {} => holds = {} /\ scopes = {} /\ runs = {}
      /\ holds # {} => kids = {} /\ scopes = {} /\ runs = {}
      /\ scopes # {} => kids = {} /\ holds = {} /\ runs = {}
      /\ runs # {} => kids = {} /\ holds = {} /\ scopes = {}
      /\ \A one, other \in kids : one = other
      /\ \A one, other \in holds : one = other
      /\ \A one, other \in scopes : one = other
  BY <1>1, SlotsOfOne
<1>3. /\ kids # {} => here /\ holds = {} /\ scopes = {} /\ runs = {}
      /\ holds # {} => here /\ kids = {} /\ scopes = {} /\ runs = {}
      /\ scopes # {} => here /\ kids = {} /\ holds = {} /\ runs = {}
      /\ runs # {} => here /\ kids = {} /\ holds = {} /\ scopes = {}
      /\ ~here => kids = {} /\ holds = {} /\ scopes = {} /\ runs = {}
  BY <1>1, <1>2
<1> QED
  BY <1>2, <1>3 DEF kids, holds, scopes, runs, here

\* A step that keeps the owners of a cell, gives it another one, frees it, or loses it in E.
Handed(cells, gone, calls, names, call, cells1, gone1, calls1, names1, call1, E, n) ==
    \/ /\ n \notin E
       /\ Owners(cells1, gone1, calls1, names1, call1, n) = Owners(cells, gone, calls, names, call, n)
       /\ n \in Live(cells1, gone1) <=> n \in Live(cells, gone)
       /\ n \in Live(cells, gone) => cells1[n].cell = cells[n].cell
    \/ /\ n \notin E /\ n \notin Lost(cells, gone, calls, names, call) /\ n \in Live(cells1, gone1)
       /\ \E owner : Owners(cells1, gone1, calls1, names1, call1, n) = { owner }
    \/ /\ n \notin E /\ n \notin Lost(cells, gone, calls, names, call) /\ n \notin Live(cells1, gone1)
       /\ Owners(cells1, gone1, calls1, names1, call1, n) = {}
    \/ /\ n \in E /\ n \in Live(cells1, gone1) /\ cells1[n].cell = "SYMBOL"
       /\ Owners(cells1, gone1, calls1, names1, call1, n) = {}

LEMMA OnceNext ==
  ASSUME NEW cells, NEW gone, NEW calls, NEW names, NEW call, Once(cells, gone, calls, names, call),
         NEW cells1, NEW gone1, NEW calls1, NEW names1, NEW call1, NEW E,
         \A n : Handed(cells, gone, calls, names, call, cells1, gone1, calls1, names1, call1, E, n)
  PROVE  /\ Once(cells1, gone1, calls1, names1, call1)
         /\ Lost(cells1, gone1, calls1, names1, call1) = Lost(cells, gone, calls, names, call) \cup E
<1> DEFINE old(n) == Owners(cells, gone, calls, names, call, n)
           new(n) == Owners(cells1, gone1, calls1, names1, call1, n)
           was(n) == n \in Live(cells, gone)
           is(n)  == n \in Live(cells1, gone1)
           lost(n) == n \in Lost(cells, gone, calls, names, call)
<1>1. \A n : /\ old(n) # {} => was(n)
             /\ \A one, other \in old(n) : one = other
             /\ was(n) /\ old(n) = {} => cells[n].cell = "SYMBOL"
  BY DEF Once
<1>2. \A n :
         \/ n \notin E /\ new(n) = old(n) /\ (is(n) <=> was(n)) /\ (was(n) => cells1[n].cell = cells[n].cell)
         \/ n \notin E /\ ~lost(n) /\ is(n) /\ \E owner : new(n) = { owner }
         \/ n \notin E /\ ~lost(n) /\ ~is(n) /\ new(n) = {}
         \/ n \in E /\ is(n) /\ cells1[n].cell = "SYMBOL" /\ new(n) = {}
  BY DEF Handed
<1>3. \A n : lost(n) <=> was(n) /\ old(n) = {}
  BY DEF Lost
<1>4. \A n : n \in Lost(cells1, gone1, calls1, names1, call1) <=> is(n) /\ new(n) = {}
  BY DEF Lost
<1>5. \A n : n \in Lost(cells1, gone1, calls1, names1, call1)
                <=> n \in Lost(cells, gone, calls, names, call) \cup E
  <2>1. \A n : n \in Lost(cells, gone, calls, names, call) \cup E <=> lost(n) \/ n \in E
    OBVIOUS
  <2> HIDE DEF old, new, was, is, lost
  <2> QED
    BY ONLY <1>2, <1>3, <1>4, <2>1
<1> HIDE DEF old, new, was, is, lost
<1>6. \A n : /\ new(n) # {} => is(n)
             /\ \A one, other \in new(n) : one = other
             /\ is(n) /\ new(n) = {} => cells1[n].cell = "SYMBOL"
  <2> TAKE n
  <2>1. CASE \E owner : new(n) = { owner }
    BY ONLY <2>1, <1>2, <1>1
  <2>2. CASE ~\E owner : new(n) = { owner }
    BY ONLY <2>2, <1>1, <1>2
  <2> QED
    BY <2>1, <2>2
<1>7. Once(cells1, gone1, calls1, names1, call1)
  BY <1>6 DEF Once, new, is
<1> QED
  BY <1>5, <1>7

\* Cells that are added own no more than the last of them has kids.
Added(old, new, n) ==
    { at \in (Len(old) + 1..Len(new)) \X (1..2) :
        at[2] <= Len(new[at[1]].kids) /\ new[at[1]].kids[at[2]] = n }

LEMMA LiveAdded ==
  ASSUME NEW old \in Seq(Cell), NEW new \in Seq(Cell), Extends(old, new), NEW gone, gone \subseteq 1..Len(old)
  PROVE  /\ \A n : n \in Live(new, gone) <=> n \in Live(old, gone) \/ n \in Len(old) + 1..Len(new)
         /\ \A n : n \in Len(old) + 1..Len(new) => n \notin Live(old, gone)
         /\ \A n : n \in Live(old, gone) => n \in 1..Len(old) /\ new[n] = old[n]
<1>1. PICK size \in Nat : size = Len(old)
  OBVIOUS
<1>2. PICK more \in Nat : more = Len(new)
  OBVIOUS
<1>3. size <= more /\ \A n \in 1..size : new[n] = old[n]
  BY <1>1, <1>2 DEF Extends
<1>4. \A n : n \in 1..more <=> n \in 1..size \/ n \in size + 1..more
  BY <1>3
<1>5. \A n : ~(n \in 1..size /\ n \in size + 1..more)
  OBVIOUS
<1> QED
  BY <1>1, <1>2, <1>3, <1>4, <1>5 DEF Live

LEMMA KidSlotsAdded ==
  ASSUME NEW old \in Seq(Cell), NEW new \in Seq(Cell), Extends(old, new), NEW gone, gone \subseteq 1..Len(old),
         NEW n
  PROVE  KidSlots(new, gone, n) = KidSlots(old, gone, n) \cup Added(old, new, n)
<1> DEFINE at(m, k) == << m, k >>
           owns(cells, m, k) == k <= Len(cells[m].kids) /\ cells[m].kids[k] = n
<1>1. /\ \A m : m \in Live(new, gone) <=> m \in Live(old, gone) \/ m \in Len(old) + 1..Len(new)
      /\ \A m : m \in Live(old, gone) => new[m] = old[m]
  BY LiveAdded
<1>2. \A m \in Live(old, gone) : \A k \in 1..2 : owns(new, m, k) <=> owns(old, m, k)
  BY <1>1
<1>3. \A x : x \in KidSlots(new, gone, n) <=> \E m \in Live(new, gone), k \in 1..2 : x = at(m, k) /\ owns(new, m, k)
  BY DEF KidSlots
<1>4. \A x : x \in KidSlots(old, gone, n) <=> \E m \in Live(old, gone), k \in 1..2 : x = at(m, k) /\ owns(old, m, k)
  BY DEF KidSlots
<1>5. \A x : x \in Added(old, new, n)
                <=> \E m \in Len(old) + 1..Len(new), k \in 1..2 : x = at(m, k) /\ owns(new, m, k)
  BY DEF Added
<1> HIDE DEF at, owns
<1>6. \A x : x \in KidSlots(new, gone, n) <=> x \in KidSlots(old, gone, n) \cup Added(old, new, n)
  BY <1>1, <1>2, <1>3, <1>4, <1>5
<1> QED
  BY <1>6

\* Only the last of the new cells has kids.
Grown(old, new, last, kids) ==
    /\ old \in Seq(Cell) /\ new \in Seq(Cell) /\ last = Len(new) /\ Len(old) < last
    /\ \A m \in Len(old) + 1..last - 1 : new[m].kids = <<>>
    /\ new[last].kids = kids

LEMMA AddedByLast ==
  ASSUME NEW old, NEW new, NEW last, NEW kids, Grown(old, new, last, kids), NEW n
  PROVE  \A x : x \in Added(old, new, n) <=> \E k \in 1..2 : x = << last, k >> /\ k <= Len(kids) /\ kids[k] = n
<1> DEFINE owns(m, k) == k <= Len(new[m].kids) /\ new[m].kids[k] = n
           at(m, k) == << m, k >>
<1>1. PICK size \in Nat : size = Len(old)
  BY DEF Grown
<1>2. /\ last \in Nat /\ size < last /\ last = Len(new) /\ new[last].kids = kids
      /\ \A m \in size + 1..last - 1 : new[m].kids = <<>>
  BY <1>1 DEF Grown
<1>3. \A x : x \in Added(old, new, n) <=> \E m \in size + 1..last, k \in 1..2 : x = at(m, k) /\ owns(m, k)
  BY <1>1, <1>2 DEF Added
<1>4. \A m \in size + 1..last - 1 : \A k \in 1..2 : ~owns(m, k)
  <2> SUFFICES ASSUME NEW m \in size + 1..last - 1, NEW k \in 1..2 PROVE ~owns(m, k)
    OBVIOUS
  <2>1. new[m].kids = <<>> /\ Len(<<>>) = 0 /\ ~(k <= 0)
    BY <1>2
  <2> QED
    BY <2>1
<1>5. last \in size + 1..last /\ \A m \in size + 1..last : m = last \/ m \in size + 1..last - 1
  BY <1>2
<1>6. \A x : x \in Added(old, new, n) <=> \E k \in 1..2 : x = at(last, k) /\ owns(last, k)
  <2> HIDE DEF owns, at
  <2> QED
    BY <1>3, <1>4, <1>5
<1> QED
  BY <1>2, <1>6

LEMMA AddedNone ==
  ASSUME NEW old, NEW new, NEW last, Grown(old, new, last, <<>>)
  PROVE  \A n : Added(old, new, n) = {}
<1> SUFFICES ASSUME NEW n PROVE Added(old, new, n) = {}
  OBVIOUS
<1>1. PICK kids : kids = <<>>
  OBVIOUS
<1>2. \A x : x \in Added(old, new, n) <=> \E k \in 1..2 : x = << last, k >> /\ k <= Len(kids) /\ kids[k] = n
  BY <1>1, AddedByLast
<1>3. \A k \in 1..2 : ~(k <= Len(kids))
  BY <1>1
<1> QED
  BY <1>2, <1>3

LEMMA AddedOne ==
  ASSUME NEW old, NEW new, NEW last, NEW a, Grown(old, new, last, << a >>)
  PROVE  \A n : /\ n = a => Added(old, new, n) = { << last, 1 >> }
                /\ n # a => Added(old, new, n) = {}
<1> SUFFICES ASSUME NEW n
             PROVE  /\ n = a => Added(old, new, n) = { << last, 1 >> }
                    /\ n # a => Added(old, new, n) = {}
  OBVIOUS
<1>1. PICK kids : kids = << a >>
  OBVIOUS
<1>2. \A x : x \in Added(old, new, n) <=> \E k \in 1..2 : x = << last, k >> /\ k <= Len(kids) /\ kids[k] = n
  BY <1>1, AddedByLast
<1>3. \A k \in 1..2 : k <= Len(kids) /\ kids[k] = n <=> k = 1 /\ n = a
  BY <1>1
<1>4. \A x : x \in Added(old, new, n) <=> x = << last, 1 >> /\ n = a
  BY <1>2, <1>3
<1> QED
  BY <1>4

LEMMA AddedTwo ==
  ASSUME NEW old, NEW new, NEW last, NEW a, NEW b, a # b, Grown(old, new, last, << a, b >>)
  PROVE  \A n : /\ n = a => Added(old, new, n) = { << last, 1 >> }
                /\ n = b => Added(old, new, n) = { << last, 2 >> }
                /\ n # a /\ n # b => Added(old, new, n) = {}
<1> SUFFICES ASSUME NEW n
             PROVE  /\ n = a => Added(old, new, n) = { << last, 1 >> }
                    /\ n = b => Added(old, new, n) = { << last, 2 >> }
                    /\ n # a /\ n # b => Added(old, new, n) = {}
  OBVIOUS
<1>1. PICK kids : kids = << a, b >>
  OBVIOUS
<1>2. \A x : x \in Added(old, new, n) <=> \E k \in 1..2 : x = << last, k >> /\ k <= Len(kids) /\ kids[k] = n
  BY <1>1, AddedByLast
<1>3. \A k \in 1..2 : k <= Len(kids) /\ kids[k] = n <=> (k = 1 /\ n = a) \/ (k = 2 /\ n = b)
  BY <1>1
<1>4. \A x : x \in Added(old, new, n) <=> (x = << last, 1 >> /\ n = a) \/ (x = << last, 2 >> /\ n = b)
  BY <1>2, <1>3
<1> QED
  BY <1>4

\* A call that waits owns the operand it holds.
LEMMA HeldSlotsPushed ==
  ASSUME NEW calls \in Seq(BinderFrame), NEW frame \in BinderFrame, NEW n
  PROVE  /\ frame.held = <<>> => HeldSlots(Append(calls, frame), n) = HeldSlots(calls, n)
         /\ \A x : frame.held = << x >> =>
               /\ n = x => HeldSlots(Append(calls, frame), n) = HeldSlots(calls, n) \cup { << Len(calls) + 1, 1 >> }
               /\ n # x => HeldSlots(Append(calls, frame), n) = HeldSlots(calls, n)
<1>1. PICK size \in Nat : size = Len(calls)
  OBVIOUS
<1>2. PICK new \in Seq(BinderFrame) : /\ new = Append(calls, frame) /\ Len(new) = size + 1 /\ new[size + 1] = frame
                                      /\ \A i \in 1..size : new[i] = calls[i]
  <2>1. /\ Append(calls, frame) \in Seq(BinderFrame) /\ Len(Append(calls, frame)) = size + 1
        /\ Append(calls, frame)[size + 1] = frame /\ \A i \in 1..size : Append(calls, frame)[i] = calls[i]
    BY <1>1, PushOne
  <2> QED
    BY <2>1
<1> DEFINE at(i, k) == << i, k >>
           holds(some, i, k) == k <= Len(some[i].held) /\ some[i].held[k] = n
<1>3. \A x : x \in HeldSlots(new, n) <=> \E i \in 1..size + 1, k \in 1..2 : x = at(i, k) /\ holds(new, i, k)
  BY <1>2 DEF HeldSlots, Operands
<1>4. \A x : x \in HeldSlots(calls, n) <=> \E i \in 1..size, k \in 1..2 : x = at(i, k) /\ holds(calls, i, k)
  BY <1>1 DEF HeldSlots, Operands
<1>5. /\ \A i \in 1..size : \A k \in 1..2 : holds(new, i, k) <=> holds(calls, i, k)
      /\ \A i \in 1..size + 1 : i = size + 1 \/ i \in 1..size
      /\ size + 1 \in 1..size + 1 /\ \A i \in 1..size : i \in 1..size + 1
  BY <1>2
<1>6. ASSUME frame.held = <<>> PROVE \A k \in 1..2 : ~holds(new, size + 1, k)
  <2>1. Len(<<>>) = 0
    OBVIOUS
  <2> QED
    BY <1>2, <1>6, <2>1
<1>7. ASSUME NEW y, frame.held = << y >> PROVE \A k \in 1..2 : holds(new, size + 1, k) <=> k = 1 /\ n = y
  <2>1. Len(<< y >>) = 1 /\ << y >>[1] = y
    OBVIOUS
  <2> QED
    BY <1>2, <1>7, <2>1
<1> HIDE DEF holds
<1>8. ASSUME frame.held = <<>> PROVE HeldSlots(new, n) = HeldSlots(calls, n)
  <2> HIDE DEF at
  <2>1. \A x : x \in HeldSlots(new, n) <=> x \in HeldSlots(calls, n)
    BY <1>3, <1>4, <1>5, <1>6, <1>8
  <2> QED
    BY <2>1
<1>9. ASSUME NEW y, frame.held = << y >>
      PROVE  /\ n = y => HeldSlots(new, n) = HeldSlots(calls, n) \cup { << size + 1, 1 >> }
             /\ n # y => HeldSlots(new, n) = HeldSlots(calls, n)
  <2>1. \A x : x \in HeldSlots(new, n) <=> x \in HeldSlots(calls, n) \/ (x = at(size + 1, 1) /\ n = y)
    <3> HIDE DEF at
    <3> QED
      BY <1>3, <1>4, <1>5, <1>7, <1>9
  <2> QED
    BY <2>1
<1> QED
  BY <1>1, <1>2, <1>8, <1>9

LEMMA Repush ==
  ASSUME NEW calls \in Seq(BinderFrame), calls # <<>>
  PROVE  \E pop \in Seq(BinderFrame), top \in BinderFrame :
            /\ pop = SubSeq(calls, 1, Len(calls) - 1) /\ top = calls[Len(calls)] /\ calls = Append(pop, top)
<1>1. PICK size \in Nat : size + 1 = Len(calls)
  <2>1. Len(calls) \in Nat \ {0}
    BY EmptySeq
  <2> QED
    BY <2>1
<1>2. PICK pop \in Seq(BinderFrame) : /\ pop = SubSeq(calls, 1, Len(calls) - 1) /\ Len(pop) = size
                                      /\ \A i \in 1..size : pop[i] = calls[i]
  <2>1. /\ SubSeq(calls, 1, Len(calls) - 1) \in Seq(BinderFrame)
        /\ Len(SubSeq(calls, 1, Len(calls) - 1)) = Len(calls) - 1
        /\ \A i \in 1..Len(calls) - 1 : SubSeq(calls, 1, Len(calls) - 1)[i] = calls[i]
    BY PopOne
  <2>2. Len(calls) - 1 = size
    BY <1>1
  <2> QED
    BY <2>1, <2>2
<1>3. PICK top \in BinderFrame : top = calls[size + 1]
  BY <1>1
<1>4. PICK new \in Seq(BinderFrame) : /\ new = Append(pop, top) /\ Len(new) = size + 1 /\ new[size + 1] = top
                                      /\ \A i \in 1..size : new[i] = pop[i]
  <2>1. /\ Append(pop, top) \in Seq(BinderFrame) /\ Len(Append(pop, top)) = size + 1
        /\ Append(pop, top)[size + 1] = top /\ \A i \in 1..size : Append(pop, top)[i] = pop[i]
    BY <1>2, PushOne
  <2> QED
    BY <2>1
<1>5. calls = new
  <2>1. \A i \in 1..size + 1 : i = size + 1 \/ i \in 1..size
    OBVIOUS
  <2>2. \A i \in 1..Len(calls) : calls[i] = new[i]
    BY <1>1, <1>2, <1>3, <1>4, <2>1
  <2> QED
    BY <1>1, <1>4, <2>2, SeqEqual
<1> QED
  BY <1>1, <1>2, <1>3, <1>4, <1>5

LEMMA HeldSlotsPopped ==
  ASSUME NEW calls \in Seq(BinderFrame), calls # <<>>, NEW n
  PROVE  LET pop == SubSeq(calls, 1, Len(calls) - 1)
             top == calls[Len(calls)]
         IN /\ top.held = <<>> => HeldSlots(calls, n) = HeldSlots(pop, n)
            /\ \A x : top.held = << x >> =>
                  /\ n = x => HeldSlots(calls, n) = HeldSlots(pop, n) \cup { << Len(pop) + 1, 1 >> }
                  /\ n # x => HeldSlots(calls, n) = HeldSlots(pop, n)
<1>1. PICK pop \in Seq(BinderFrame), top \in BinderFrame :
         pop = SubSeq(calls, 1, Len(calls) - 1) /\ top = calls[Len(calls)] /\ calls = Append(pop, top)
  BY Repush
<1>2. /\ top.held = <<>> => HeldSlots(Append(pop, top), n) = HeldSlots(pop, n)
      /\ \A x : top.held = << x >> =>
            /\ n = x => HeldSlots(Append(pop, top), n) = HeldSlots(pop, n) \cup { << Len(pop) + 1, 1 >> }
            /\ n # x => HeldSlots(Append(pop, top), n) = HeldSlots(pop, n)
  BY HeldSlotsPushed
<1>3. /\ top.held = <<>> => HeldSlots(calls, n) = HeldSlots(pop, n)
      /\ \A x : top.held = << x >> =>
            /\ n = x => HeldSlots(calls, n) = HeldSlots(pop, n) \cup { << Len(pop) + 1, 1 >> }
            /\ n # x => HeldSlots(calls, n) = HeldSlots(pop, n)
  BY ONLY <1>1, <1>2
<1> QED
  BY <1>1, <1>3

LEMMA CallSlotsIs ==
  \A call, n : CallSlots(call, n) = IF call.fn \in { "return", "done" } /\ call.node = n THEN { call } ELSE {}
BY DEF CallSlots

--------------------------------------------------------------------------------
(* Who owns the cells after a step of the binder.                               *)

CellsOwned == Once(heap, freed, binder_stack, scope, binder)
CellsLost  == Lost(heap, freed, binder_stack, scope, binder)

\* The new cells had no owner before.
LEMMA CellsAdded ==
  ASSUME heap \in Seq(Cell), freed \subseteq 1..Len(heap), CellsOwned,
         NEW new \in Seq(Cell), Extends(heap, new), NEW n
  PROVE  /\ KidSlots(new, freed, n) = KidSlots(heap, freed, n) \cup Added(heap, new, n)
         /\ n \in Len(heap) + 1..Len(new) =>
               /\ KidSlots(heap, freed, n) = {} /\ HeldSlots(binder_stack, n) = {}
               /\ NameSlots(scope, n) = {} /\ CallSlots(binder, n) = {}
               /\ n \in Live(new, freed) /\ n \notin CellsLost
         /\ n \notin Len(heap) + 1..Len(new) =>
               /\ n \in Live(new, freed) <=> n \in Live(heap, freed)
               /\ n \in Live(heap, freed) => new[n].cell = heap[n].cell
         /\ n \in Live(heap, freed) => n \in Live(new, freed) /\ n \notin Len(heap) + 1..Len(new)
<1>1. /\ n \in Live(new, freed) <=> n \in Live(heap, freed) \/ n \in Len(heap) + 1..Len(new)
      /\ n \in Len(heap) + 1..Len(new) => n \notin Live(heap, freed)
      /\ n \in Live(heap, freed) => new[n] = heap[n]
  BY LiveAdded
<1>2. KidSlots(new, freed, n) = KidSlots(heap, freed, n) \cup Added(heap, new, n)
  BY KidSlotsAdded
<1>3. n \notin Live(heap, freed) =>
        /\ KidSlots(heap, freed, n) = {} /\ HeldSlots(binder_stack, n) = {}
        /\ NameSlots(scope, n) = {} /\ CallSlots(binder, n) = {}
  BY OwnersOfCell DEF CellsOwned
<1>4. n \in CellsLost => n \in Live(heap, freed)
  BY DEF CellsLost, Lost
<1> QED
  BY <1>1, <1>2, <1>3, <1>4

\* Who has an owner of one kind has no other one, and was not lost.
LEMMA ReturnedIsOwned ==
  ASSUME CellsOwned, binder.fn \in { "return", "done" }
  PROVE  /\ KidSlots(heap, freed, binder.node) = {} /\ HeldSlots(binder_stack, binder.node) = {}
         /\ NameSlots(scope, binder.node) = {}
         /\ binder.node \in Live(heap, freed) /\ binder.node \notin CellsLost
<1>1. CallSlots(binder, binder.node) = { binder }
  BY DEF CallSlots
<1>2. CallSlots(binder, binder.node) # {}
  BY <1>1
<1>3. /\ KidSlots(heap, freed, binder.node) = {} /\ HeldSlots(binder_stack, binder.node) = {}
      /\ NameSlots(scope, binder.node) = {} /\ binder.node \in Live(heap, freed)
  BY <1>2, OwnersOfCell DEF CellsOwned
<1>4. << "binder", binder >> \in Owners(heap, freed, binder_stack, scope, binder, binder.node)
  BY <1>1 DEF Owners, Slots
<1> QED
  BY <1>3, <1>4 DEF CellsLost, Lost

\* A step that makes no cell and hands none over.
LEMMA OwnedByTheSame ==
  ASSUME CellsOwned, heap' = heap, freed' = freed, scope' = scope,
         \A n : CallSlots(binder', n) = CallSlots(binder, n),
         \A n : HeldSlots(binder_stack', n) = HeldSlots(binder_stack, n)
  PROVE  CellsOwned' /\ CellsLost' = CellsLost
<1>1. \A n : Owners(heap', freed', binder_stack', scope', binder', n)
                = Owners(heap, freed, binder_stack, scope, binder, n)
  BY DEF Owners
<1>2. PICK cells, gone, names : cells = heap' /\ gone = freed' /\ names = scope'
  OBVIOUS
<1>3. Once(heap', freed', binder_stack', scope', binder')
  BY <1>1 DEF CellsOwned, Once
<1>4. Lost(heap', freed', binder_stack', scope', binder') = Lost(heap, freed, binder_stack, scope, binder)
  BY <1>1 DEF Lost
<1> QED
  BY <1>3, <1>4 DEF CellsOwned, CellsLost

\* The binder calls itself with nothing in hand.
LEMMA SuspendOwned ==
  ASSUME BinderInv, CellsOwned, NEW kind, Binding(kind), NEW fn \in { "unary", "left", "assignment" }, NEW n \in Nat,
         binder_stack' = Append(binder_stack, Await(fn, n, <<>>)), binder'.fn = "bind",
         UNCHANGED << heap, freed, scope >>
  PROVE  CellsOwned' /\ CellsLost' = CellsLost
<1>1. binder_stack \in Seq(BinderFrame) /\ binder.fn = "bind"
  BY BindingIs
<1>2. PICK frame \in BinderFrame : frame = Await(fn, n, <<>>) /\ frame.held = <<>>
  BY AwaitIs
<1>3. \A m : HeldSlots(Append(binder_stack, frame), m) = HeldSlots(binder_stack, m)
  BY <1>1, <1>2, HeldSlotsPushed
<1>4. \A m : CallSlots(binder', m) = CallSlots(binder, m)
  BY <1>1, CallSlotsIs
<1> QED
  BY <1>2, <1>3, <1>4, OwnedByTheSame

\* A leaf belongs to who returns it.
LEMMA LeafOwned ==
  ASSUME BinderInv, CellsOwned, NEW kind, Binding(kind), NEW value \in Objects \cup { NullObject },
         heap' = Append(heap, Literal(value)), binder' = Bound(Len(heap) + 1),
         UNCHANGED << freed, scope, binder_stack >>
  PROVE  CellsOwned' /\ CellsLost' = CellsLost
<1>1. heap \in Seq(Cell) /\ binder.fn = "bind" /\ freed \subseteq 1..Len(heap)
  BY BindingIs DEF BinderInv
<1>2. PICK size \in Nat : size = Len(heap)
  BY <1>1
<1>3. PICK leaf \in Cell : leaf = Literal(value) /\ leaf.kids = <<>>
  BY NewCells DEF Literal
<1>4. PICK new \in Seq(Cell) : /\ new = Append(heap, leaf) /\ Len(new) = size + 1 /\ new[size + 1] = leaf
                               /\ Extends(heap, new)
  <2>1. /\ Append(heap, leaf) \in Seq(Cell) /\ Len(Append(heap, leaf)) = size + 1
        /\ Append(heap, leaf)[size + 1] = leaf /\ \A i \in 1..size : Append(heap, leaf)[i] = heap[i]
    BY <1>1, <1>2, PushOne
  <2>2. Extends(heap, Append(heap, leaf))
    BY <1>1, <1>2, <2>1 DEF Extends
  <2> QED
    BY <2>1, <2>2
<1>5. \A n : Added(heap, new, n) = {}
  <2>1. PICK last \in Nat : last = size + 1
    OBVIOUS
  <2>2. size < last /\ \A m \in size + 1..last - 1 : new[m].kids = <<>>
    BY <2>1
  <2>3. Grown(heap, new, last, <<>>)
    BY <1>1, <1>2, <1>3, <1>4, <2>1, <2>2 DEF Grown
  <2> QED
    BY <2>3, AddedNone
<1>6. PICK call : call = Bound(size + 1) /\ \A n : CallSlots(call, n) = IF n = size + 1 THEN { call } ELSE {}
  <2>1. \A n : CallSlots(Bound(size + 1), n) = IF n = size + 1 THEN { Bound(size + 1) } ELSE {}
    BY DEF CallSlots, Bound
  <2> QED
    BY <2>1
<1>7. \A n : CallSlots(binder, n) = {}
  BY <1>1, CallSlotsIs
<1>8. \A n : n \in size + 1..size + 1 <=> n = size + 1
  BY <1>2
<1>9. \A n : KidSlots(new, freed, n) = KidSlots(heap, freed, n)
  BY <1>1, <1>4, <1>5, CellsAdded
<1>10. ASSUME NEW n, n # size + 1
       PROVE  /\ Owners(new, freed, binder_stack, scope, call, n) = Owners(heap, freed, binder_stack, scope, binder, n)
              /\ n \in Live(new, freed) <=> n \in Live(heap, freed)
              /\ n \in Live(heap, freed) => new[n].cell = heap[n].cell
  <2>1. Owners(new, freed, binder_stack, scope, call, n) = Owners(heap, freed, binder_stack, scope, binder, n)
    BY <1>6, <1>7, <1>9, <1>10 DEF Owners
  <2>2. n \notin Len(heap) + 1..Len(new)
    BY <1>2, <1>4, <1>8, <1>10
  <2> QED
    BY <1>1, <1>4, <2>1, <2>2, CellsAdded
<1>11. /\ size + 1 \in Live(new, freed) /\ size + 1 \notin CellsLost
       /\ Owners(new, freed, binder_stack, scope, call, size + 1) = { << "binder", call >> }
  <2>1. size + 1 \in Len(heap) + 1..Len(new)
    BY <1>2, <1>4, <1>8
  <2>2. /\ KidSlots(heap, freed, size + 1) = {} /\ HeldSlots(binder_stack, size + 1) = {}
        /\ NameSlots(scope, size + 1) = {} /\ size + 1 \in Live(new, freed) /\ size + 1 \notin CellsLost
    BY <1>1, <1>4, <2>1, CellsAdded
  <2> QED
    BY <1>6, <1>9, <2>2, OneSlot DEF Owners
<1>12. /\ Once(new, freed, binder_stack, scope, call)
       /\ Lost(new, freed, binder_stack, scope, call) = Lost(heap, freed, binder_stack, scope, binder) \cup {}
  <2>1. PICK E : E = {}
    OBVIOUS
  <2>2. \A n : Handed(heap, freed, binder_stack, scope, binder, new, freed, binder_stack, scope, call, E, n)
    BY <1>10, <1>11, <2>1 DEF CellsLost, Handed
  <2>3. Once(heap, freed, binder_stack, scope, binder)
    BY DEF CellsOwned
  <2>4. /\ Once(new, freed, binder_stack, scope, call)
        /\ Lost(new, freed, binder_stack, scope, call) = Lost(heap, freed, binder_stack, scope, binder) \cup E
    BY ONLY <2>2, <2>3, OnceNext
  <2> QED
    BY <2>1, <2>4
<1>13. heap' = new /\ binder' = call
  BY <1>2, <1>3, <1>4, <1>6
<1> QED
  BY <1>12, <1>13 DEF CellsOwned, CellsLost

\* A name in scope gets a copy of its symbol, which the variable owns.
LEMMA VariableOwned ==
  ASSUME BinderInv, CellsOwned, BindDeclaredName
  PROVE  CellsOwned' /\ CellsLost' = CellsLost
<1>1. /\ heap \in Seq(Cell) /\ binder.fn = "bind" /\ freed \subseteq 1..Len(heap)
      /\ \A name \in DOMAIN scope : name \in Name /\ IsSymbol(heap, scope[name])
  BY BindingIs DEF BinderInv, BindDeclaredName, BoundBy
<1>2. PICK size \in Nat : size = Len(heap)
  BY <1>1
<1>3. PICK last \in Nat : last = size + 2
  OBVIOUS
<1>4. PICK name, type :
         /\ name \in DOMAIN scope /\ type = heap[scope[name]].type
         /\ heap' = heap \o << Symbol(name, type), Variable(size + 1, type) >>
         /\ binder' = Bound(last) /\ UNCHANGED << freed, scope, binder_stack >>
  BY <1>2, <1>3 DEF BindDeclaredName
<1>5. name \in Name /\ type \in ObjectTypes
  BY <1>1, <1>4, CellHasType
<1>6. PICK symbol \in Cell : symbol = Symbol(name, type) /\ symbol.kids = <<>>
  BY <1>5, NewCells DEF Symbol
<1>7. PICK variable \in Cell : variable = Variable(size + 1, type) /\ variable.kids = << size + 1 >>
  <2>1. size + 1 \in Pointer
    BY DEF Pointer
  <2> QED
    BY <1>5, <2>1, NewCells DEF Variable
<1>8. PICK new \in Seq(Cell) : /\ new = heap' /\ Len(new) = last /\ new[size + 1] = symbol
                               /\ new[last] = variable /\ Extends(heap, new)
  <2>1. /\ heap \o << symbol, variable >> \in Seq(Cell) /\ Len(heap \o << symbol, variable >>) = size + 2
        /\ (heap \o << symbol, variable >>)[size + 1] = symbol
        /\ (heap \o << symbol, variable >>)[size + 2] = variable
        /\ \A i \in 1..size : (heap \o << symbol, variable >>)[i] = heap[i]
    BY <1>1, <1>2, PushTwo
  <2>2. Extends(heap, heap \o << symbol, variable >>)
    BY <1>1, <1>2, <2>1 DEF Extends
  <2>3. heap' = heap \o << symbol, variable >>
    BY <1>4, <1>6, <1>7
  <2> QED
    BY <1>3, <2>1, <2>2, <2>3
<1>9. \A n : /\ n = size + 1 => Added(heap, new, n) = { << last, 1 >> }
             /\ n # size + 1 => Added(heap, new, n) = {}
  <2>1. \A m \in size + 1..last - 1 : m = size + 1
    BY <1>3
  <2>2. size < last /\ \A m \in size + 1..last - 1 : new[m].kids = <<>>
    BY <1>3, <1>6, <1>8, <2>1
  <2>3. PICK a : a = size + 1
    OBVIOUS
  <2>4. Grown(heap, new, last, << a >>)
    BY <1>1, <1>2, <1>7, <1>8, <2>2, <2>3 DEF Grown
  <2> QED
    BY <2>3, <2>4, AddedOne
<1>10. PICK call : call = binder' /\ \A n : CallSlots(call, n) = IF n = last THEN { call } ELSE {}
  <2>1. \A n : CallSlots(Bound(last), n) = IF n = last THEN { Bound(last) } ELSE {}
    BY DEF CallSlots, Bound
  <2> QED
    BY <1>4, <2>1
<1>11. \A n : CallSlots(binder, n) = {}
  BY <1>1, CallSlotsIs
<1>12. \A n : n \in Len(heap) + 1..Len(new) <=> n = size + 1 \/ n = last
  <2>1. \A n : n \in size + 1..last <=> n = size + 1 \/ n = last
    BY <1>3
  <2> QED
    BY <1>2, <1>8, <2>1
<1>13. PICK E : E = {}
  OBVIOUS
<1>14. \A n : Handed(heap, freed, binder_stack, scope, binder, new, freed, binder_stack, scope, call, E, n)
  <2> TAKE n
  <2>1. KidSlots(new, freed, n) = KidSlots(heap, freed, n) \cup Added(heap, new, n)
    BY <1>1, <1>8, CellsAdded
  <2>2. CASE n # size + 1 /\ n # last
    <3>1. Owners(new, freed, binder_stack, scope, call, n) = Owners(heap, freed, binder_stack, scope, binder, n)
      BY <1>9, <1>10, <1>11, <2>1, <2>2 DEF Owners
    <3>2. n \notin Len(heap) + 1..Len(new)
      BY <1>12, <2>2
    <3>3. /\ n \in Live(new, freed) <=> n \in Live(heap, freed)
          /\ n \in Live(heap, freed) => new[n].cell = heap[n].cell
      BY <1>1, <1>8, <3>2, CellsAdded
    <3> QED
      BY <1>13, <3>1, <3>3 DEF Handed
  <2>3. CASE n = size + 1 \/ n = last
    <3>1. n \in Len(heap) + 1..Len(new)
      BY <1>12, <2>3
    <3>2. /\ KidSlots(heap, freed, n) = {} /\ HeldSlots(binder_stack, n) = {}
          /\ NameSlots(scope, n) = {} /\ n \in Live(new, freed) /\ n \notin CellsLost
      BY <1>1, <1>8, <3>1, CellsAdded
    <3>3. size + 1 # last
      BY <1>3
    <3>4. \E owner : Owners(new, freed, binder_stack, scope, call, n) = { owner }
      <4>1. CASE n = last
        <5>1. Added(heap, new, n) = {} /\ CallSlots(call, n) = { call }
          BY <1>9, <1>10, <3>3, <4>1
        <5>2. Owners(new, freed, binder_stack, scope, call, n) = { << "binder", call >> }
          BY <2>1, <3>2, <5>1, OneSlot DEF Owners
        <5> QED
          BY <5>2
      <4>2. CASE n = size + 1
        <5>1. Added(heap, new, n) = { << last, 1 >> } /\ CallSlots(call, n) = {}
          BY <1>9, <1>10, <3>3, <4>2
        <5>2. Owners(new, freed, binder_stack, scope, call, n) = { << "cell", << last, 1 >> >> }
          BY <2>1, <3>2, <5>1, OneSlot DEF Owners
        <5> QED
          BY <5>2
      <4> QED
        BY <2>3, <4>1, <4>2
    <3> QED
      BY <1>13, <3>2, <3>4 DEF Handed, CellsLost
  <2> QED
    BY <2>2, <2>3
<1>15. Once(heap, freed, binder_stack, scope, binder)
  BY DEF CellsOwned
<1>16. /\ Once(new, freed, binder_stack, scope, call)
       /\ Lost(new, freed, binder_stack, scope, call) = Lost(heap, freed, binder_stack, scope, binder) \cup E
  BY ONLY <1>14, <1>15, OnceNext
<1> QED
  BY <1>4, <1>8, <1>10, <1>13, <1>16 DEF CellsOwned, CellsLost

\* What a call that returns has in hand, and what the one that waits for it holds.
LEMMA ReturningOwned ==
  ASSUME BinderInv, CellsOwned, NEW fn, BinderReturning(fn)
  PROVE  /\ heap \in Seq(Cell) /\ freed \subseteq 1..Len(heap) /\ BinderPop \in Seq(BinderFrame)
         /\ binder.node \in 1..Len(heap) /\ heap[binder.node].cell # "SYMBOL"
         /\ binder.node \in Live(heap, freed) /\ binder.node \notin CellsLost
         /\ KidSlots(heap, freed, binder.node) = {} /\ HeldSlots(binder_stack, binder.node) = {}
         /\ NameSlots(scope, binder.node) = {}
         /\ \A n : CallSlots(binder, n) = IF n = binder.node THEN { binder } ELSE {}
         /\ fn # "right" => \A n : HeldSlots(binder_stack, n) = HeldSlots(BinderPop, n)
<1>1. /\ heap \in Seq(Cell) /\ BinderPop \in Seq(BinderFrame) /\ binder.fn = "return"
      /\ Builds(heap, binder.node) /\ BinderTop.fn = fn /\ Waiting(syntax, heap, BinderTop)
  BY ReturningIs
<1>2. freed \subseteq 1..Len(heap) /\ binder_stack \in Seq(BinderFrame) /\ binder_stack # <<>>
  BY DEF BinderInv, BoundBy, BinderReturning
<1>3. /\ KidSlots(heap, freed, binder.node) = {} /\ HeldSlots(binder_stack, binder.node) = {}
      /\ NameSlots(scope, binder.node) = {}
      /\ binder.node \in Live(heap, freed) /\ binder.node \notin CellsLost
  BY <1>1, ReturnedIsOwned
<1>4. \A n : CallSlots(binder, n) = IF n = binder.node THEN { binder } ELSE {}
  BY <1>1, CallSlotsIs
<1>5. ASSUME fn # "right", NEW n PROVE HeldSlots(binder_stack, n) = HeldSlots(BinderPop, n)
  <2>1. BinderTop.held = <<>>
    BY <1>1, <1>5 DEF Waiting
  <2> QED
    BY <1>2, <2>1, HeldSlotsPopped DEF BinderTop, BinderPop
<1> QED
  BY <1>1, <1>2, <1>3, <1>4, <1>5 DEF Builds

\* The operand goes to the new cell, or back to the caller.
LEMMA UnaryOwned ==
  ASSUME BinderInv, CellsOwned, FinishUnary
  PROVE  CellsOwned' /\ CellsLost' = CellsLost
<1>1. /\ BinderReturning("unary") /\ binder_stack' = BinderPop /\ UNCHANGED << freed, scope >>
      /\ \/ UNCHANGED << heap, binder >>
         \/ \E op \in UnaryOperators :
               heap' = Append(heap, Unary(op, binder.node)) /\ binder' = Bound(Len(heap) + 1)
  BY DEF FinishUnary, UnaryMatches
<1>2. /\ heap \in Seq(Cell) /\ freed \subseteq 1..Len(heap) /\ BinderPop \in Seq(BinderFrame)
      /\ binder.node \in 1..Len(heap) /\ binder.node \in Live(heap, freed) /\ binder.node \notin CellsLost
      /\ KidSlots(heap, freed, binder.node) = {} /\ HeldSlots(binder_stack, binder.node) = {}
      /\ NameSlots(scope, binder.node) = {}
      /\ \A n : CallSlots(binder, n) = IF n = binder.node THEN { binder } ELSE {}
      /\ \A n : HeldSlots(binder_stack, n) = HeldSlots(BinderPop, n)
  BY <1>1, ReturningOwned
<1>3. CASE UNCHANGED << heap, binder >>
  BY <1>1, <1>2, <1>3, OwnedByTheSame
<1>4. ASSUME NEW op \in UnaryOperators,
             heap' = Append(heap, Unary(op, binder.node)), binder' = Bound(Len(heap) + 1)
      PROVE  CellsOwned' /\ CellsLost' = CellsLost
  <2>1. PICK size \in Nat : size = Len(heap)
    BY <1>2
  <2>2. PICK last \in Nat : last = size + 1
    OBVIOUS
  <2>3. PICK cell \in Cell : cell = Unary(op, binder.node) /\ cell.kids = << binder.node >>
    <3>1. binder.node \in Pointer
      BY <1>2, <2>1 DEF Pointer
    <3> QED
      BY <3>1, NewCells DEF Unary
  <2>4. PICK new \in Seq(Cell) : /\ new = heap' /\ Len(new) = last /\ new[last] = cell /\ Extends(heap, new)
    <3>1. /\ Append(heap, cell) \in Seq(Cell) /\ Len(Append(heap, cell)) = size + 1
          /\ Append(heap, cell)[size + 1] = cell /\ \A i \in 1..size : Append(heap, cell)[i] = heap[i]
      BY <1>2, <2>1, PushOne
    <3>2. Extends(heap, Append(heap, cell))
      BY <1>2, <2>1, <3>1 DEF Extends
    <3> QED
      BY <1>4, <2>2, <2>3, <3>1, <3>2
  <2>5. \A n : /\ n = binder.node => Added(heap, new, n) = { << last, 1 >> }
               /\ n # binder.node => Added(heap, new, n) = {}
    <3>1. size < last /\ \A m \in size + 1..last - 1 : new[m].kids = <<>>
      BY <2>2
    <3>2. PICK a : a = binder.node
      OBVIOUS
    <3>3. Grown(heap, new, last, << a >>)
      BY <1>2, <2>1, <2>2, <2>3, <2>4, <3>1, <3>2 DEF Grown
    <3> QED
      BY <3>2, <3>3, AddedOne
  <2>6. PICK call : call = binder' /\ \A n : CallSlots(call, n) = IF n = last THEN { call } ELSE {}
    <3>1. \A n : CallSlots(Bound(last), n) = IF n = last THEN { Bound(last) } ELSE {}
      BY DEF CallSlots, Bound
    <3> QED
      BY <1>4, <2>1, <2>2, <3>1
  <2>7. /\ binder.node # last
        /\ \A n : n \in Len(heap) + 1..Len(new) <=> n = last
    <3>1. \A n : n \in size + 1..last <=> n = last
      BY <2>2
    <3>2. binder.node # last
      BY <1>2, <2>1, <2>2
    <3> QED
      BY <2>1, <2>4, <3>1, <3>2
  <2>8. PICK E : E = {}
    OBVIOUS
  <2>9. PICK pop : pop = BinderPop
    OBVIOUS
  <2>10. \A n : Handed(heap, freed, binder_stack, scope, binder, new, freed, pop, scope, call, E, n)
    <3> TAKE n
    <3>1. KidSlots(new, freed, n) = KidSlots(heap, freed, n) \cup Added(heap, new, n)
      BY <1>2, <2>4, CellsAdded
    <3>2. HeldSlots(pop, n) = HeldSlots(binder_stack, n)
      BY <1>2, <2>9
    <3>3. CASE n # binder.node /\ n # last
      <4>1. Added(heap, new, n) = {} /\ CallSlots(call, n) = {} /\ CallSlots(binder, n) = {}
        BY <1>2, <2>5, <2>6, <3>3
      <4>2. Owners(new, freed, pop, scope, call, n) = Owners(heap, freed, binder_stack, scope, binder, n)
        BY <3>1, <3>2, <4>1 DEF Owners
      <4>3. n \notin Len(heap) + 1..Len(new)
        BY <2>7, <3>3
      <4>4. /\ n \in Live(new, freed) <=> n \in Live(heap, freed)
            /\ n \in Live(heap, freed) => new[n].cell = heap[n].cell
        BY <1>2, <2>4, <4>3, CellsAdded
      <4> QED
        BY <2>8, <4>2, <4>4 DEF Handed
    <3>4. CASE n = last
      <4>1. n \in Len(heap) + 1..Len(new)
        BY <2>7, <3>4
      <4>2. /\ KidSlots(heap, freed, n) = {} /\ HeldSlots(binder_stack, n) = {}
            /\ NameSlots(scope, n) = {} /\ n \in Live(new, freed) /\ n \notin CellsLost
        BY <1>2, <2>4, <4>1, CellsAdded
      <4>3. Added(heap, new, n) = {} /\ CallSlots(call, n) = { call }
        BY <2>5, <2>6, <2>7, <3>4
      <4>4. Owners(new, freed, pop, scope, call, n) = { << "binder", call >> }
        BY <3>1, <3>2, <4>2, <4>3, OneSlot DEF Owners
      <4> QED
        BY <2>8, <4>2, <4>4 DEF Handed, CellsLost
    <3>5. CASE n = binder.node
      <4>1. n \in Live(new, freed)
        BY <1>2, <2>4, <3>5, CellsAdded
      <4>2. Added(heap, new, n) = { << last, 1 >> } /\ CallSlots(call, n) = {}
        BY <2>5, <2>6, <2>7, <3>5
      <4>3. Owners(new, freed, pop, scope, call, n) = { << "cell", << last, 1 >> >> }
        BY <1>2, <3>1, <3>2, <3>5, <4>2, OneSlot DEF Owners
      <4> QED
        BY <1>2, <2>8, <3>5, <4>1, <4>3 DEF Handed, CellsLost
    <3> QED
      BY <3>3, <3>4, <3>5
  <2>11. Once(heap, freed, binder_stack, scope, binder)
    BY DEF CellsOwned
  <2>12. /\ Once(new, freed, pop, scope, call)
         /\ Lost(new, freed, pop, scope, call) = Lost(heap, freed, binder_stack, scope, binder) \cup E
    BY ONLY <2>10, <2>11, OnceNext
  <2> QED
    BY <1>1, <2>4, <2>6, <2>8, <2>9, <2>12 DEF CellsOwned, CellsLost
<1> QED
  BY <1>1, <1>3, <1>4


\* The left operand goes to the call that waits for the right one.
LEMMA LeftOwned ==
  ASSUME BinderInv, CellsOwned, FinishLeft
  PROVE  CellsOwned' /\ CellsLost' = CellsLost
<1>1. /\ BinderReturning("left") /\ UNCHANGED << heap, freed, scope >> /\ binder'.fn = "bind"
      /\ binder_stack' = Append(BinderPop, Await("right", BinderTop.syntax, << binder.node >>))
  BY DEF FinishLeft, Bind
<1>2. /\ heap \in Seq(Cell) /\ BinderPop \in Seq(BinderFrame)
      /\ binder.node \in 1..Len(heap)
      /\ binder.node \in Live(heap, freed) /\ binder.node \notin CellsLost
      /\ KidSlots(heap, freed, binder.node) = {} /\ HeldSlots(binder_stack, binder.node) = {}
      /\ NameSlots(scope, binder.node) = {}
      /\ \A n : CallSlots(binder, n) = IF n = binder.node THEN { binder } ELSE {}
      /\ \A n : HeldSlots(binder_stack, n) = HeldSlots(BinderPop, n)
  BY <1>1, ReturningOwned
<1>3. PICK pop \in Seq(BinderFrame), size \in Nat : pop = BinderPop /\ size = Len(pop)
  BY <1>2
<1>4. PICK left \in Pointer : left = binder.node
  BY <1>2 DEF Pointer
<1>5. PICK frame \in BinderFrame : frame = Await("right", BinderTop.syntax, << left >>) /\ frame.held = << left >>
  <2>1. << left >> \in Seq(Pointer) /\ BinderTop.syntax \in Nat
    BY <1>1, ReturningIs DEF BinderFrame
  <2>2. PICK held \in Seq(Pointer), n \in Nat : held = << left >> /\ n = BinderTop.syntax
    BY <2>1
  <2>3. Await("right", n, held) \in BinderFrame /\ Await("right", n, held).held = held
    BY DEF Await, BinderFrame
  <2> QED
    BY <2>2, <2>3
<1>6. PICK calls : /\ calls = binder_stack'
                   /\ HeldSlots(calls, left) = HeldSlots(pop, left) \cup { << size + 1, 1 >> }
                   /\ \A n : n # left => HeldSlots(calls, n) = HeldSlots(pop, n)
  <2>1. \A n : /\ n = left => HeldSlots(Append(pop, frame), n) = HeldSlots(pop, n) \cup { << size + 1, 1 >> }
               /\ n # left => HeldSlots(Append(pop, frame), n) = HeldSlots(pop, n)
    BY <1>3, <1>5, HeldSlotsPushed
  <2> QED
    BY <1>1, <1>3, <1>4, <1>5, <2>1
<1>7. PICK call : call = binder' /\ \A n : CallSlots(call, n) = {}
  BY <1>1, CallSlotsIs
<1>8. PICK E : E = {}
  OBVIOUS
<1>9. \A n : Handed(heap, freed, binder_stack, scope, binder, heap, freed, calls, scope, call, E, n)
  <2> TAKE n
  <2>1. CASE n # left
    <3>1. Owners(heap, freed, calls, scope, call, n) = Owners(heap, freed, binder_stack, scope, binder, n)
      BY <1>2, <1>3, <1>4, <1>6, <1>7, <2>1 DEF Owners
    <3> QED
      BY <1>8, <3>1 DEF Handed
  <2>2. CASE n = left
    <3>1. HeldSlots(calls, n) = { << size + 1, 1 >> }
      BY <1>2, <1>3, <1>4, <1>6, <2>2
    <3>2. Owners(heap, freed, calls, scope, call, n) = { << "call", << size + 1, 1 >> >> }
      BY <1>2, <1>4, <1>7, <2>2, <3>1, OneSlot DEF Owners
    <3> QED
      BY <1>2, <1>4, <1>8, <2>2, <3>2 DEF Handed, CellsLost
  <2> QED
    BY <2>1, <2>2
<1>10. Once(heap, freed, binder_stack, scope, binder)
  BY DEF CellsOwned
<1>11. /\ Once(heap, freed, calls, scope, call)
       /\ Lost(heap, freed, calls, scope, call) = Lost(heap, freed, binder_stack, scope, binder) \cup E
  BY ONLY <1>9, <1>10, OnceNext
<1> QED
  BY <1>1, <1>6, <1>7, <1>8, <1>11 DEF CellsOwned, CellsLost

\* What FinishBinary has in hand: the operands are two cells.
LEMMA OperandsOwned ==
  ASSUME BinderInv, CellsOwned, BinderReturning("right"), NEW left, left = BinderTop.held[1]
  PROVE  /\ left \in 1..Len(heap) /\ left \in Live(heap, freed) /\ left \notin CellsLost /\ left # binder.node
         /\ KidSlots(heap, freed, left) = {} /\ NameSlots(scope, left) = {} /\ CallSlots(binder, left) = {}
         /\ HeldSlots(BinderPop, left) = {} /\ HeldSlots(BinderPop, binder.node) = {}
         /\ \A n : n # left => HeldSlots(binder_stack, n) = HeldSlots(BinderPop, n)
<1>1. /\ heap \in Seq(Cell) /\ BinderPop \in Seq(BinderFrame) /\ BinderTop \in BinderFrame
      /\ BinderTop.fn = "right" /\ Waiting(syntax, heap, BinderTop)
  BY ReturningIs
<1>2. binder_stack \in Seq(BinderFrame) /\ binder_stack # <<>>
  BY DEF BinderInv, BoundBy, BinderReturning
<1>3. BinderTop.held = << left >> /\ Builds(heap, left)
  BY <1>1 DEF Waiting, BinderFrame
<1>4. PICK pop \in Seq(BinderFrame), size \in Nat : pop = BinderPop /\ size = Len(pop)
  BY <1>1
<1>5. \A n : /\ n = left => HeldSlots(binder_stack, n) = HeldSlots(pop, n) \cup { << size + 1, 1 >> }
             /\ n # left => HeldSlots(binder_stack, n) = HeldSlots(pop, n)
  <2>1. PICK top : top = BinderTop /\ top.held = << left >>
    BY <1>3
  <2>2. \A n : \A x : top.held = << x >> =>
           /\ n = x => HeldSlots(binder_stack, n) = HeldSlots(pop, n) \cup { << size + 1, 1 >> }
           /\ n # x => HeldSlots(binder_stack, n) = HeldSlots(pop, n)
    BY <1>2, <1>4, <2>1, HeldSlotsPopped DEF BinderTop, BinderPop
  <2> QED
    BY <2>1, <2>2
<1>6. << size + 1, 1 >> \in HeldSlots(binder_stack, left)
  BY <1>5
<1>7. /\ left \in Live(heap, freed) /\ KidSlots(heap, freed, left) = {} /\ NameSlots(scope, left) = {}
      /\ CallSlots(binder, left) = {} /\ \A one, other \in HeldSlots(binder_stack, left) : one = other
  <2>1. HeldSlots(binder_stack, left) # {}
    BY <1>6
  <2> QED
    BY <2>1, OwnersOfCell DEF CellsOwned
<1>8. HeldSlots(pop, left) = {}
  <2>1. \A at \in HeldSlots(pop, left) : at[1] \in 1..size
    BY <1>4 DEF HeldSlots, Operands
  <2>2. \A at \in HeldSlots(pop, left) : at = << size + 1, 1 >>
    BY <1>5, <1>6, <1>7
  <2>3. << size + 1, 1 >>[1] = size + 1 /\ size + 1 \notin 1..size
    OBVIOUS
  <2> QED
    BY <2>1, <2>2, <2>3
<1>9. left \notin CellsLost
  <2>1. << "call", << size + 1, 1 >> >> \in Owners(heap, freed, binder_stack, scope, binder, left)
    BY <1>6 DEF Owners, Slots
  <2> QED
    BY <2>1 DEF CellsLost, Lost
<1>10. left # binder.node
  <2>1. CallSlots(binder, binder.node) = { binder }
    BY CallSlotsIs DEF BinderReturning
  <2> QED
    BY <1>7, <2>1
<1>11. HeldSlots(pop, binder.node) = {}
  <2>1. HeldSlots(binder_stack, binder.node) = {}
    BY ReturningOwned
  <2> QED
    BY <1>5, <1>10, <2>1
<1> QED
  BY <1>3, <1>4, <1>5, <1>7, <1>8, <1>9, <1>10, <1>11 DEF Builds

\* A cell has two kids at most.
LEMMA TwoKids ==
  ASSUME NEW cells, Typed(cells), NEW n \in 1..Len(cells), NEW k \in 1..Len(cells[n].kids)
  PROVE  k \in 1..2
<1>1. TypedCell(cells, n)
  BY DEF Typed
<1>2. CASE \E value \in Objects \cup { NullObject } : cells[n] = Literal(value)
  BY <1>2 DEF Literal
<1>3. CASE \E name \in Name, type \in ObjectTypes : cells[n] = Symbol(name, type)
  BY <1>3 DEF Symbol
<1>4. CASE \E op \in UnaryOperators, operand \in 1..n - 1 : cells[n] = Unary(op, operand)
  BY <1>4 DEF Unary
<1>5. CASE \E op \in BinaryOperators, left \in 1..n - 1, right \in 1..n - 1 : cells[n] = Binary(op, left, right)
  BY <1>5 DEF Binary
<1>6. CASE \E symbol \in 1..n - 1, type \in ObjectTypes : cells[n] = Variable(symbol, type)
  BY <1>6 DEF Variable
<1>7. CASE \E symbol \in 1..n - 1, expression \in 1..n - 1 :
               cells[n] = Assignment(symbol, expression, cells[expression].type)
  BY <1>7 DEF Assignment
<1> QED
  BY <1>1, <1>2, <1>3, <1>4, <1>5, <1>6, <1>7 DEF TypedCell

LEMMA KidsAreCells ==
  ASSUME NEW cell \in Cell
  PROVE  cell.kids \in Seq(Pointer) /\ (cell.cell = "SYMBOL" => cell.kids = <<>>)
<1>1. <<>> \in Seq(Pointer)
  OBVIOUS
<1>2. cell.kids \in Seq(Pointer)
  <2>1. CASE \E value \in Objects \cup { NullObject } : cell = Literal(value)
    BY <1>1, <2>1 DEF Literal
  <2>2. CASE \E name \in Names, type \in ObjectTypes : cell = Symbol(name, type)
    BY <1>1, <2>2 DEF Symbol
  <2>3. CASE \/ cell \in [ cell : { "UNARY" }, kids : Seq(Pointer), type : ObjectTypes, op : UnaryKinds ]
             \/ cell \in [ cell : { "BINARY" }, kids : Seq(Pointer), type : ObjectTypes, op : BinaryKinds ]
             \/ cell \in [ cell : { "VARIABLE", "ASSIGNMENT" }, kids : Seq(Pointer), type : ObjectTypes ]
    BY <2>3
  <2> QED
    BY <2>1, <2>2, <2>3 DEF Cell
<1>3. cell.cell = "SYMBOL" => cell.kids = <<>>
  BY DEF Cell, Literal, Symbol
<1> QED
  BY <1>2, <1>3

\* A live cell owns its kids.
LEMMA KidOwned ==
  ASSUME heap \in Seq(Cell), Typed(heap), NEW m \in Live(heap, freed), NEW k \in 1..Len(heap[m].kids)
  PROVE  << m, k >> \in KidSlots(heap, freed, heap[m].kids[k])
<1>1. m \in 1..Len(heap)
  BY DEF Live
<1>2. k \in 1..2
  BY <1>1, TwoKids
<1>3. k <= Len(heap[m].kids)
  <2>1. PICK kids : kids = heap[m].kids /\ kids \in Seq(Pointer)
    BY <1>1, KidsAreCells
  <2> QED
    BY <2>1
<1> QED
  BY <1>2, <1>3 DEF KidSlots

\* What is below a cell: itself, the kids of what is below, and nothing else.
Hangs(n) ==
    /\ n \in Below[n]
    /\ \A m \in Below[n] : \A k \in 1..Len(heap[m].kids) : heap[m].kids[k] \in Below[n]
    /\ \A x \in Below[n] : x = n \/ \E m \in Below[n] : \E k \in 1..Len(heap[m].kids) : heap[m].kids[k] = x

LEMMA BelowHangs ==
  ASSUME NEW size \in Nat, size = Len(heap), Older(heap)
  PROVE  \A n \in 1..size : Hangs(n)
<1> DEFINE T == { n \in 1..size : ~Hangs(n) }
<1> SUFFICES ASSUME T # {} PROVE FALSE
  OBVIOUS
<1>1. PICK n \in T : \A other \in T : n <= other
  <2>1. T \subseteq Nat
    OBVIOUS
  <2> QED
    BY <2>1, LeastElement
<1>2. n \in 1..size /\ ~Hangs(n)
  BY <1>1
<1> DEFINE kid(m, k) == heap[m].kids[k]
           Kids(m) == 1..Len(heap[m].kids)
<1>3. Below[n] = { n } \cup UNION { Below[kid(n, k)] : k \in Kids(n) }
  BY <1>2, BelowIs
<1>4. ASSUME NEW k \in Kids(n) PROVE Hangs(kid(n, k))
  <2>1. PICK x \in 1..n - 1 : x = kid(n, k)
    BY <1>2 DEF Older
  <2>2. x \in 1..size /\ ~(n <= x)
    BY <1>2, <2>1
  <2>3. x \notin T
    BY <1>1, <2>2
  <2> QED
    BY <2>1, <2>2, <2>3
<1>5. \A i \in Kids(n) : /\ kid(n, i) \in Below[kid(n, i)]
                         /\ \A m \in Below[kid(n, i)] : \A k \in Kids(m) : kid(m, k) \in Below[kid(n, i)]
                         /\ \A x \in Below[kid(n, i)] :
                               x = kid(n, i) \/ \E m \in Below[kid(n, i)] : \E k \in Kids(m) : kid(m, k) = x
  BY <1>4 DEF Hangs
<1> HIDE DEF kid, Kids
<1>6. \A x : x \in Below[n] <=> x = n \/ \E i \in Kids(n) : x \in Below[kid(n, i)]
  BY <1>3
<1>7. n \in Below[n]
  BY <1>6
<1>8. \A m \in Below[n] : \A k \in Kids(m) : kid(m, k) \in Below[n]
  <2> SUFFICES ASSUME NEW m \in Below[n], NEW k \in Kids(m) PROVE kid(m, k) \in Below[n]
    OBVIOUS
  <2>1. CASE m = n
    BY <1>5, <1>6, <2>1
  <2>2. CASE m # n
    <3>1. PICK i \in Kids(n) : m \in Below[kid(n, i)]
      BY <1>6, <2>2
    <3>2. kid(m, k) \in Below[kid(n, i)]
      BY <1>5, <3>1
    <3> QED
      BY <1>6, <3>2
  <2> QED
    BY <2>1, <2>2
<1>9. \A x \in Below[n] : x = n \/ \E m \in Below[n] : \E k \in Kids(m) : kid(m, k) = x
  <2> SUFFICES ASSUME NEW x \in Below[n], x # n PROVE \E m \in Below[n] : \E k \in Kids(m) : kid(m, k) = x
    OBVIOUS
  <2>1. PICK i \in Kids(n) : x \in Below[kid(n, i)]
    BY <1>6
  <2>2. CASE x = kid(n, i)
    BY <1>7, <2>2
  <2>3. CASE x # kid(n, i)
    <3>1. PICK m \in Below[kid(n, i)] : \E k \in Kids(m) : kid(m, k) = x
      BY <1>5, <2>1, <2>3
    <3>2. m \in Below[n]
      BY <1>6, <3>1
    <3> QED
      BY <3>1, <3>2
  <2> QED
    BY <2>2, <2>3
<1> QED
  BY <1>2, <1>7, <1>8, <1>9 DEF Hangs, kid, Kids

\* All that is below a live cell is live.
LEMMA BelowIsLive ==
  ASSUME heap \in Seq(Cell), Typed(heap), CellsOwned
  PROVE  \A n \in Live(heap, freed) : Below[n] \subseteq Live(heap, freed)
<1>1. PICK size \in Nat : size = Len(heap)
  OBVIOUS
<1>2. Older(heap)
  BY TypedIsOlder
<1> DEFINE T == { n \in 1..size : n \in Live(heap, freed) /\ ~(Below[n] \subseteq Live(heap, freed)) }
<1> SUFFICES ASSUME T # {} PROVE FALSE
  BY <1>1 DEF Live
<1>3. PICK n \in T : \A other \in T : n <= other
  <2>1. T \subseteq Nat
    OBVIOUS
  <2> QED
    BY <2>1, LeastElement
<1>4. n \in 1..size /\ n \in Live(heap, freed) /\ ~(Below[n] \subseteq Live(heap, freed))
  BY <1>3
<1>5. Below[n] = { n } \cup UNION { Below[heap[n].kids[k]] : k \in 1..Len(heap[n].kids) }
  BY <1>1, <1>2, <1>4, BelowIs
<1>6. ASSUME NEW k \in 1..Len(heap[n].kids) PROVE Below[heap[n].kids[k]] \subseteq Live(heap, freed)
  <2>1. PICK kid \in 1..n - 1 : kid = heap[n].kids[k]
    BY <1>1, <1>2, <1>4 DEF Older
  <2>2. kid \in 1..size /\ ~(n <= kid)
    BY <1>4, <2>1
  <2>3. << n, k >> \in KidSlots(heap, freed, kid)
    BY <1>4, <2>1, KidOwned
  <2>4. KidSlots(heap, freed, kid) # {}
    BY <2>3
  <2>5. kid \in Live(heap, freed)
    BY <2>4, OwnersOfCell DEF CellsOwned
  <2>6. kid \notin T
    BY <1>3, <2>2
  <2> QED
    BY <2>1, <2>2, <2>5, <2>6
<1> QED
  BY <1>4, <1>5, <1>6

\* What hangs below a cell that no cell owns: whoever owns one of them is there too.
LEMMA FreedTogether ==
  ASSUME heap \in Seq(Cell), Typed(heap), CellsOwned, NEW n \in Live(heap, freed), KidSlots(heap, freed, n) = {}
  PROVE  /\ \A x : KidSlots(heap, freed \cup Below[n], x) =
                      IF x \in Below[n] THEN {} ELSE KidSlots(heap, freed, x)
         /\ \A x \in Below[n] : x # n =>
               /\ KidSlots(heap, freed, x) # {}
               /\ HeldSlots(binder_stack, x) = {} /\ NameSlots(scope, x) = {} /\ CallSlots(binder, x) = {}
<1>1. PICK size \in Nat : size = Len(heap)
  OBVIOUS
<1>2. Older(heap) /\ n \in 1..size
  BY <1>1, TypedIsOlder DEF Live
<1>3. Hangs(n)
  BY <1>1, <1>2, BelowHangs
<1>4. Below[n] \subseteq Live(heap, freed)
  BY BelowIsLive
<1>5. PICK gone : gone = freed \cup Below[n]
  OBVIOUS
<1> DEFINE at(m, k) == << m, k >>
           owns(m, k, x) == k <= Len(heap[m].kids) /\ heap[m].kids[k] = x
           Kids(m) == 1..Len(heap[m].kids)
<1>6. \A x, y : y \in KidSlots(heap, gone, x) <=> \E m \in Live(heap, gone), k \in 1..2 : y = at(m, k) /\ owns(m, k, x)
  BY DEF KidSlots
<1>7. \A x, y : y \in KidSlots(heap, freed, x) <=> \E m \in Live(heap, freed), k \in 1..2 : y = at(m, k) /\ owns(m, k, x)
  BY DEF KidSlots
<1>8. \A m : m \in Live(heap, gone) <=> m \in Live(heap, freed) /\ m \notin Below[n]
  BY <1>5 DEF Live
<1>9. \A m \in Live(heap, freed) : \A k \in 1..2 : \A x : owns(m, k, x) => k \in Kids(m) /\ heap[m].kids[k] = x
  <2> SUFFICES ASSUME NEW m \in Live(heap, freed), NEW k \in 1..2, k <= Len(heap[m].kids) PROVE k \in Kids(m)
    OBVIOUS
  <2>1. m \in 1..Len(heap)
    BY DEF Live
  <2>2. PICK kids : kids = heap[m].kids /\ kids \in Seq(Pointer)
    BY <2>1, KidsAreCells
  <2> QED
    BY <2>2
<1>10. \A m \in Below[n] : \A k \in Kids(m) : heap[m].kids[k] \in Below[n]
  BY <1>3 DEF Hangs
<1>11. \A x \in Below[n] : x # n => \E m \in Below[n] : \E k \in Kids(m) : heap[m].kids[k] = x
  BY <1>3 DEF Hangs
<1>12. \A m \in Below[n] : \A k \in Kids(m) : at(m, k) \in KidSlots(heap, freed, heap[m].kids[k])
  BY <1>4, KidOwned
<1>13. \A x \in Below[n] : x # n => KidSlots(heap, freed, x) # {}
  BY <1>11, <1>12
<1>14. \A x \in Below[n] : KidSlots(heap, gone, x) = {}
  <2> SUFFICES ASSUME NEW x \in Below[n], NEW m \in Live(heap, gone), NEW k \in 1..2, owns(m, k, x) PROVE FALSE
    <3> HIDE DEF owns, at
    <3> QED
      BY <1>6
  <2>1. at(m, k) \in KidSlots(heap, freed, x)
    BY <1>7, <1>8
  <2>2. x # n
    BY <2>1
  <2>3. PICK o \in Below[n], j \in Nat : j \in Kids(o) /\ heap[o].kids[j] = x
    BY <1>11, <2>2
  <2>4. at(o, j) \in KidSlots(heap, freed, x)
    BY <1>12, <2>3
  <2>5. \A one, other \in KidSlots(heap, freed, x) : one = other
    BY OwnersOfCell DEF CellsOwned
  <2>6. at(o, j) = at(m, k)
    BY <2>1, <2>4, <2>5
  <2>7. o = m
    <3>1. at(o, j)[1] = o /\ at(m, k)[1] = m
      OBVIOUS
    <3> HIDE DEF at
    <3> QED
      BY <2>6, <3>1
  <2> QED
    BY <1>8, <2>7
<1>15. \A x : x \notin Below[n] => KidSlots(heap, gone, x) = KidSlots(heap, freed, x)
  <2> SUFFICES ASSUME NEW x, x \notin Below[n] PROVE KidSlots(heap, gone, x) = KidSlots(heap, freed, x)
    OBVIOUS
  <2>1. \A m \in Live(heap, freed), k \in 1..2 : owns(m, k, x) => m \notin Below[n]
    <3> HIDE DEF owns, Kids
    <3> QED
      BY <1>9, <1>10
  <2>2. \A y : y \in KidSlots(heap, gone, x) <=> y \in KidSlots(heap, freed, x)
    <3> HIDE DEF owns, at
    <3> QED
      BY <1>6, <1>7, <1>8, <2>1
  <2> QED
    BY <2>2
<1>16. \A x \in Below[n] : x # n =>
         HeldSlots(binder_stack, x) = {} /\ NameSlots(scope, x) = {} /\ CallSlots(binder, x) = {}
  BY <1>13, OwnersOfCell DEF CellsOwned
<1> QED
  BY <1>13, <1>14, <1>15, <1>16, <1>5

\* The operands go to the new cell; or the right one is freed and the left one goes back
\* to the caller.
LEMMA BinaryOwned ==
  ASSUME BinderInv, CellsOwned, FinishBinary
  PROVE  CellsOwned' /\ CellsLost' = CellsLost
<1>1. BinderReturning("right") /\ binder_stack' = BinderPop /\ scope' = scope
  BY DEF FinishBinary
<1>2. PICK right, left, pop : right = binder.node /\ left = BinderTop.held[1] /\ pop = BinderPop
  OBVIOUS
<1>3. /\ heap \in Seq(Cell) /\ freed \subseteq 1..Len(heap)
      /\ right \in 1..Len(heap) /\ right \in Live(heap, freed) /\ right \notin CellsLost
      /\ KidSlots(heap, freed, right) = {} /\ HeldSlots(binder_stack, right) = {}
      /\ NameSlots(scope, right) = {}
      /\ \A n : CallSlots(binder, n) = IF n = right THEN { binder } ELSE {}
  BY <1>1, <1>2, ReturningOwned
<1>4. /\ left \in 1..Len(heap) /\ left \in Live(heap, freed) /\ left \notin CellsLost /\ left # right
      /\ KidSlots(heap, freed, left) = {} /\ NameSlots(scope, left) = {} /\ CallSlots(binder, left) = {}
      /\ HeldSlots(pop, left) = {} /\ HeldSlots(pop, right) = {}
      /\ \A n : n # left => HeldSlots(binder_stack, n) = HeldSlots(pop, n)
  BY <1>1, <1>2, OperandsOwned
<1>5. Typed(heap)
  BY <1>1, ReturningIs
<1>6. Once(heap, freed, binder_stack, scope, binder)
  BY DEF CellsOwned
<1>7. PICK E : E = {}
  OBVIOUS
<1>8. ASSUME RejectOperands(left, right) PROVE CellsOwned' /\ CellsLost' = CellsLost
  <2>1. PICK call, gone : /\ call = binder' /\ gone = freed' /\ heap' = heap /\ call = Bound(left)
                          /\ gone = freed \cup Below[right]
    BY <1>8 DEF RejectOperands
  <2>2. \A n : CallSlots(call, n) = IF n = left THEN { call } ELSE {}
    BY <2>1 DEF CallSlots, Bound
  <2>3. /\ \A x : KidSlots(heap, gone, x) = IF x \in Below[right] THEN {} ELSE KidSlots(heap, freed, x)
        /\ \A x \in Below[right] : x # right =>
              /\ KidSlots(heap, freed, x) # {}
              /\ HeldSlots(binder_stack, x) = {} /\ NameSlots(scope, x) = {} /\ CallSlots(binder, x) = {}
    BY <1>3, <1>5, <2>1, FreedTogether
  <2>4. left \notin Below[right]
    BY <1>4, <2>3
  <2>5. Below[right] \subseteq Live(heap, freed)
    BY <1>3, <1>5, BelowIsLive
  <2>6. right \in Below[right]
    BY <1>3, <1>5, TypedIsOlder, BelowHangs DEF Hangs
  <2>7. \A n : n \in Live(heap, gone) <=> n \in Live(heap, freed) /\ n \notin Below[right]
    BY <2>1 DEF Live
  <2>8. \A n : Handed(heap, freed, binder_stack, scope, binder, heap, gone, pop, scope, call, E, n)
    <3> TAKE n
    <3>1. CASE n \in Below[right]
      <4>1. NameSlots(scope, n) = {} /\ HeldSlots(pop, n) = {}
        BY <1>3, <1>4, <2>3, <2>4, <3>1
      <4>2. CallSlots(call, n) = {} /\ KidSlots(heap, gone, n) = {}
        BY <2>2, <2>3, <2>4, <3>1
      <4>3. Owners(heap, gone, pop, scope, call, n) = {}
        BY <4>1, <4>2, OneSlot DEF Owners
      <4>4. n \notin CellsLost
        <5>1. CASE n = right
          BY <1>3, <5>1
        <5>2. CASE n # right
          <6>1. PICK at : at \in KidSlots(heap, freed, n)
            BY <2>3, <3>1, <5>2
          <6>2. << "cell", at >> \in Owners(heap, freed, binder_stack, scope, binder, n)
            BY <6>1 DEF Owners, Slots
          <6> QED
            BY <6>2 DEF CellsLost, Lost
        <5> QED
          BY <5>1, <5>2
      <4>5. n \notin Live(heap, gone)
        BY <2>7, <3>1
      <4> QED
        BY <1>7, <4>3, <4>4, <4>5 DEF Handed, CellsLost
    <3>2. CASE n = left
      <4>1. KidSlots(heap, gone, n) = {} /\ CallSlots(call, n) = { call } /\ n \in Live(heap, gone)
        BY <1>4, <2>2, <2>3, <2>4, <2>7, <3>2
      <4>2. Owners(heap, gone, pop, scope, call, n) = { << "binder", call >> }
        BY <1>4, <3>2, <4>1, OneSlot DEF Owners
      <4> QED
        BY <1>4, <1>7, <3>2, <4>1, <4>2 DEF Handed, CellsLost
    <3>3. CASE n \notin Below[right] /\ n # left
      <4>1. n # right
        BY <2>6, <3>3
      <4>2. /\ KidSlots(heap, gone, n) = KidSlots(heap, freed, n) /\ CallSlots(call, n) = {}
            /\ CallSlots(binder, n) = {} /\ HeldSlots(pop, n) = HeldSlots(binder_stack, n)
        BY <1>3, <1>4, <2>2, <2>3, <3>3, <4>1
      <4>3. Owners(heap, gone, pop, scope, call, n) = Owners(heap, freed, binder_stack, scope, binder, n)
        BY <4>2 DEF Owners
      <4> QED
        BY <1>7, <2>7, <3>3, <4>3 DEF Handed
    <3> QED
      BY <3>1, <3>2, <3>3
  <2>9. /\ Once(heap, gone, pop, scope, call)
        /\ Lost(heap, gone, pop, scope, call) = Lost(heap, freed, binder_stack, scope, binder) \cup E
    BY ONLY <1>6, <2>8, OnceNext
  <2> QED
    BY <1>1, <1>2, <1>7, <2>1, <2>9 DEF CellsOwned, CellsLost
<1>9. ASSUME NEW op \in BinaryOperators,
             heap' = Append(heap, Binary(op, left, right)), binder' = Bound(Len(heap) + 1), freed' = freed
      PROVE  CellsOwned' /\ CellsLost' = CellsLost
  <2>1. PICK size \in Nat : size = Len(heap)
    BY <1>3
  <2>2. PICK last \in Nat : last = size + 1
    OBVIOUS
  <2>3. PICK cell \in Cell : cell = Binary(op, left, right) /\ cell.kids = << left, right >>
    <3>1. left \in Pointer /\ right \in Pointer
      BY <1>3, <1>4, <2>1 DEF Pointer
    <3> QED
      BY <3>1, NewCells DEF Binary
  <2>4. PICK new \in Seq(Cell) : /\ new = heap' /\ Len(new) = last /\ new[last] = cell /\ Extends(heap, new)
    <3>1. /\ Append(heap, cell) \in Seq(Cell) /\ Len(Append(heap, cell)) = size + 1
          /\ Append(heap, cell)[size + 1] = cell /\ \A i \in 1..size : Append(heap, cell)[i] = heap[i]
      BY <1>3, <2>1, PushOne
    <3>2. Extends(heap, Append(heap, cell))
      BY <1>3, <2>1, <3>1 DEF Extends
    <3> QED
      BY <1>9, <2>2, <2>3, <3>1, <3>2
  <2>5. \A n : /\ n = left => Added(heap, new, n) = { << last, 1 >> }
               /\ n = right => Added(heap, new, n) = { << last, 2 >> }
               /\ n # left /\ n # right => Added(heap, new, n) = {}
    <3>1. size < last /\ \A m \in size + 1..last - 1 : new[m].kids = <<>>
      BY <2>2
    <3>2. Grown(heap, new, last, << left, right >>)
      BY <1>3, <2>1, <2>2, <2>3, <2>4, <3>1 DEF Grown
    <3> QED
      BY <1>4, <3>2, AddedTwo
  <2>6. PICK call : call = binder' /\ \A n : CallSlots(call, n) = IF n = last THEN { call } ELSE {}
    <3>1. \A n : CallSlots(Bound(last), n) = IF n = last THEN { Bound(last) } ELSE {}
      BY DEF CallSlots, Bound
    <3> QED
      BY <1>9, <2>1, <2>2, <3>1
  <2>7. left # last /\ right # last /\ \A n : n \in Len(heap) + 1..Len(new) <=> n = last
    <3>1. \A n : n \in size + 1..last <=> n = last
      BY <2>2
    <3>2. left # last /\ right # last
      BY <1>3, <1>4, <2>1, <2>2
    <3> QED
      BY <2>1, <2>4, <3>1, <3>2
  <2>8. \A n : Handed(heap, freed, binder_stack, scope, binder, new, freed, pop, scope, call, E, n)
    <3> TAKE n
    <3>1. KidSlots(new, freed, n) = KidSlots(heap, freed, n) \cup Added(heap, new, n)
      BY <1>3, <2>4, CellsAdded
    <3>2. CASE n # left /\ n # right /\ n # last
      <4>1. /\ Added(heap, new, n) = {} /\ CallSlots(call, n) = {} /\ CallSlots(binder, n) = {}
            /\ HeldSlots(pop, n) = HeldSlots(binder_stack, n)
        BY <1>3, <1>4, <2>5, <2>6, <3>2
      <4>2. Owners(new, freed, pop, scope, call, n) = Owners(heap, freed, binder_stack, scope, binder, n)
        BY <3>1, <4>1 DEF Owners
      <4>3. n \notin Len(heap) + 1..Len(new)
        BY <2>7, <3>2
      <4>4. /\ n \in Live(new, freed) <=> n \in Live(heap, freed)
            /\ n \in Live(heap, freed) => new[n].cell = heap[n].cell
        BY <1>3, <2>4, <4>3, CellsAdded
      <4> QED
        BY <1>7, <4>2, <4>4 DEF Handed
    <3>3. CASE n = last
      <4>1. n \in Len(heap) + 1..Len(new)
        BY <2>7, <3>3
      <4>2. /\ KidSlots(heap, freed, n) = {} /\ HeldSlots(binder_stack, n) = {}
            /\ NameSlots(scope, n) = {} /\ n \in Live(new, freed) /\ n \notin CellsLost
        BY <1>3, <2>4, <4>1, CellsAdded
      <4>3. Added(heap, new, n) = {} /\ CallSlots(call, n) = { call } /\ HeldSlots(pop, n) = {}
        BY <1>4, <2>5, <2>6, <2>7, <3>3, <4>2
      <4>4. Owners(new, freed, pop, scope, call, n) = { << "binder", call >> }
        BY <3>1, <4>2, <4>3, OneSlot DEF Owners
      <4> QED
        BY <1>7, <4>2, <4>4 DEF Handed, CellsLost
    <3>4. CASE n = left \/ n = right
      <4>1. n \in Live(new, freed)
        BY <1>3, <1>4, <2>4, <3>4, CellsAdded
      <4>2. PICK at : Added(heap, new, n) = { at }
        BY <2>5, <3>4
      <4>3. CallSlots(call, n) = {} /\ HeldSlots(pop, n) = {} /\ KidSlots(heap, freed, n) = {} /\ NameSlots(scope, n) = {}
        BY <1>3, <1>4, <2>6, <2>7, <3>4
      <4>4. Owners(new, freed, pop, scope, call, n) = { << "cell", at >> }
        BY <3>1, <4>2, <4>3, OneSlot DEF Owners
      <4> QED
        BY <1>3, <1>4, <1>7, <3>4, <4>1, <4>4 DEF Handed, CellsLost
    <3> QED
      BY <3>2, <3>3, <3>4
  <2>9. /\ Once(new, freed, pop, scope, call)
        /\ Lost(new, freed, pop, scope, call) = Lost(heap, freed, binder_stack, scope, binder) \cup E
    BY ONLY <1>6, <2>8, OnceNext
  <2> QED
    BY <1>1, <1>2, <1>7, <1>9, <2>4, <2>6, <2>9 DEF CellsOwned, CellsLost
<1>10. \/ RejectOperands(left, right)
       \/ \E op \in BinaryOperators :
             heap' = Append(heap, Binary(op, left, right)) /\ binder' = Bound(Len(heap) + 1) /\ freed' = freed
  BY <1>2 DEF FinishBinary, BinaryMatches
<1> QED
  BY <1>8, <1>9, <1>10

\* The new cell owns its symbol and its right-hand side, and the scope the copy of the
\* symbol, unless it refused it.
LEMMA AssignmentOwned ==
  ASSUME BinderInv, CellsOwned, FinishAssignment
  PROVE  /\ CellsOwned'
         /\ \/ CellsLost' = CellsLost /\ reports' = reports
            \/ /\ CellsLost' = CellsLost \cup { Len(heap) + 2 } /\ Len(heap) + 2 \notin CellsLost
               /\ reports' = Append(reports, "variable_already_declared")
<1>1. BinderReturning("assignment") /\ binder_stack' = BinderPop /\ freed' = freed
  BY DEF FinishAssignment
<1>2. PICK node, pop : node = binder.node /\ pop = BinderPop
  OBVIOUS
<1>3. /\ heap \in Seq(Cell) /\ freed \subseteq 1..Len(heap)
      /\ node \in 1..Len(heap) /\ node \in Live(heap, freed) /\ node \notin CellsLost
      /\ KidSlots(heap, freed, node) = {} /\ HeldSlots(binder_stack, node) = {} /\ NameSlots(scope, node) = {}
      /\ \A n : CallSlots(binder, n) = IF n = node THEN { binder } ELSE {}
      /\ \A n : HeldSlots(binder_stack, n) = HeldSlots(pop, n)
  BY <1>1, <1>2, ReturningOwned
<1>4. PICK size \in Nat : size = Len(heap)
  BY <1>3
<1>5. PICK one \in Nat, two \in Nat, last \in Nat :
         one = size + 1 /\ two = size + 2 /\ last = size + 3
  BY <1>4
<1>6. PICK name \in Name, type \in ObjectTypes :
         /\ name = TextOf(Kid(BinderTop.syntax, 1)) /\ type = heap[node].type
  <2>1. IsSyntaxTree(syntax) /\ Waiting(syntax, heap, BinderTop) /\ BinderTop.fn = "assignment" /\ Builds(heap, node)
    BY <1>1, <1>2, ReturningIs
  <2>2. BinderTop.syntax \in 1..Len(syntax.nodes) /\ Kind(syntax, BinderTop.syntax) = "ASSIGNMENT_EXPRESSION"
    BY <2>1 DEF Waiting, KindBoundBy
  <2>3. TextOf(Kid(BinderTop.syntax, 1)) \in Name
    BY <2>1, <2>2, ReadTree
  <2>4. heap[node].type \in ObjectTypes
    BY <1>3, <2>1, CellHasType
  <2> QED
    BY <2>3, <2>4
<1>7. PICK symbol \in Cell, assignment \in Cell :
         /\ symbol = Symbol(name, type) /\ symbol.cell = "SYMBOL" /\ symbol.kids = <<>>
         /\ assignment = Assignment(one, node, type) /\ assignment.kids = << one, node >>
  <2>1. one \in Pointer /\ node \in Pointer
    BY <1>3, <1>4, <1>5 DEF Pointer
  <2>2. /\ Symbol(name, type) \in Cell /\ Symbol(name, type).cell = "SYMBOL" /\ Symbol(name, type).kids = <<>>
        /\ Assignment(one, node, type) \in Cell /\ Assignment(one, node, type).kids = << one, node >>
    BY <2>1, NewCells DEF Symbol, Assignment
  <2> QED
    BY <2>2
<1>8. PICK new \in Seq(Cell) : /\ new = heap' /\ Len(new) = last /\ Extends(heap, new)
                               /\ new[one] = symbol /\ new[two] = symbol /\ new[last] = assignment
  <2>1. PICK a \in Seq(Cell) : /\ a = Append(heap, symbol) /\ Len(a) = one /\ a[one] = symbol
                               /\ \A i \in 1..size : a[i] = heap[i]
    <3>1. /\ Append(heap, symbol) \in Seq(Cell) /\ Len(Append(heap, symbol)) = size + 1
          /\ Append(heap, symbol)[size + 1] = symbol /\ \A i \in 1..size : Append(heap, symbol)[i] = heap[i]
      BY <1>3, <1>4, PushOne
    <3> QED
      BY <1>5, <3>1
  <2>2. PICK b \in Seq(Cell) : /\ b = Append(a, symbol) /\ Len(b) = two /\ b[two] = symbol
                               /\ \A i \in 1..one : b[i] = a[i]
    <3>1. /\ Append(a, symbol) \in Seq(Cell) /\ Len(Append(a, symbol)) = one + 1
          /\ Append(a, symbol)[one + 1] = symbol /\ \A i \in 1..one : Append(a, symbol)[i] = a[i]
      BY <2>1, PushOne
    <3>2. one + 1 = two
      BY <1>5
    <3> QED
      BY <3>1, <3>2
  <2>3. PICK c \in Seq(Cell) : /\ c = Append(b, assignment) /\ Len(c) = last /\ c[last] = assignment
                               /\ \A i \in 1..two : c[i] = b[i]
    <3>1. /\ Append(b, assignment) \in Seq(Cell) /\ Len(Append(b, assignment)) = two + 1
          /\ Append(b, assignment)[two + 1] = assignment /\ \A i \in 1..two : Append(b, assignment)[i] = b[i]
      BY <2>2, PushOne
    <3>2. two + 1 = last
      BY <1>5
    <3> QED
      BY <3>1, <3>2
  <2>4. heap' = c
    <3>1. heap \o << symbol, symbol, assignment >> = Append(Append(Append(heap, symbol), symbol), assignment)
      BY <1>3, <1>7, PushThrice
    <3>2. heap' = heap \o << symbol, symbol, assignment >>
      BY <1>2, <1>4, <1>5, <1>6, <1>7 DEF FinishAssignment
    <3> QED
      BY <2>1, <2>2, <2>3, <3>1, <3>2
  <2>5. /\ \A i \in 1..size : i \in 1..one /\ i \in 1..two
        /\ one \in 1..one /\ one \in 1..two /\ two \in 1..two /\ size <= last
    BY <1>5
  <2>6. Extends(heap, c)
    BY <1>4, <2>1, <2>2, <2>3, <2>5 DEF Extends
  <2>7. c[one] = symbol /\ c[two] = symbol
    BY <2>1, <2>2, <2>3, <2>5
  <2> QED
    BY <2>3, <2>4, <2>6, <2>7
<1>9. /\ one # node /\ two # node /\ last # node /\ one # two /\ one # last /\ two # last
      /\ \A n : n \in Len(heap) + 1..Len(new) <=> n = one \/ n = two \/ n = last
  <2>1. \A n : n \in size + 1..last <=> n = one \/ n = two \/ n = last
    BY <1>5
  <2>2. one # node /\ two # node /\ last # node /\ one # two /\ one # last /\ two # last
    BY <1>3, <1>4, <1>5
  <2> QED
    BY <1>4, <1>8, <2>1, <2>2
<1>10. \A n : /\ n = one => Added(heap, new, n) = { << last, 1 >> }
              /\ n = node => Added(heap, new, n) = { << last, 2 >> }
              /\ n # one /\ n # node => Added(heap, new, n) = {}
  <2>1. \A m \in size + 1..last - 1 : m = one \/ m = two
    BY <1>5
  <2>2. size < last /\ \A m \in size + 1..last - 1 : new[m].kids = <<>>
    BY <1>5, <1>7, <1>8, <2>1
  <2>3. Grown(heap, new, last, << one, node >>)
    BY <1>3, <1>4, <1>7, <1>8, <2>2 DEF Grown
  <2> QED
    BY <1>9, <2>3, AddedTwo
<1>11. PICK call : call = binder' /\ \A n : CallSlots(call, n) = IF n = last THEN { call } ELSE {}
  <2>1. \A n : CallSlots(Bound(last), n) = IF n = last THEN { Bound(last) } ELSE {}
    BY DEF CallSlots, Bound
  <2>2. binder' = Bound(last)
    BY <1>4, <1>5 DEF FinishAssignment
  <2> QED
    BY <2>1, <2>2
<1>12. PICK names, E :
          /\ names = scope' /\ \A n : n # two => NameSlots(names, n) = NameSlots(scope, n)
          /\ \/ E = {} /\ reports' = reports /\ NameSlots(names, two) = NameSlots(scope, two) \cup { name }
             \/ /\ E = { two } /\ reports' = Append(reports, "variable_already_declared")
                /\ NameSlots(names, two) = NameSlots(scope, two)
  <2>1. TryDeclare(name, two)
    <3>1. TryDeclare(name, Len(heap) + 1 + 1) /\ Len(heap) + 1 + 1 = two
      BY <1>4, <1>5, <1>6 DEF FinishAssignment
    <3> QED
      BY <3>1
  <2>2. CASE name \in DOMAIN scope
    <3>1. scope' = scope /\ reports' = Append(reports, "variable_already_declared")
      BY <2>1, <2>2 DEF TryDeclare
    <3> QED
      BY <3>1
  <2>3. CASE name \notin DOMAIN scope
    <3>1. /\ reports' = reports /\ DOMAIN scope' = DOMAIN scope \cup { name } /\ scope'[name] = two
          /\ \A other \in DOMAIN scope : scope'[other] = scope[other]
      BY <2>1, <2>3 DEF TryDeclare
    <3>2. \A n : n # two => NameSlots(scope', n) = NameSlots(scope, n)
      BY <2>3, <3>1 DEF NameSlots
    <3>3. NameSlots(scope', two) = NameSlots(scope, two) \cup { name }
      BY <2>3, <3>1 DEF NameSlots
    <3> QED
      BY <3>1, <3>2, <3>3
  <2> QED
    BY <2>2, <2>3
<1>13. ASSUME NEW n, n = one \/ n = two \/ n = last
       PROVE  /\ KidSlots(heap, freed, n) = {} /\ HeldSlots(binder_stack, n) = {}
              /\ NameSlots(scope, n) = {} /\ n \in Live(new, freed) /\ n \notin CellsLost
  <2>1. n \in Len(heap) + 1..Len(new)
    BY <1>9, <1>13
  <2> QED
    BY <1>3, <1>8, <2>1, CellsAdded
<1>14. \A n : Handed(heap, freed, binder_stack, scope, binder, new, freed, pop, names, call, E, n)
  <2> TAKE n
  <2>1. KidSlots(new, freed, n) = KidSlots(heap, freed, n) \cup Added(heap, new, n)
    BY <1>3, <1>8, CellsAdded
  <2>2. CASE n # node /\ n # one /\ n # two /\ n # last
    <3>1. /\ Added(heap, new, n) = {} /\ CallSlots(call, n) = {} /\ CallSlots(binder, n) = {}
          /\ HeldSlots(pop, n) = HeldSlots(binder_stack, n) /\ NameSlots(names, n) = NameSlots(scope, n)
      BY <1>3, <1>10, <1>11, <1>12, <2>2
    <3>2. Owners(new, freed, pop, names, call, n) = Owners(heap, freed, binder_stack, scope, binder, n)
      BY <2>1, <3>1 DEF Owners
    <3>3. n \notin Len(heap) + 1..Len(new) /\ n \notin E
      BY <1>9, <1>12, <2>2
    <3>4. /\ n \in Live(new, freed) <=> n \in Live(heap, freed)
          /\ n \in Live(heap, freed) => new[n].cell = heap[n].cell
      BY <1>3, <1>8, <3>3, CellsAdded
    <3> QED
      BY <3>2, <3>3, <3>4 DEF Handed
  <2>3. CASE n = last
    <3>1. /\ Added(heap, new, n) = {} /\ CallSlots(call, n) = { call } /\ HeldSlots(pop, n) = {}
          /\ NameSlots(names, n) = {} /\ KidSlots(heap, freed, n) = {} /\ n \notin E
      BY <1>3, <1>9, <1>10, <1>11, <1>12, <1>13, <2>3
    <3>2. Owners(new, freed, pop, names, call, n) = { << "binder", call >> }
      BY <2>1, <3>1, OneSlot DEF Owners
    <3> QED
      BY <1>13, <2>3, <3>1, <3>2 DEF Handed, CellsLost
  <2>4. CASE n = one
    <3>1. /\ Added(heap, new, n) = { << last, 1 >> } /\ CallSlots(call, n) = {} /\ HeldSlots(pop, n) = {}
          /\ NameSlots(names, n) = {} /\ KidSlots(heap, freed, n) = {} /\ n \notin E
      BY <1>3, <1>9, <1>10, <1>11, <1>12, <1>13, <2>4
    <3>2. Owners(new, freed, pop, names, call, n) = { << "cell", << last, 1 >> >> }
      BY <2>1, <3>1, OneSlot DEF Owners
    <3> QED
      BY <1>13, <2>4, <3>1, <3>2 DEF Handed, CellsLost
  <2>5. CASE n = node
    <3>1. /\ Added(heap, new, n) = { << last, 2 >> } /\ CallSlots(call, n) = {} /\ HeldSlots(pop, n) = {}
          /\ NameSlots(names, n) = {} /\ KidSlots(heap, freed, n) = {} /\ n \notin E
      BY <1>3, <1>9, <1>10, <1>11, <1>12, <2>5
    <3>2. Owners(new, freed, pop, names, call, n) = { << "cell", << last, 2 >> >> }
      BY <2>1, <3>1, OneSlot DEF Owners
    <3>3. n \in Live(new, freed)
      BY <1>3, <1>8, <2>5, CellsAdded
    <3> QED
      BY <1>3, <2>5, <3>1, <3>2, <3>3 DEF Handed, CellsLost
  <2>6. CASE n = two
    <3>1. /\ Added(heap, new, n) = {} /\ CallSlots(call, n) = {} /\ HeldSlots(pop, n) = {}
          /\ KidSlots(heap, freed, n) = {} /\ NameSlots(scope, n) = {} /\ new[n].cell = "SYMBOL"
      BY <1>3, <1>7, <1>8, <1>9, <1>10, <1>11, <1>13, <2>6
    <3>2. CASE E = {} /\ NameSlots(names, n) = { name }
      <4>1. Owners(new, freed, pop, names, call, n) = { << "scope", name >> }
        BY <2>1, <3>1, <3>2, OneSlot DEF Owners
      <4> QED
        BY <1>13, <2>6, <3>2, <4>1 DEF Handed, CellsLost
    <3>3. CASE E = { two } /\ NameSlots(names, n) = {}
      <4>1. Owners(new, freed, pop, names, call, n) = {}
        BY <2>1, <3>1, <3>3, OneSlot DEF Owners
      <4> QED
        BY <1>13, <2>6, <3>1, <3>3, <4>1 DEF Handed
    <3> QED
      BY <1>12, <2>6, <3>1, <3>2, <3>3
  <2> QED
    BY <2>2, <2>3, <2>4, <2>5, <2>6
<1>15. Once(heap, freed, binder_stack, scope, binder)
  BY DEF CellsOwned
<1>16. /\ Once(new, freed, pop, names, call)
       /\ Lost(new, freed, pop, names, call) = Lost(heap, freed, binder_stack, scope, binder) \cup E
  BY ONLY <1>14, <1>15, OnceNext
<1>17. two \notin CellsLost /\ two = Len(heap) + 2
  BY <1>4, <1>5, <1>13
<1> QED
  BY <1>1, <1>2, <1>8, <1>11, <1>12, <1>16, <1>17 DEF CellsOwned, CellsLost

\* The scope frees what it owns.
LEMMA GlobalScopeOwned ==
  ASSUME BinderInv, CellsOwned, FinishGlobalScope
  PROVE  CellsOwned' /\ CellsLost' = CellsLost
<1>1. /\ binder.fn = "return" /\ heap \in Seq(Cell) /\ Typed(heap)
      /\ \A name \in DOMAIN scope : IsSymbol(heap, scope[name])
  BY DEF BinderInv, BoundBy, FinishGlobalScope
<1>2. PICK node, symbols : node = binder.node /\ symbols = { scope[name] : name \in DOMAIN scope }
  OBVIOUS
<1>3. PICK call, gone, names :
         /\ call = binder' /\ gone = freed' /\ names = scope' /\ UNCHANGED << heap, binder_stack >>
         /\ call = [ fn |-> "done", node |-> node ] /\ gone = freed \cup symbols /\ names = [ name \in {} |-> 0 ]
  BY <1>2 DEF FinishGlobalScope
<1>4. \A n : CallSlots(call, n) = IF n = node THEN { call } ELSE {}
  BY <1>3 DEF CallSlots
<1>5. \A n : CallSlots(binder, n) = IF n = node THEN { binder } ELSE {}
  BY <1>1, <1>2, CallSlotsIs
<1>6. \A n : NameSlots(names, n) = {}
  BY <1>3 DEF NameSlots
<1>7. \A n : n \in symbols <=> NameSlots(scope, n) # {}
  BY <1>2 DEF NameSlots
<1>8. /\ KidSlots(heap, freed, node) = {} /\ HeldSlots(binder_stack, node) = {}
      /\ NameSlots(scope, node) = {} /\ node \in Live(heap, freed) /\ node \notin CellsLost
  BY <1>1, <1>2, ReturnedIsOwned
<1>9. \A n : n \in Live(heap, gone) <=> n \in Live(heap, freed) /\ n \notin symbols
  BY <1>3 DEF Live
<1>10. \A n : KidSlots(heap, gone, n) = KidSlots(heap, freed, n)
  <2>1. ASSUME NEW m \in symbols PROVE heap[m].kids = <<>>
    <3>1. IsSymbol(heap, m)
      BY <1>1, <1>2
    <3> QED
      BY <1>1, <3>1, KidsAreCells DEF IsSymbol
  <2>2. \A m \in symbols : \A k \in 1..2 : ~(k <= Len(heap[m].kids))
    BY <2>1
  <2> QED
    BY <1>9, <2>2 DEF KidSlots
<1>11. PICK E : E = {}
  OBVIOUS
<1>12. \A n : Handed(heap, freed, binder_stack, scope, binder, heap, gone, binder_stack, names, call, E, n)
  <2> TAKE n
  <2>1. CASE n = node
    <3>1. KidSlots(heap, gone, n) = {} /\ HeldSlots(binder_stack, n) = {} /\ CallSlots(call, n) = { call }
      BY <1>4, <1>8, <1>10, <2>1
    <3>2. Owners(heap, gone, binder_stack, names, call, n) = { << "binder", call >> }
      BY <1>6, <3>1, OneSlot DEF Owners
    <3>3. n \in Live(heap, gone)
      BY <1>7, <1>8, <1>9, <2>1
    <3> QED
      BY <1>8, <1>11, <2>1, <3>2, <3>3 DEF Handed, CellsLost
  <2>2. CASE n \in symbols
    <3>1. /\ KidSlots(heap, freed, n) = {} /\ HeldSlots(binder_stack, n) = {} /\ CallSlots(binder, n) = {}
      BY <1>7, <2>2, OwnersOfCell DEF CellsOwned
    <3>2. n # node
      BY <1>7, <1>8, <2>2
    <3>3. Owners(heap, gone, binder_stack, names, call, n) = {}
      BY <1>4, <1>6, <1>10, <3>1, <3>2, OneSlot DEF Owners
    <3>4. n \notin CellsLost
      <4>1. PICK name : name \in NameSlots(scope, n)
        BY <1>7, <2>2
      <4>2. << "scope", name >> \in Owners(heap, freed, binder_stack, scope, binder, n)
        BY <4>1 DEF Owners, Slots
      <4> QED
        BY <4>2 DEF CellsLost, Lost
    <3> QED
      BY <1>9, <1>11, <2>2, <3>3, <3>4 DEF Handed, CellsLost
  <2>3. CASE n # node /\ n \notin symbols
    <3>1. NameSlots(scope, n) = {} /\ CallSlots(call, n) = {} /\ CallSlots(binder, n) = {}
      BY <1>4, <1>5, <1>7, <2>3
    <3>2. Owners(heap, gone, binder_stack, names, call, n) = Owners(heap, freed, binder_stack, scope, binder, n)
      BY <1>6, <1>10, <3>1 DEF Owners
    <3> QED
      BY <1>9, <1>11, <2>3, <3>2 DEF Handed
  <2> QED
    BY <2>1, <2>2, <2>3
<1>13. Once(heap, freed, binder_stack, scope, binder)
  BY DEF CellsOwned
<1>14. /\ Once(heap, gone, binder_stack, names, call)
       /\ Lost(heap, gone, binder_stack, names, call) = Lost(heap, freed, binder_stack, scope, binder) \cup E
  BY ONLY <1>12, <1>13, OnceNext
<1> QED
  BY <1>3, <1>11, <1>14 DEF CellsOwned, CellsLost

--------------------------------------------------------------------------------
(* And over the steps of the binder and of a session.                           *)

CellsCounted == CellsOwned /\ Cardinality(CellsLost) = Refusals

\* A report counts when it is a refusal.
Refused(some) == { i \in 1..Len(some) : some[i] = "variable_already_declared" }

LEMMA RefusedMore ==
  ASSUME NEW some \in Seq(BinderReports), NEW report \in BinderReports
  PROVE  /\ report # "variable_already_declared" => Refused(Append(some, report)) = Refused(some)
         /\ report = "variable_already_declared" =>
               Cardinality(Refused(Append(some, report))) = Cardinality(Refused(some)) + 1
<1>1. PICK size \in Nat : size = Len(some)
  OBVIOUS
<1>2. PICK more : /\ more = Append(some, report) /\ Len(more) = size + 1 /\ more[size + 1] = report
                  /\ \A i \in 1..size : more[i] = some[i]
  <2>1. /\ Len(Append(some, report)) = size + 1 /\ Append(some, report)[size + 1] = report
        /\ \A i \in 1..size : Append(some, report)[i] = some[i]
    BY <1>1, PushOne
  <2> QED
    BY <2>1
<1>3. /\ \A i : i \in Refused(more) <=> i \in 1..size + 1 /\ more[i] = "variable_already_declared"
      /\ \A i : i \in Refused(some) <=> i \in 1..size /\ some[i] = "variable_already_declared"
  BY <1>1, <1>2 DEF Refused
<1>4. /\ \A i : i \in 1..size + 1 <=> i = size + 1 \/ i \in 1..size
      /\ size + 1 \notin 1..size
  OBVIOUS
<1>5. ASSUME report # "variable_already_declared" PROVE Refused(more) = Refused(some)
  <2>1. \A i : i \in Refused(more) <=> i \in Refused(some)
    BY <1>2, <1>3, <1>4, <1>5
  <2> QED
    BY <2>1
<1>6. ASSUME report = "variable_already_declared" PROVE Cardinality(Refused(more)) = Cardinality(Refused(some)) + 1
  <2>1. \A i : i \in Refused(more) <=> i \in Refused(some) \cup { size + 1 }
    BY <1>2, <1>3, <1>4, <1>6
  <2>2. Refused(more) = Refused(some) \cup { size + 1 }
    BY <2>1
  <2>3. size + 1 \notin Refused(some)
    BY <1>3, <1>4
  <2>4. IsFiniteSet(Refused(some))
    <3>1. IsFiniteSet(1..size)
      BY FS_Interval
    <3>2. Refused(some) \in SUBSET (1..size)
      BY <1>3
    <3> QED
      BY <3>1, <3>2, FS_Subset
  <2> QED
    BY <2>2, <2>3, <2>4, FS_AddElement
<1> QED
  BY <1>2, <1>5, <1>6

\* The lost cells are as many as the refusals.
LEMMA CountedBinderStep ==
  ASSUME BinderInv, CellsCounted, BinderNext
  PROVE  CellsCounted'
<1>1. CellsOwned /\ Cardinality(CellsLost) = Cardinality(Refused(reports)) /\ Refusals' = Cardinality(Refused(reports'))
  BY DEF CellsCounted, Refusals, Refused
<1>2. /\ heap \in Seq(Cell) /\ binder_stack \in Seq(BinderFrame) /\ reports \in Seq(BinderReports)
      /\ IsSyntaxTree(syntax)
  BY DEF BinderInv, BoundBy
<1>3. ASSUME CellsOwned', CellsLost' = CellsLost,
             \/ reports' = reports
             \/ \E report \in BinderReports \ { "variable_already_declared" } : reports' = Append(reports, report)
      PROVE  CellsCounted'
  <2>1. Refused(reports') = Refused(reports)
    BY <1>2, <1>3, RefusedMore
  <2> QED
    BY <1>1, <1>3, <2>1 DEF CellsCounted
<1>4. CASE BindLiteral
  <2>1. /\ Binding("LITERAL_EXPRESSION") /\ reports' = reports /\ UNCHANGED << freed, scope, binder_stack >>
        /\ heap' = Append(heap, Literal(LiteralValue(binder.node))) /\ binder' = Bound(Len(heap) + 1)
    BY <1>4 DEF BindLiteral
  <2>2. binder.node \in 1..Len(syntax.nodes) /\ KindOf(binder.node) = "LITERAL_EXPRESSION"
    BY <2>1, BindingIs
  <2>3. PICK value \in Objects \cup { NullObject } : value = LiteralValue(binder.node)
    BY <1>2, <2>2, ReadTree
  <2>4. CellsOwned' /\ CellsLost' = CellsLost /\ reports' = reports
    BY <1>1, <2>1, <2>3, LeafOwned
  <2> QED
    BY <1>3, <2>4
<1>5. CASE BindUnary \/ BindBinary \/ BindAssignment
  <2>1. PICK fn, n, kind :
           /\ fn \in { "unary", "left", "assignment" } /\ Binding(kind) /\ n = binder.node /\ binder_stack' = Append(binder_stack, Await(fn, n, <<>>))
           /\ binder'.fn = "bind" /\ UNCHANGED << heap, freed, scope, reports >>
    BY <1>5 DEF BindUnary, BindBinary, BindAssignment, Bind
  <2>2. n \in Nat
    BY <2>1, BindingIs DEF Binding, Bindable
  <2>3. CellsOwned' /\ CellsLost' = CellsLost
    BY <1>1, <2>1, <2>2, SuspendOwned
  <2> QED
    BY <1>3, <2>1, <2>3
<1>6. CASE BindParenthesized
  <2>1. \A n : CallSlots(binder', n) = CallSlots(binder, n)
    BY <1>6, CallSlotsIs DEF BindParenthesized, Binding, Bind
  <2>2. CellsOwned' /\ CellsLost' = CellsLost
    BY <1>1, <1>6, <2>1, OwnedByTheSame DEF BindParenthesized
  <2> QED
    BY <1>3, <1>6, <2>2 DEF BindParenthesized
<1>7. CASE BindDeclaredName
  BY <1>1, <1>3, <1>7, VariableOwned DEF BindDeclaredName
<1>8. CASE BindUndefinedName
  <2>1. PICK value \in Objects \cup { NullObject } : value = Int64(0)
    <3>1. 0 \in Ints
      BY RangeOfIntegers DEF Ints
    <3> QED
      BY <3>1 DEF Objects, Int64s
  <2>2. /\ Binding("NAME_EXPRESSION") /\ UNCHANGED << freed, scope, binder_stack >>
        /\ heap' = Append(heap, Literal(value)) /\ binder' = Bound(Len(heap) + 1)
    BY <1>8, <2>1 DEF BindUndefinedName
  <2>3. CellsOwned' /\ CellsLost' = CellsLost
    BY <1>1, <2>2, LeafOwned
  <2>4. "undefined_name" \in BinderReports \ { "variable_already_declared" }
    BY DEF BinderReports
  <2> QED
    BY <1>3, <1>8, <2>3, <2>4 DEF BindUndefinedName
<1>9. CASE FinishUnary
  <2>1. "undefined_unary_operator" \in BinderReports \ { "variable_already_declared" }
    BY DEF BinderReports
  <2>2. reports' = reports \/ reports' = Append(reports, "undefined_unary_operator")
    BY <1>9 DEF FinishUnary
  <2> QED
    BY <1>1, <1>3, <1>9, <2>1, <2>2, UnaryOwned
<1>10. CASE FinishLeft
  BY <1>1, <1>3, <1>10, LeftOwned DEF FinishLeft
<1>11. CASE FinishBinary
  <2>1. "undefined_binary_operator" \in BinderReports \ { "variable_already_declared" }
    BY DEF BinderReports
  <2>2. reports' = reports \/ reports' = Append(reports, "undefined_binary_operator")
    BY <1>11 DEF FinishBinary, RejectOperands
  <2> QED
    BY <1>1, <1>3, <1>11, <2>1, <2>2, BinaryOwned
<1>12. CASE FinishAssignment
  <2>1. /\ CellsOwned'
        /\ \/ CellsLost' = CellsLost /\ reports' = reports
           \/ /\ CellsLost' = CellsLost \cup { Len(heap) + 2 } /\ Len(heap) + 2 \notin CellsLost
              /\ reports' = Append(reports, "variable_already_declared")
    BY <1>1, <1>12, AssignmentOwned
  <2>2. CASE /\ CellsLost' = CellsLost \cup { Len(heap) + 2 } /\ Len(heap) + 2 \notin CellsLost
             /\ reports' = Append(reports, "variable_already_declared")
    <3>1. Cardinality(Refused(reports')) = Cardinality(Refused(reports)) + 1
      BY <1>2, <2>2, RefusedMore DEF BinderReports
    <3>2. IsFiniteSet(CellsLost)
      <4>1. PICK size \in Nat : size = Len(heap)
        BY <1>2
      <4>2. IsFiniteSet(1..size) /\ CellsLost \in SUBSET (1..size)
        BY <4>1, FS_Interval DEF CellsLost, Lost, Live
      <4> QED
        BY <4>2, FS_Subset
    <3>3. Cardinality(CellsLost') = Cardinality(CellsLost) + 1
      BY <2>2, <3>2, FS_AddElement
    <3> QED
      BY <1>1, <2>1, <3>1, <3>3 DEF CellsCounted
  <2> QED
    BY <1>3, <2>1, <2>2
<1>13. CASE FinishGlobalScope
  BY <1>1, <1>3, <1>13, GlobalScopeOwned DEF FinishGlobalScope
<1> QED
  BY <1>4, <1>5, <1>6, <1>7, <1>8, <1>9, <1>10, <1>11, <1>12, <1>13 DEF BinderNext

\* A submission starts without a cell.
LEMMA CountedSubmission ==
  ASSUME NEW tree, BindGlobalScope(tree)
  PROVE  CellsCounted'
<1>1. /\ heap' = <<>> /\ freed' = {} /\ scope' = [ name \in {} |-> 0 ] /\ reports' = <<>>
      /\ binder'.fn = "bind" /\ binder_stack' = <<>> /\ Len(<<>>) = 0 /\ 1..0 = {}
  BY DEF BindGlobalScope, Bind
<1>2. Live(heap', freed') = {}
  BY <1>1 DEF Live
<1>3. ASSUME NEW n PROVE Owners(heap', freed', binder_stack', scope', binder', n) = {}
  <2>1. /\ KidSlots(heap', freed', n) = {} /\ HeldSlots(binder_stack', n) = {}
        /\ NameSlots(scope', n) = {} /\ CallSlots(binder', n) = {}
    BY <1>1, <1>2, CallSlotsIs DEF KidSlots, HeldSlots, Operands, NameSlots
  <2> QED
    BY <2>1, OneSlot DEF Owners
<1>4. Once(heap', freed', binder_stack', scope', binder')
  BY <1>2, <1>3 DEF Once
<1>5. Lost(heap', freed', binder_stack', scope', binder') = {}
  BY <1>2 DEF Lost
<1>6. Refused(reports') = {}
  BY <1>1 DEF Refused
<1>7. Refusals' = Cardinality(Refused(reports'))
  BY DEF Refusals, Refused
<1> QED
  BY <1>4, <1>5, <1>6, <1>7 DEF CellsCounted, CellsOwned, CellsLost

\* Whatever is not lost hangs below the root of the bound tree.
LEMMA TreeGivenBack ==
  ASSUME BinderInv, CellsOwned, binder.fn = "done"
  PROVE  Live(heap, freed \cup Below[binder.node]) = CellsLost
<1>1. heap \in Seq(Cell) /\ Typed(heap) /\ binder_stack = <<>> /\ DOMAIN scope = {}
  BY FinishedBinder
<1>2. PICK size, root : size \in Nat /\ size = Len(heap) /\ root = binder.node
  BY <1>1
<1>3. root \in Live(heap, freed) /\ root \notin CellsLost
  BY <1>2, ReturnedIsOwned
<1>4. Below[root] \subseteq Live(heap, freed)
  BY <1>1, <1>3, BelowIsLive
<1>5. Hangs(root)
  BY <1>1, <1>2, <1>3, TypedIsOlder, BelowHangs DEF Live
<1>6. \A n : HeldSlots(binder_stack, n) = {} /\ NameSlots(scope, n) = {}
  <2>1. Len(<<>>) = 0 /\ 1..0 = {}
    OBVIOUS
  <2> QED
    BY <1>1, <2>1 DEF HeldSlots, Operands, NameSlots
<1>7. \A n : n # root => CallSlots(binder, n) = {}
  BY <1>2, CallSlotsIs
<1>8. \A n : n # root /\ KidSlots(heap, freed, n) = {} => Owners(heap, freed, binder_stack, scope, binder, n) = {}
  BY <1>6, <1>7, OneSlot DEF Owners
<1>9. \A n : KidSlots(heap, freed, n) # {} => n \notin CellsLost
  <2> SUFFICES ASSUME NEW n, NEW at \in KidSlots(heap, freed, n) PROVE n \notin CellsLost
    OBVIOUS
  <2>1. << "cell", at >> \in Owners(heap, freed, binder_stack, scope, binder, n)
    BY DEF Owners, Slots
  <2> QED
    BY <2>1 DEF CellsLost, Lost
<1>10. \A x \in Below[root] : x \notin CellsLost
  <2> SUFFICES ASSUME NEW x \in Below[root], x # root PROVE x \notin CellsLost
    BY <1>3
  <2>1. PICK m \in Below[root] : \E k \in 1..Len(heap[m].kids) : heap[m].kids[k] = x
    BY <1>5 DEF Hangs
  <2>2. PICK k \in 1..Len(heap[m].kids) : heap[m].kids[k] = x
    BY <2>1
  <2>3. << m, k >> \in KidSlots(heap, freed, x)
    BY <1>1, <1>4, <2>2, KidOwned
  <2> QED
    BY <1>9, <2>3
<1> DEFINE U == { n \in Live(heap, freed) : n \notin Below[root] /\ n \notin CellsLost }
<1>11. U = {}
  <2> SUFFICES ASSUME U # {} PROVE FALSE
    OBVIOUS
  <2>1. \A n \in U : n \in 1..size
    BY <1>2 DEF Live
  <2>2. PICK n \in U : \A other \in U : other <= n
    <3>1. PICK T : T = { size - u : u \in U }
      OBVIOUS
    <3>2. T \subseteq Nat /\ T # {}
      BY <1>2, <2>1, <3>1
    <3>3. PICK least \in T : \A other \in T : least <= other
      BY <3>2, LeastElement
    <3>4. PICK n \in U : least = size - n
      BY <3>1, <3>3
    <3>5. \A other \in U : size - n <= size - other
      BY <3>1, <3>3, <3>4
    <3>6. \A other \in U : other <= n
      <4> SUFFICES ASSUME NEW other \in U PROVE other <= n
        OBVIOUS
      <4>1. size - n <= size - other /\ other \in 1..size /\ n \in 1..size
        BY <2>1, <3>5
      <4> QED
        BY ONLY <1>2, <4>1
    <3> QED
      BY <3>6
  <2>3. n \in Live(heap, freed) /\ n \notin Below[root] /\ n \notin CellsLost
    OBVIOUS
  <2>4. n # root
    BY <1>5, <2>3 DEF Hangs
  <2>5. KidSlots(heap, freed, n) # {}
    BY <1>8, <2>3, <2>4 DEF CellsLost, Lost
  <2>6. PICK m \in Live(heap, freed), k \in 1..2 : k <= Len(heap[m].kids) /\ heap[m].kids[k] = n
    BY <2>5 DEF KidSlots
  <2>7. m \in 1..Len(heap) /\ heap[m] \in Cell
    BY <1>1 DEF Live
  <2>8. k \in 1..Len(heap[m].kids)
    <3>1. PICK kids : kids = heap[m].kids /\ kids \in Seq(Pointer)
      BY <2>7, KidsAreCells
    <3> QED
      BY <2>6, <3>1
  <2>9. n \in 1..m - 1
    BY <1>1, <2>6, <2>7, <2>8, TypedIsOlder DEF Older
  <2>10. m \notin Below[root]
    BY <1>5, <2>3, <2>6, <2>8 DEF Hangs
  <2>11. m \notin CellsLost
    <3>1. m \in CellsLost => heap[m].cell = "SYMBOL"
      BY DEF CellsLost, Lost, CellsOwned, Once
    <3>2. heap[m].cell = "SYMBOL" => heap[m].kids = <<>>
      BY <2>7, KidsAreCells
    <3>3. Len(<<>>) = 0 /\ 1..0 = {}
      OBVIOUS
    <3> QED
      BY <2>8, <3>1, <3>2, <3>3
  <2>12. m \in U
    BY <2>10, <2>11
  <2>13. m <= n /\ m \in Nat /\ n \in Nat /\ n <= m - 1
    BY <2>2, <2>7, <2>9, <2>12
  <2> QED
    BY <2>13
<1>12. \A n : n \in Live(heap, freed \cup Below[root]) <=> n \in Live(heap, freed) /\ n \notin Below[root]
  BY DEF Live
<1>13. \A n \in CellsLost : n \in Live(heap, freed)
  BY DEF CellsLost, Lost
<1>14. \A n : n \in Live(heap, freed \cup Below[root]) <=> n \in CellsLost
  BY <1>10, <1>11, <1>12, <1>13
<1> QED
  BY <1>2, <1>14

\* The owners of the property are those of the proof.
LEMMA OwnersAgree ==
  /\ LiveCells = Live(heap, freed)
  /\ \A n : CellOwners(n) = Owners(heap, freed, binder_stack, scope, binder, n)
  /\ LostCells = CellsLost
<1>1. LiveCells = Live(heap, freed)
  BY DEF LiveCells, Live
<1>2. ASSUME NEW n PROVE CellOwners(n) = Owners(heap, freed, binder_stack, scope, binder, n)
  BY <1>1 DEF CellOwners, Owners, Slots, KidSlots, HeldSlots, NameSlots, CallSlots
<1> QED
  BY <1>1, <1>2 DEF LostCells, CellsLost, Lost

\* Who owns the cells of a submission, until it is answered and only the lost ones are left.
CellsInv ==
    /\ phase \in { "binding", "evaluating" } => CellsCounted
    /\ phase = "answered" => Cardinality(Live(heap, freed)) = Refusals

LEMMA CellsNext ==
  ASSUME CompilationInv, CellsInv, [Next]_vars
  PROVE  CellsInv'
<1>1. ASSUME CellsCounted, UNCHANGED << heap, freed, scope, reports, binder, binder_stack >> PROVE CellsCounted'
  BY <1>1 DEF CellsCounted, CellsOwned, CellsLost, Refusals
<1>2. ASSUME CellsCounted, BinderInv, binder.fn = "done", reports' = reports, heap' = heap,
             freed' = freed \cup Below[binder.node]
      PROVE  Cardinality(Live(heap', freed')) = Refusals'
  <2>1. Live(heap', freed') = CellsLost
    BY <1>2, TreeGivenBack DEF CellsCounted
  <2>2. Refusals' = Refusals
    BY <1>2 DEF Refusals
  <2> QED
    BY <1>2, <2>1, <2>2 DEF CellsCounted
<1>3. CASE \E tree \in Trees : Submit(tree)
  BY <1>3, CountedSubmission DEF Submit, CellsInv
<1>4. CASE BindStep
  BY <1>4, CountedBinderStep DEF BindStep, CellsInv, CompilationInv
<1>5. CASE StartEvaluator
  <2>1. phase = "binding" /\ phase' = "evaluating" /\ UNCHANGED << heap, freed, scope, reports, binder, binder_stack >>
    BY <1>5 DEF StartEvaluator, binder_vars
  <2> QED
    BY <1>1, <2>1 DEF CellsInv
<1>6. CASE EvaluateStep
  <2>1. /\ phase = "evaluating" /\ phase' \in { "evaluating", "dead" }
        /\ UNCHANGED << heap, freed, scope, reports, binder, binder_stack >>
    BY <1>6, EvaluatorKeepsTree DEF EvaluateStep
  <2> QED
    BY <1>1, <2>1 DEF CellsInv
<1>7. CASE AnswerWithReports \/ AnswerWithValue
  <2>1. /\ phase \in { "binding", "evaluating" } /\ phase' = "answered" /\ UNCHANGED << heap, reports >>
        /\ freed' = freed \cup Below[binder.node]
    BY <1>7 DEF AnswerWithReports, AnswerWithValue
  <2>2. BinderInv /\ binder.fn = "done"
    BY <1>7, <2>1 DEF CompilationInv, AnswerWithReports, AnswerWithValue
  <2>3. Cardinality(Live(heap', freed')) = Refusals'
    BY <1>2, <2>1, <2>2 DEF CellsInv
  <2> QED
    BY <2>1, <2>3 DEF CellsInv
<1>8. CASE PrintResult
  BY <1>8 DEF PrintResult, CellsInv
<1>9. CASE UNCHANGED vars
  <2>1. UNCHANGED << heap, freed, scope, reports, binder, binder_stack >> /\ phase' = phase
    BY <1>9 DEF vars, binder_vars
  <2> QED
    BY <1>1, <2>1 DEF CellsInv, Refusals
<1> QED
  BY <1>3, <1>4, <1>5, <1>6, <1>7, <1>8, <1>9 DEF Next, CompilationStep

LEMMA CellsFollow == CompilationInv /\ CellsInv => CellsOwnedOnce
<1> SUFFICES ASSUME CompilationInv, CellsInv PROVE CellsOwnedOnce
  OBVIOUS
<1>1. /\ LiveCells = Live(heap, freed) /\ LostCells = CellsLost
      /\ \A n : CellOwners(n) = Owners(heap, freed, binder_stack, scope, binder, n)
  BY OwnersAgree
<1>2. ASSUME phase \in { "binding", "evaluating" }
      PROVE  /\ \A n \in LiveCells \ LostCells : \E owner \in CellOwners(n) : CellOwners(n) = { owner }
             /\ \A n \in LostCells : heap[n].cell = "SYMBOL"
             /\ Cardinality(LostCells) = Refusals
             /\ \A n \in freed : CellOwners(n) = {}
  <2>1. CellsOwned /\ Cardinality(CellsLost) = Refusals
    BY <1>2 DEF CellsInv, CellsCounted
  <2>2. \A n : /\ CellOwners(n) # {} => n \in LiveCells
               /\ \A one, other \in CellOwners(n) : one = other
               /\ n \in LiveCells /\ CellOwners(n) = {} => heap[n].cell = "SYMBOL"
    BY <1>1, <2>1 DEF CellsOwned, Once
  <2>3. \A n : n \in LostCells <=> n \in LiveCells /\ CellOwners(n) = {}
    BY <1>1 DEF CellsLost, Lost
  <2>4. ASSUME NEW n \in LiveCells \ LostCells PROVE \E owner \in CellOwners(n) : CellOwners(n) = { owner }
    <3>1. PICK owner : owner \in CellOwners(n)
      BY <2>3, <2>4
    <3>2. CellOwners(n) = { owner }
      BY <2>2, <3>1
    <3> QED
      BY <3>1, <3>2
  <2>5. \A n \in freed : n \notin LiveCells
    BY DEF LiveCells
  <2> QED
    BY <1>1, <2>1, <2>2, <2>3, <2>4, <2>5
<1>3. phase = "answered" => Cardinality(LiveCells) = Refusals
  BY <1>1 DEF CellsInv
<1> QED
  BY <1>2, <1>3 DEF CellsOwnedOnce

\* The cells of the bound tree are owned once while it is built and evaluated, and none is
\* left when main has its answer but the copies of symbols that bound_scope_try_declare
\* refused, one for each of its reports: on the paths of binder.c that give up an operand as
\* on the others, whatever the tree.
THEOREM EveryCellIsOwnedOnce == Spec => []CellsOwnedOnce
<1>1. Init => CellsInv
  BY DEF Init, CompilationInit, CellsInv
<1>2. CompilationInv /\ CellsInv /\ [Next]_vars => CellsInv'
  BY CellsNext
<1>3. CompilationInv /\ CellsInv => CellsOwnedOnce
  BY CellsFollow
<1> QED
  BY <1>1, <1>2, <1>3, CompilationInvariant, PTL DEF Spec
================================================================================
