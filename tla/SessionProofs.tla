---------------------------- MODULE SessionProofs ----------------------------
(***************************************************************************)
(* Theorems about sessions, for every set of trees that may be submitted:  *)
(* what is answered is what the tree means, and every step is one of the   *)
(* abstract session.  And about the loop of main.c, for every set of lines *)
(* that may be typed: the parser is started on a lexing, the tree it       *)
(* leaves is one the binder may cast, and so everything that the modules   *)
(* ParserProofs and CompilationProofs show of the two machines holds of    *)
(* them in the REPL, for a session of any length.                          *)
(***************************************************************************)
EXTENDS Repl, CompilationProofs

--------------------------------------------------------------------------------
(* What a tree means.                                                           *)

\* As for the types, it depends on the older nodes alone.
LEMMA MeaningAgrees ==
  ASSUME IsSyntaxTree(syntax), NEW n \in 1..Len(syntax.nodes), NEW f, NEW g, NEW env,
         \A k \in 1..n - 1 : f[k] = g[k]
  PROVE  MeaningIn(n, f, env) = MeaningIn(n, g, env)
<1>1. CASE KindOf(n) = "ASSIGNMENT_EXPRESSION"
  <2>1. f[Kid(n, 3)] = g[Kid(n, 3)]
    BY <1>1, KidsAreOlder
  <2> QED
    BY <1>1, <2>1 DEF MeaningIn
<1>2. CASE KindOf(n) = "UNARY_EXPRESSION"
  <2>1. f[Kid(n, 2)] = g[Kid(n, 2)]
    BY <1>2, KidsAreOlder
  <2> QED
    BY <1>2, <2>1 DEF MeaningIn
<1>3. CASE KindOf(n) = "PARENTHESIZED_EXPRESSION"
  <2>1. f[Kid(n, 2)] = g[Kid(n, 2)]
    BY <1>3, KidsAreOlder
  <2> QED
    BY <1>3, <2>1 DEF MeaningIn
<1>4. CASE KindOf(n) = "BINARY_EXPRESSION"
  <2>1. f[Kid(n, 1)] = g[Kid(n, 1)] /\ f[Kid(n, 3)] = g[Kid(n, 3)]
    BY <1>4, KidsAreOlder
  <2> QED
    BY <1>4, <2>1 DEF MeaningIn
<1>5. CASE KindOf(n) \notin { "ASSIGNMENT_EXPRESSION", "UNARY_EXPRESSION", "PARENTHESIZED_EXPRESSION",
                              "BINARY_EXPRESSION" }
  BY <1>5 DEF MeaningIn
<1> QED
  BY <1>1, <1>2, <1>3, <1>4, <1>5

LEMMA MeaningIs ==
  ASSUME IsSyntaxTree(syntax)
  PROVE  \A n \in 1..Len(syntax.nodes) :
            Meaning[n] = [ env \in Environments(Objects) |-> MeaningIn(n, Meaning, env) ]
<1>1. PICK size \in Nat : size = Len(syntax.nodes)
  BY KidsAreOlder
<1>2. PICK E : E = Environments(Objects)
  OBVIOUS
<1> DEFINE made(n, f) == [ env \in E |-> MeaningIn(n, f, env) ]
           Fits(m, f) == f = [ n \in 1..m |-> made(n, f) ]
           T == { m \in 0..size : ~\E f : Fits(m, f) }
<1>3. ASSUME NEW n \in 1..size, NEW f, NEW g, \A k \in 1..n - 1 : f[k] = g[k] PROVE made(n, f) = made(n, g)
  <2>1. n \in 1..Len(syntax.nodes)
    BY <1>1
  <2>2. \A env \in E : MeaningIn(n, f, env) = MeaningIn(n, g, env)
    BY <1>3, <2>1, MeaningAgrees
  <2> QED
    BY <2>2
<1> HIDE DEF made
<1>4. T = {}
  <2> SUFFICES ASSUME T # {} PROVE FALSE
    OBVIOUS
  <2>1. PICK m \in T : \A other \in T : m <= other
    <3>1. T \subseteq Nat
      OBVIOUS
    <3> HIDE DEF T
    <3> QED
      BY <3>1, LeastElement
  <2>2. m \in 0..size /\ ~\E f : Fits(m, f)
    BY <2>1
  <2>3. CASE m = 0
    <3>1. PICK f : f = [ n \in 1..0 |-> n ]
      OBVIOUS
    <3>2. Fits(0, f)
      BY <3>1
    <3> QED
      BY <2>2, <2>3, <3>2
  <2>4. CASE m # 0
    <3>1. PICK l \in 0..size : m = l + 1 /\ m \in 1..size /\ ~(m <= l)
      <4>1. m - 1 \in 0..size /\ m = m - 1 + 1 /\ m \in 1..size /\ ~(m <= m - 1)
        BY <2>2, <2>4
      <4> QED
        BY <4>1
    <3>2. l \notin T
      BY <2>1, <3>1
    <3>3. PICK f : Fits(l, f)
      BY <3>2
    <3>4. PICK g : g = [ n \in 1..m |-> made(n, f) ]
      OBVIOUS
    <3>5. \A n \in 1..l : n \in 1..m /\ n \in 1..size
      BY <3>1
    <3>6. \A n \in 1..l : f[n] = g[n]
      BY <3>3, <3>4, <3>5
    <3>7. ASSUME NEW n \in 1..m PROVE made(n, f) = made(n, g)
      <4>1. n \in 1..size /\ \A k \in 1..n - 1 : k \in 1..l
        BY <3>1
      <4>2. \A k \in 1..n - 1 : f[k] = g[k]
        BY <3>6, <4>1
      <4> QED
        BY <1>3, <4>1, <4>2
    <3>8. Fits(m, g)
      BY <3>4, <3>7
    <3> QED
      BY <2>2, <3>8
  <2> QED
    BY <2>3, <2>4
<1>5. \E f : Fits(size, f)
  <2>1. size \in 0..size
    OBVIOUS
  <2> QED
    BY <1>4, <2>1
<1>6. Meaning = CHOOSE f : Fits(size, f)
  BY <1>1, <1>2 DEF Meaning, made
<1> HIDE DEF Fits
<1>7. Fits(size, Meaning)
  BY <1>5, <1>6
<1>8. \A n \in 1..size : Meaning[n] = made(n, Meaning)
  BY <1>7 DEF Fits
<1> QED
  BY <1>1, <1>2, <1>8 DEF made

\* What each kind of expression means, given what its kids mean.
Answer(value, after) == [ value |-> value, env |-> after ]

LEMMA LiteralMeaning ==
  ASSUME IsSyntaxTree(syntax), NEW n \in 1..Len(syntax.nodes), NEW env \in Environments(Objects),
         KindOf(n) = "LITERAL_EXPRESSION"
  PROVE  Meaning[n][env] = Answer(LiteralValue(n), env)
<1>1. Meaning[n][env] = MeaningIn(n, Meaning, env)
  BY MeaningIs
<1> QED
  BY <1>1 DEF MeaningIn, Answer

LEMMA NameMeaning ==
  ASSUME IsSyntaxTree(syntax), NEW n \in 1..Len(syntax.nodes), NEW env \in Environments(Objects),
         KindOf(n) = "NAME_EXPRESSION"
  PROVE  Meaning[n][env] = Answer(env[TextOf(Kid(n, 1))], env)
<1>1. Meaning[n][env] = MeaningIn(n, Meaning, env)
  BY MeaningIs
<1> QED
  BY <1>1 DEF MeaningIn, Answer

LEMMA ParenthesizedMeaning ==
  ASSUME IsSyntaxTree(syntax), NEW n \in 1..Len(syntax.nodes), KindOf(n) = "PARENTHESIZED_EXPRESSION"
  PROVE  Meaning[n] = Meaning[Kid(n, 2)]
<1>1. Kid(n, 2) \in 1..Len(syntax.nodes)
  BY KidsAreOlder
<1>2. PICK E : E = Environments(Objects)
  OBVIOUS
<1>3. \A e \in E : MeaningIn(n, Meaning, e) = Meaning[Kid(n, 2)][e]
  BY DEF MeaningIn
<1>4. Meaning[n] = [ e \in E |-> Meaning[Kid(n, 2)][e] ]
  BY <1>2, <1>3, MeaningIs
<1>5. Meaning[Kid(n, 2)] = [ e \in E |-> MeaningIn(Kid(n, 2), Meaning, e) ]
  BY <1>1, <1>2, MeaningIs
<1> QED
  BY <1>4, <1>5

LEMMA AssignmentMeaning ==
  ASSUME IsSyntaxTree(syntax), NEW n \in 1..Len(syntax.nodes), NEW env \in Environments(Objects),
         KindOf(n) = "ASSIGNMENT_EXPRESSION", NEW value, NEW after,
         Meaning[Kid(n, 3)][env] = Answer(value, after)
  PROVE  Meaning[n][env] = IF value = Trap THEN Answer(value, after)
                           ELSE Answer(value, Extended(after, TextOf(Kid(n, 1)), value))
<1>1. Meaning[n][env] = MeaningIn(n, Meaning, env)
  BY MeaningIs
<1>2. PICK right, name : right = Meaning[Kid(n, 3)][env] /\ name = TextOf(Kid(n, 1))
  OBVIOUS
<1>3. right = [ value |-> value, env |-> after ]
  BY <1>2 DEF Answer
<1>4. right.value = value
  BY <1>3
<1>5. [ right EXCEPT !.env = Extended(@, name, right.value) ]
         = [ value |-> value, env |-> Extended(after, name, value) ]
  BY <1>3
<1>6. Meaning[n][env] = IF right.value = Trap THEN right
                        ELSE [ right EXCEPT !.env = Extended(@, name, right.value) ]
  BY <1>1, <1>2 DEF MeaningIn
<1> QED
  BY <1>2, <1>3, <1>4, <1>5, <1>6 DEF Answer

LEMMA UnaryMeaning ==
  ASSUME IsSyntaxTree(syntax), NEW n \in 1..Len(syntax.nodes), NEW env \in Environments(Objects),
         KindOf(n) = "UNARY_EXPRESSION", NEW value, NEW after, NEW kind, kind = KindOf(Kid(n, 1)),
         Meaning[Kid(n, 2)][env] = Answer(value, after)
  PROVE  Meaning[n][env] =
            IF value = Trap \/ kind = "PLUS_TOKEN" THEN Answer(value, after)
            ELSE IF kind = "BANG_TOKEN" THEN Answer(Bool(~value.bool), after)
            ELSE Answer(Int64(Wrap(0 - value.i64)), after)
<1>1. Meaning[n][env] = MeaningIn(n, Meaning, env)
  BY MeaningIs
<1>2. PICK operand : operand = Meaning[Kid(n, 2)][env]
  OBVIOUS
<1>3. operand = [ value |-> value, env |-> after ]
  BY <1>2 DEF Answer
<1>4. operand.value = value
  BY <1>3
<1>5. PICK negated, opposite : negated = Bool(~value.bool) /\ opposite = Int64(Wrap(0 - value.i64))
  OBVIOUS
<1>6. Meaning[n][env] = IF operand.value = Trap \/ kind = "PLUS_TOKEN" THEN operand
                        ELSE [ operand EXCEPT !.value =
                                 IF kind = "BANG_TOKEN" THEN Bool(~@.bool) ELSE Int64(Wrap(0 - @.i64)) ]
  BY <1>1, <1>2 DEF MeaningIn
<1>7. Meaning[n][env] = IF value = Trap \/ kind = "PLUS_TOKEN" THEN operand
                        ELSE [ operand EXCEPT !.value = IF kind = "BANG_TOKEN" THEN negated ELSE opposite ]
  BY <1>4, <1>5, <1>6
<1>8. \A x : [ operand EXCEPT !.value = x ] = [ value |-> x, env |-> after ]
  BY <1>3
<1> QED
  BY <1>2, <1>3, <1>5, <1>7, <1>8 DEF Answer

LEMMA BinaryMeaningTraps ==
  ASSUME IsSyntaxTree(syntax), NEW n \in 1..Len(syntax.nodes), NEW env \in Environments(Objects),
         KindOf(n) = "BINARY_EXPRESSION", NEW after, Meaning[Kid(n, 1)][env] = Answer(Trap, after)
  PROVE  Meaning[n][env] = Answer(Trap, after)
<1>1. Meaning[n][env] = MeaningIn(n, Meaning, env)
  BY MeaningIs
<1>2. PICK left : left = Meaning[Kid(n, 1)][env]
  OBVIOUS
<1>3. left = [ value |-> Trap, env |-> after ]
  BY <1>2 DEF Answer
<1>4. left.value = Trap
  BY <1>3
<1>5. MeaningIn(n, Meaning, env) = left
  BY <1>2, <1>4 DEF MeaningIn
<1> QED
  BY <1>1, <1>3, <1>5 DEF Answer

LEMMA BinaryMeaning ==
  ASSUME IsSyntaxTree(syntax), NEW n \in 1..Len(syntax.nodes), NEW env \in Environments(Objects),
         KindOf(n) = "BINARY_EXPRESSION", NEW kind, kind = KindOf(Kid(n, 2)),
         NEW value, NEW after, Meaning[Kid(n, 1)][env] = Answer(value, after), value # Trap,
         NEW other, NEW last, Meaning[Kid(n, 3)][after] = Answer(other, last),
         NEW x, x = IF other = Trap THEN other ELSE Apply(kind, value, other)
  PROVE  Meaning[n][env] = Answer(x, last)
<1>1. Meaning[n][env] = MeaningIn(n, Meaning, env)
  BY MeaningIs
<1>2. PICK left : left = Meaning[Kid(n, 1)][env]
  OBVIOUS
<1>3. left = [ value |-> value, env |-> after ]
  BY <1>2 DEF Answer
<1>4. left.value = value /\ left.env = after
  BY <1>3
<1>5. PICK right : right = Meaning[Kid(n, 3)][after]
  OBVIOUS
<1>6. Meaning[n][env] = IF left.value = Trap THEN left
                        ELSE IF right.value = Trap THEN right
                        ELSE [ right EXCEPT !.value = Apply(kind, left.value, right.value) ]
  BY <1>1, <1>2, <1>4, <1>5 DEF MeaningIn
<1>7. right = [ value |-> other, env |-> last ]
  BY <1>5 DEF Answer
<1>8. right.value = other
  BY <1>7
<1>9. [ right EXCEPT !.value = Apply(kind, left.value, right.value) ]
         = [ value |-> Apply(kind, value, other), env |-> last ]
  BY <1>4, <1>7, <1>8
<1> QED
  BY <1>4, <1>6, <1>7, <1>8, <1>9 DEF Answer

--------------------------------------------------------------------------------
(* What an operator of the language makes of its operands is what the evaluator *)
(* computes.                                                                    *)

Truncates(a, b, q) ==
    LET r == a - q * b IN
    /\ Abs(r) < Abs(b)
    /\ r = 0 \/ (r < 0) = (a < 0)

\* The quotient of the signs and the sizes is truncated towards zero ...
LEMMA QuotientTruncates ==
  ASSUME NEW a \in Int, NEW b \in Int \ {0}
  PROVE  Quotient(a, b) \in Int /\ Truncates(a, b, Quotient(a, b))
<1>1. PICK x \in Nat, y \in Nat \ {0} : x = Abs(a) /\ y = Abs(b)
  BY DEF Abs
<1>2. PICK k \in Int, s \in 0..y - 1 : k = x \div y /\ x = y * k + s
  <2>1. x \div y \in Int /\ x % y \in 0..y - 1 /\ x = y * (x \div y) + (x % y)
    OBVIOUS
  <2> QED
    BY <2>1
<1>3. PICK m \in Int : m = y * k /\ x = m + s
  BY <1>2
<1>4. /\ y * k = k * y /\ k * (-y) = -(k * y) /\ (-k) * y = -(k * y) /\ (-k) * (-y) = k * y
      /\ k * y = m
  BY <1>2, <1>3
<1>5. \A r \in Int : r \in { s, -s } => Abs(r) < Abs(b)
  BY <1>1, <1>2 DEF Abs
<1>6. ASSUME NEW q \in Int, q = Quotient(a, b), NEW r \in { s, -s }, r \in Int, a - q * b = r,
             r = 0 \/ (r < 0) = (a < 0)
      PROVE  Quotient(a, b) \in Int /\ Truncates(a, b, Quotient(a, b))
  BY <1>5, <1>6 DEF Truncates
<1>7. CASE a >= 0 /\ b > 0
  <2>1. Quotient(a, b) = k /\ a = x /\ b = y
    BY <1>1, <1>2, <1>7 DEF Quotient, Abs
  <2>2. a - k * b = s
    BY <1>3, <1>4, <2>1
  <2>3. s \in Int /\ (s = 0 \/ (s < 0) = (a < 0))
    BY <1>2, <1>7
  <2> QED
    BY <1>6, <2>1, <2>2, <2>3
<1>8. CASE a < 0 /\ b < 0
  <2>1. Quotient(a, b) = k /\ a = -x /\ b = -y
    BY <1>1, <1>2, <1>8 DEF Quotient, Abs
  <2>2. a - k * b = -s
    BY <1>3, <1>4, <2>1
  <2>3. -s \in Int /\ (-s = 0 \/ (-s < 0) = (a < 0))
    BY <1>2, <1>8
  <2> QED
    BY <1>6, <2>1, <2>2, <2>3
<1>9. CASE a >= 0 /\ b < 0
  <2>1. Quotient(a, b) = -k /\ a = x /\ b = -y
    BY <1>1, <1>2, <1>9 DEF Quotient, Abs
  <2>2. a - (-k) * b = s
    BY <1>3, <1>4, <2>1
  <2>3. s \in Int /\ -k \in Int /\ (s = 0 \/ (s < 0) = (a < 0))
    BY <1>2, <1>9
  <2> QED
    BY <1>6, <2>1, <2>2, <2>3
<1>10. CASE a < 0 /\ b > 0
  <2>1. Quotient(a, b) = -k /\ a = -x /\ b = y
    BY <1>1, <1>2, <1>10 DEF Quotient, Abs
  <2>2. a - (-k) * b = -s
    BY <1>3, <1>4, <2>1
  <2>3. -s \in Int /\ -k \in Int /\ (-s = 0 \/ (-s < 0) = (a < 0))
    BY <1>2, <1>10
  <2> QED
    BY <1>6, <2>1, <2>2, <2>3
<1> QED
  BY <1>7, <1>8, <1>9, <1>10

\* ... and there is no other such number.
LEMMA OneTruncates ==
  ASSUME NEW a \in Int, NEW b \in Int \ {0}, NEW q \in Int, NEW other \in Int,
         Truncates(a, b, q), Truncates(a, b, other)
  PROVE  other = q
<1>1. PICK m \in Int, l \in Int : m = q * b /\ l = other * b
  OBVIOUS
<1>2. /\ Abs(a - m) < Abs(b) /\ (a - m = 0 \/ (a - m < 0) = (a < 0))
      /\ Abs(a - l) < Abs(b) /\ (a - l = 0 \/ (a - l < 0) = (a < 0))
  BY <1>1 DEF Truncates
<1>3. m - l < Abs(b) /\ l - m < Abs(b)
  BY <1>2 DEF Abs
<1>4. PICK d \in Int : d = q - other
  OBVIOUS
<1>5. d * b = m - l
  <2>1. (q - other) * b = q * b - other * b
    OBVIOUS
  <2> QED
    BY <1>1, <1>4, <2>1
<1>6. CASE d >= 1
  <2>1. b > 0 => b <= d * b
    BY <1>6
  <2>2. b < 0 => d * b <= b
    BY <1>6
  <2> QED
    BY <1>3, <1>5, <2>1, <2>2 DEF Abs
<1>7. CASE d <= -1
  <2>1. b > 0 => d * b <= -b
    BY <1>7
  <2>2. b < 0 => -b <= d * b
    BY <1>7
  <2> QED
    BY <1>3, <1>5, <2>1, <2>2 DEF Abs
<1> QED
  BY <1>4, <1>6, <1>7

LEMMA QuotientIsChosen ==
  ASSUME NEW a \in Ints, NEW b \in Ints, ~DivisionTraps(a, b)
  PROVE  (CHOOSE q \in Int64s :
             LET r == a - q.i64 * b IN
             /\ Abs(r) < Abs(b)
             /\ r = 0 \/ (r < 0) = (a < 0)) = Int64(Quotient(a, b))
<1>1. a \in Int /\ b \in Int \ {0} /\ Ints \subseteq Int
  <2>1. PICK p \in Nat \ {0} : MinInt = -p /\ MaxInt = p - 1
    BY RangeOfIntegers
  <2> QED
    BY <2>1 DEF Ints, DivisionTraps
<1>2. PICK c : c = Quotient(a, b)
  OBVIOUS
<1>3. c \in Int /\ Truncates(a, b, c)
  BY <1>1, <1>2, QuotientTruncates
<1>4. Int64(c) \in Int64s
  <2>1. Int64(c) \in Objects
    BY <1>2, QuotientIsInRange
  <2>2. Int64(c) \notin Bools
    BY DEF Bools, Bool, Int64
  <2> QED
    BY <2>1, <2>2 DEF Objects
<1>5. \A q \in Int64s : q.i64 \in Int /\ q = Int64(q.i64)
  BY <1>1 DEF Int64s, Int64
<1>6. Int64(c).i64 = c
  BY DEF Int64
<1>7. ASSUME NEW q \in Int64s, Truncates(a, b, q.i64) PROVE q = Int64(c)
  <2>1. q.i64 = c
    BY <1>1, <1>3, <1>5, <1>7, OneTruncates
  <2> QED
    BY <1>5, <2>1
<1>8. (CHOOSE q \in Int64s : Truncates(a, b, q.i64)) = Int64(c)
  BY <1>3, <1>4, <1>6, <1>7
<1> QED
  BY <1>2, <1>8 DEF Truncates

LEMMA TruthObject ==
  ASSUME NEW value \in Objects, value.type = "BOOL"
  PROVE  value.bool \in BOOLEAN /\ value = Bool(value.bool)
BY DEF Objects, Int64s, Bools, Int64, Bool

\* The rules see the kind of the token, the evaluator that of the operator.
LEMMA ApplyIs ==
  ASSUME NEW op \in BinaryOperators, NEW left \in Objects, NEW right \in Objects,
         left.type = op.operand_type, right.type = op.operand_type
  PROVE  Apply(op.syntax_kind, left, right) =
            IF op.kind = "DIVISION" /\ DivisionTraps(left.i64, right.i64) THEN Trap
            ELSE BinaryResult(op.kind, left, right)
<1>1. CASE op.kind \in { "ADDITION", "SUBTRACTION", "MULTIPLICATION" }
  <2>1. CASE op.kind = "ADDITION"
    <3>1. op.syntax_kind = "PLUS_TOKEN"
      BY <2>1 DEF BinaryOperators, BinaryOperator
    <3> QED
      BY <2>1, <3>1 DEF Apply, BinaryResult
  <2>2. CASE op.kind = "SUBTRACTION"
    <3>1. op.syntax_kind = "MINUS_TOKEN"
      BY <2>2 DEF BinaryOperators, BinaryOperator
    <3> QED
      BY <2>2, <3>1 DEF Apply, BinaryResult
  <2>3. CASE op.kind = "MULTIPLICATION"
    <3>1. op.syntax_kind = "STAR_TOKEN"
      BY <2>3 DEF BinaryOperators, BinaryOperator
    <3> QED
      BY <2>3, <3>1 DEF Apply, BinaryResult
  <2> QED
    BY <1>1, <2>1, <2>2, <2>3
<1>2. CASE op.kind = "DIVISION"
  <2>1. op.operand_type = "INT64" /\ op.syntax_kind = "SLASH_TOKEN"
    BY <1>2 DEF BinaryOperators, BinaryOperator
  <2>2. PICK l \in Ints, r \in Ints : l = left.i64 /\ r = right.i64
    BY <2>1, IntegerObject
  <2>3. BinaryResult(op.kind, left, right) = Int64(Quotient(l, r))
    BY <1>2, <2>2 DEF BinaryResult
  <2>4. Apply(op.syntax_kind, left, right) =
           IF DivisionTraps(l, r) THEN Trap
           ELSE CHOOSE q \in Int64s :
                   LET rest == l - q.i64 * r IN
                   /\ Abs(rest) < Abs(r)
                   /\ rest = 0 \/ (rest < 0) = (l < 0)
    BY <2>1, <2>2 DEF Apply
  <2> QED
    BY <1>2, <2>2, <2>3, <2>4, QuotientIsChosen
<1>3. CASE op.kind \in { "LOGICAL_AND", "LOGICAL_OR" }
  <2>1. op.operand_type = "BOOL"
    BY <1>3 DEF BinaryOperators, BinaryOperator
  <2>2. PICK l \in BOOLEAN, r \in BOOLEAN : left = Bool(l) /\ right = Bool(r) /\ l = left.bool /\ r = right.bool
    BY <2>1, TruthObject
  <2>3. \A x \in BOOLEAN : (Bool(x) = Bool(TRUE)) <=> x
    BY DEF Bool
  <2>4. CASE op.kind = "LOGICAL_AND"
    <3>1. op.syntax_kind = "AMPERSAND_AMPERSAND_TOKEN"
      BY <2>4 DEF BinaryOperators, BinaryOperator
    <3>2. Apply(op.syntax_kind, left, right) = Bool(left = Bool(TRUE) /\ right = Bool(TRUE))
      BY <3>1 DEF Apply
    <3>3. BinaryResult(op.kind, left, right) = Bool(left.bool /\ right.bool)
      BY <2>4 DEF BinaryResult
    <3>4. (left = Bool(TRUE) /\ right = Bool(TRUE)) = (left.bool /\ right.bool)
      BY <2>2, <2>3
    <3> QED
      BY <2>4, <3>2, <3>3, <3>4
  <2>5. CASE op.kind = "LOGICAL_OR"
    <3>1. op.syntax_kind = "PIPE_PIPE_TOKEN"
      BY <2>5 DEF BinaryOperators, BinaryOperator
    <3>2. Apply(op.syntax_kind, left, right) = Bool(left = Bool(TRUE) \/ right = Bool(TRUE))
      BY <3>1 DEF Apply
    <3>3. BinaryResult(op.kind, left, right) = Bool(left.bool \/ right.bool)
      BY <2>5 DEF BinaryResult
    <3>4. (left = Bool(TRUE) \/ right = Bool(TRUE)) = (left.bool \/ right.bool)
      BY <2>2, <2>3
    <3> QED
      BY <2>5, <3>2, <3>3, <3>4
  <2> QED
    BY <1>3, <2>4, <2>5
<1>4. CASE op.kind = "EQUALITY"
  <2>1. op.syntax_kind = "EQUALS_EQUALS_TOKEN"
    BY <1>4 DEF BinaryOperators, BinaryOperator
  <2> QED
    BY <1>4, <2>1 DEF Apply, BinaryResult
<1>5. CASE op.kind = "INEQUALITY"
  <2>1. op.syntax_kind = "BANG_EQUALS_TOKEN"
    BY <1>5 DEF BinaryOperators, BinaryOperator
  <2> QED
    BY <1>5, <2>1 DEF Apply, BinaryResult
<1> QED
  BY <1>1, <1>2, <1>3, <1>4, <1>5 DEF BinaryOperators, BinaryOperator

--------------------------------------------------------------------------------
(* What the rules accept has a value of its type, or none, and what it declares *)
(* has values of its types.                                                     *)

TypesIn(env) == [ name \in DOMAIN env |-> env[name].type ]

\* What is meant by a node of which typing is what the rules say.
Sound(typing, env, value, after) ==
    /\ DOMAIN env \subseteq DOMAIN after
    /\ value # Trap => value.type = typing.type /\ TypesIn(after) = typing.env
Means(meaning, typing, env) ==
    \E value \in Objects \cup { Trap }, after \in Environments(Objects) :
        meaning = Answer(value, after) /\ Sound(typing, env, value, after)
MeansWell(n) ==
    \A env \in Environments(Objects) :
        Typing[n][TypesIn(env)].ok => Means(Meaning[n][env], Typing[n][TypesIn(env)], env)

LEMMA TrapIsNoObject == Trap \notin Objects
BY DEF Trap, Objects, Int64s, Bools, Int64, Bool

LEMMA ObjectHasType == \A value \in Objects : value.type \in ObjectTypes
BY DEF Objects, Int64s, Bools, Int64, Bool, ObjectTypes

LEMMA TypesAreTypes ==
  ASSUME NEW env \in Environments(Objects)
  PROVE  TypesIn(env) \in Environments(ObjectTypes) /\ DOMAIN TypesIn(env) = DOMAIN env
<1>1. PICK names \in SUBSET Name : env \in [ names -> Objects ]
  BY DEF Environments
<1>2. TypesIn(env) \in [ names -> ObjectTypes ]
  BY <1>1, ObjectHasType DEF TypesIn
<1> QED
  BY <1>1, <1>2 DEF Environments

LEMMA TypesOfExtended ==
  ASSUME NEW env, NEW name, NEW value
  PROVE  TypesIn(Extended(env, name, value)) = Extended(TypesIn(env), name, value.type)
<1>1. /\ DOMAIN TypesIn(Extended(env, name, value)) = DOMAIN env \cup { name }
      /\ DOMAIN Extended(TypesIn(env), name, value.type) = DOMAIN env \cup { name }
  BY DEF TypesIn, Extended
<1>2. \A n \in DOMAIN env \cup { name } :
         TypesIn(Extended(env, name, value))[n] = Extended(TypesIn(env), name, value.type)[n]
  BY DEF TypesIn, Extended
<1>3. /\ TypesIn(Extended(env, name, value)) = [ n \in DOMAIN env \cup { name } |-> TypesIn(Extended(env, name, value))[n] ]
      /\ Extended(TypesIn(env), name, value.type) =
            [ n \in DOMAIN env \cup { name } |-> Extended(TypesIn(env), name, value.type)[n] ]
  BY <1>1 DEF TypesIn, Extended
<1> QED
  BY <1>2, <1>3

\* The operator the rules choose by the types.
LEMMA UnaryOperatorChosen ==
  ASSUME NEW kind, NEW type, Signature(kind, << type >>) # {}
  PROVE  \E op \in UnaryOperators :
            /\ op.syntax_kind = kind /\ op.operand_type = type
            /\ TypeIn(Signature(kind, << type >>)) = op.result_type
<1>1. PICK types, matches : types = Signature(kind, << type >>) /\ matches = UnaryMatches(kind, type)
  OBVIOUS
<1>2. matches # {}
  BY <1>1, SignaturesAreMatches
<1>3. PICK op \in matches : TRUE
  BY <1>2
<1>4. \A t \in types : t = op.result_type
  BY <1>1, <1>3, SignaturesAreMatches
<1>5. TypeIn(types) = op.result_type
  BY <1>1, <1>4 DEF TypeIn
<1>6. op \in UnaryOperators /\ op.syntax_kind = kind /\ op.operand_type = type
  BY <1>1, <1>3 DEF UnaryMatches
<1> QED
  BY <1>1, <1>5, <1>6

LEMMA BinaryOperatorChosen ==
  ASSUME NEW kind, NEW left, NEW right, Signature(kind, << left, right >>) # {}
  PROVE  \E op \in BinaryOperators :
            /\ op.syntax_kind = kind /\ op.operand_type = left /\ op.operand_type = right
            /\ TypeIn(Signature(kind, << left, right >>)) = op.result_type
<1>1. PICK types, matches : types = Signature(kind, << left, right >>) /\ matches = BinaryMatches(kind, left, right)
  OBVIOUS
<1>2. matches # {}
  BY <1>1, SignaturesAreMatches
<1>3. PICK op \in matches : TRUE
  BY <1>2
<1>4. \A t \in types : t = op.result_type
  BY <1>1, <1>3, SignaturesAreMatches
<1>5. TypeIn(types) = op.result_type
  BY <1>1, <1>4 DEF TypeIn
<1>6. op \in BinaryOperators /\ op.syntax_kind = kind /\ op.operand_type = left /\ op.operand_type = right
  BY <1>1, <1>3 DEF BinaryMatches
<1> QED
  BY <1>1, <1>5, <1>6

\* What the rules make of one operand is what the evaluator computes.
OperandMeaning(kind, value) ==
    IF kind = "PLUS_TOKEN" THEN value
    ELSE IF kind = "BANG_TOKEN" THEN Bool(~value.bool) ELSE Int64(Wrap(0 - value.i64))

LEMMA OperandIs ==
  ASSUME NEW op \in UnaryOperators, NEW value \in Objects, value.type = op.operand_type
  PROVE  /\ OperandMeaning(op.syntax_kind, value) =
               IF op.kind = "IDENTITY" THEN value ELSE UnaryResult(op.kind, value)
         /\ OperandMeaning(op.syntax_kind, value) \in Objects
         /\ OperandMeaning(op.syntax_kind, value).type = op.result_type
<1>1. OperandMeaning(op.syntax_kind, value) = IF op.kind = "IDENTITY" THEN value ELSE UnaryResult(op.kind, value)
  <2>1. CASE op = UnaryOperator("PLUS_TOKEN", "IDENTITY", "INT64")
    BY <2>1 DEF UnaryOperator, OperandMeaning
  <2>2. CASE op = UnaryOperator("MINUS_TOKEN", "NEGATION", "INT64")
    <3>1. op.syntax_kind = "MINUS_TOKEN" /\ op.kind = "NEGATION" /\ op.operand_type = "INT64"
      BY <2>2 DEF UnaryOperator
    <3>2. PICK i \in Int : i = value.i64
      BY <3>1, IntegerObject
    <3>3. 0 - i = -i
      OBVIOUS
    <3> QED
      BY <3>1, <3>2, <3>3 DEF OperandMeaning, UnaryResult
  <2>3. CASE op = UnaryOperator("BANG_TOKEN", "LOGICAL_NEGATION", "BOOL")
    <3>1. op.syntax_kind = "BANG_TOKEN" /\ op.kind = "LOGICAL_NEGATION"
      BY <2>3 DEF UnaryOperator
    <3> QED
      BY <3>1 DEF OperandMeaning, UnaryResult
  <2> QED
    BY <2>1, <2>2, <2>3 DEF UnaryOperators
<1>2. /\ op.kind = "IDENTITY" => op.result_type = op.operand_type
      /\ op.kind # "IDENTITY" =>
            UnaryResult(op.kind, value) \in Objects /\ UnaryResult(op.kind, value).type = op.result_type
  BY UnaryComputes
<1> QED
  BY <1>1, <1>2

LEMMA OperandsAre ==
  ASSUME NEW op \in BinaryOperators, NEW left \in Objects, NEW right \in Objects,
         left.type = op.operand_type, right.type = op.operand_type,
         NEW value, value = Apply(op.syntax_kind, left, right)
  PROVE  value \in Objects \cup { Trap } /\ (value # Trap => value.type = op.result_type)
<1>1. value = IF op.kind = "DIVISION" /\ DivisionTraps(left.i64, right.i64) THEN Trap
              ELSE BinaryResult(op.kind, left, right)
  BY ApplyIs
<1>2. ~(op.kind = "DIVISION" /\ DivisionTraps(left.i64, right.i64)) =>
         /\ BinaryResult(op.kind, left, right) \in Objects
         /\ BinaryResult(op.kind, left, right).type = op.result_type
  BY BinaryComputes
<1> QED
  BY <1>1, <1>2

LEMMA UnaryMeansWell ==
  ASSUME IsSyntaxTree(syntax), NEW n \in 1..Len(syntax.nodes), KindOf(n) = "UNARY_EXPRESSION",
         \A k \in 1..n - 1 : MeansWell(k)
  PROVE  MeansWell(n)
<1> SUFFICES ASSUME NEW env \in Environments(Objects), Typing[n][TypesIn(env)].ok
             PROVE  Means(Meaning[n][env], Typing[n][TypesIn(env)], env)
  BY DEF MeansWell
<1>1. PICK types \in Environments(ObjectTypes) : types = TypesIn(env)
  BY TypesAreTypes
<1>2. PICK kid, kind : kid = Kid(n, 2) /\ kid \in 1..n - 1 /\ kind = KindOf(Kid(n, 1))
  BY KidsAreOlder
<1>3. PICK typing, operand : typing = Typing[n][types] /\ operand = Typing[kid][types]
  OBVIOUS
<1>4. PICK signature : signature = Signature(kind, << operand.type >>)
  OBVIOUS
<1>5. operand.ok /\ signature # {}
  BY <1>1, <1>2, <1>3, <1>4, UnaryTyping
<1>6. typing.type = TypeIn(signature) /\ typing.env = operand.env
  BY <1>1, <1>2, <1>3, <1>4, UnaryTyping
<1>7. Means(Meaning[kid][env], operand, env)
  BY <1>1, <1>2, <1>3, <1>5 DEF MeansWell
<1>8. PICK value \in Objects \cup { Trap }, after \in Environments(Objects) :
         Meaning[kid][env] = Answer(value, after) /\ Sound(operand, env, value, after)
  BY <1>7 DEF Means
<1>9. Meaning[n][env] = IF value = Trap THEN Answer(value, after) ELSE Answer(OperandMeaning(kind, value), after)
  <2>1. Meaning[n][env] = IF value = Trap \/ kind = "PLUS_TOKEN" THEN Answer(value, after)
                          ELSE IF kind = "BANG_TOKEN" THEN Answer(Bool(~value.bool), after)
                          ELSE Answer(Int64(Wrap(0 - value.i64)), after)
    BY <1>2, <1>8, UnaryMeaning
  <2> QED
    BY <2>1 DEF OperandMeaning
<1>10. CASE value = Trap
  <2>1. Sound(typing, env, value, after)
    BY <1>8, <1>10 DEF Sound
  <2> QED
    BY <1>1, <1>3, <1>8, <1>9, <1>10, <2>1 DEF Means
<1>11. CASE value # Trap
  <2>1. value \in Objects /\ value.type = operand.type /\ TypesIn(after) = operand.env
    BY <1>8, <1>11 DEF Sound
  <2>2. PICK op \in UnaryOperators :
           op.syntax_kind = kind /\ op.operand_type = operand.type /\ TypeIn(signature) = op.result_type
    BY <1>4, <1>5, UnaryOperatorChosen
  <2>3. PICK computed \in Objects : computed = OperandMeaning(kind, value) /\ computed.type = op.result_type
    BY <2>1, <2>2, OperandIs
  <2>4. Meaning[n][env] = Answer(computed, after)
    BY <1>9, <1>11, <2>3
  <2>5. Sound(typing, env, computed, after)
    BY <1>6, <1>8, <2>1, <2>2, <2>3 DEF Sound
  <2> QED
    BY <1>1, <1>3, <2>4, <2>5 DEF Means
<1> QED
  BY <1>10, <1>11

LEMMA BinaryMeansWell ==
  ASSUME IsSyntaxTree(syntax), NEW n \in 1..Len(syntax.nodes), KindOf(n) = "BINARY_EXPRESSION",
         \A k \in 1..n - 1 : MeansWell(k)
  PROVE  MeansWell(n)
<1> SUFFICES ASSUME NEW env \in Environments(Objects), Typing[n][TypesIn(env)].ok
             PROVE  Means(Meaning[n][env], Typing[n][TypesIn(env)], env)
  BY DEF MeansWell
<1>1. PICK types \in Environments(ObjectTypes) : types = TypesIn(env)
  BY TypesAreTypes
<1>2. PICK first, second, kind :
         /\ first = Kid(n, 1) /\ second = Kid(n, 3) /\ first \in 1..n - 1 /\ second \in 1..n - 1
         /\ kind = KindOf(Kid(n, 2))
  BY KidsAreOlder
<1>3. PICK typing, left : typing = Typing[n][types] /\ left = Typing[first][types]
  OBVIOUS
<1>4. PICK right : right = Typing[second][left.env]
  OBVIOUS
<1>5. PICK signature : signature = Signature(kind, << left.type, right.type >>)
  OBVIOUS
<1>6. left.ok /\ right.ok /\ signature # {}
  BY <1>1, <1>2, <1>3, <1>4, <1>5, BinaryTyping
<1>7. typing.type = TypeIn(signature) /\ typing.env = right.env
  BY <1>1, <1>2, <1>3, <1>4, <1>5, BinaryTyping
<1>8. Means(Meaning[first][env], left, env)
  BY <1>1, <1>2, <1>3, <1>6 DEF MeansWell
<1>9. PICK value \in Objects \cup { Trap }, after \in Environments(Objects) :
         Meaning[first][env] = Answer(value, after) /\ Sound(left, env, value, after)
  BY <1>8 DEF Means
<1>10. CASE value = Trap
  <2>1. Meaning[n][env] = Answer(value, after)
    BY <1>2, <1>9, <1>10, BinaryMeaningTraps
  <2>2. Sound(typing, env, value, after)
    BY <1>9, <1>10 DEF Sound
  <2> QED
    BY <1>1, <1>3, <1>9, <2>1, <2>2 DEF Means
<1>11. CASE value # Trap
  <2>1. value \in Objects /\ value.type = left.type /\ TypesIn(after) = left.env
    BY <1>9, <1>11 DEF Sound
  <2>2. Means(Meaning[second][after], right, after)
    BY <1>2, <1>4, <1>6, <1>9, <2>1 DEF MeansWell
  <2>3. PICK other \in Objects \cup { Trap }, last \in Environments(Objects) :
           Meaning[second][after] = Answer(other, last) /\ Sound(right, after, other, last)
    BY <2>2 DEF Means
  <2>4. PICK computed : computed = IF other = Trap THEN other ELSE Apply(kind, value, other)
    OBVIOUS
  <2>10. Meaning[n][env] = Answer(computed, last)
    <3>1. /\ Meaning[Kid(n, 1)][env] = Answer(value, after) /\ Meaning[Kid(n, 3)][after] = Answer(other, last)
          /\ kind = KindOf(Kid(n, 2))
      BY <1>2, <1>9, <2>3
    <3> QED
      BY <1>11, <2>4, <3>1, BinaryMeaning
  <2>5. DOMAIN env \subseteq DOMAIN last
    BY <1>9, <2>3 DEF Sound
  <2>6. CASE other = Trap
    <3>1. Sound(typing, env, other, last)
      BY <2>5, <2>6 DEF Sound
    <3> QED
      BY <1>1, <1>3, <2>3, <2>4, <2>6, <2>10, <3>1 DEF Means
  <2>7. CASE other # Trap
    <3>1. other \in Objects /\ other.type = right.type /\ TypesIn(last) = right.env
      BY <2>3, <2>7 DEF Sound
    <3>2. PICK op \in BinaryOperators :
             /\ op.syntax_kind = kind /\ op.operand_type = left.type /\ op.operand_type = right.type
             /\ TypeIn(signature) = op.result_type
      BY <1>5, <1>6, BinaryOperatorChosen
    <3>3. computed = Apply(kind, value, other)
      BY <2>4, <2>7
    <3>4. computed \in Objects \cup { Trap } /\ (computed # Trap => computed.type = op.result_type)
      BY <2>1, <3>1, <3>2, <3>3, OperandsAre
    <3>5. Sound(typing, env, computed, last)
      BY <1>7, <2>5, <3>1, <3>2, <3>4 DEF Sound
    <3> QED
      BY <1>1, <1>3, <2>10, <3>4, <3>5 DEF Means
  <2> QED
    BY <2>6, <2>7
<1> QED
  BY <1>10, <1>11

LEMMA AssignmentMeansWell ==
  ASSUME IsSyntaxTree(syntax), NEW n \in 1..Len(syntax.nodes), KindOf(n) = "ASSIGNMENT_EXPRESSION",
         \A k \in 1..n - 1 : MeansWell(k)
  PROVE  MeansWell(n)
<1> SUFFICES ASSUME NEW env \in Environments(Objects), Typing[n][TypesIn(env)].ok
             PROVE  Means(Meaning[n][env], Typing[n][TypesIn(env)], env)
  BY DEF MeansWell
<1>1. PICK types \in Environments(ObjectTypes) : types = TypesIn(env)
  BY TypesAreTypes
<1>2. PICK kid, name : kid = Kid(n, 3) /\ kid \in 1..n - 1 /\ name = TextOf(Kid(n, 1)) /\ name \in Name
  BY KidsAreOlder, ReadTree
<1>3. PICK typing, right : typing = Typing[n][types] /\ right = Typing[kid][types]
  OBVIOUS
<1>4. right.ok
  BY <1>1, <1>2, <1>3, AssignmentTyping
<1>5. typing.type = right.type /\ typing.env = Extended(right.env, name, right.type)
  BY <1>1, <1>2, <1>3, AssignmentTyping
<1>6. Means(Meaning[kid][env], right, env)
  BY <1>1, <1>2, <1>3, <1>4 DEF MeansWell
<1>7. PICK value \in Objects \cup { Trap }, after \in Environments(Objects) :
         Meaning[kid][env] = Answer(value, after) /\ Sound(right, env, value, after)
  BY <1>6 DEF Means
<1>8. Meaning[n][env] = IF value = Trap THEN Answer(value, after) ELSE Answer(value, Extended(after, name, value))
  BY <1>2, <1>7, AssignmentMeaning
<1>9. CASE value = Trap
  <2>1. Sound(typing, env, value, after)
    BY <1>7, <1>9 DEF Sound
  <2> QED
    BY <1>1, <1>3, <1>7, <1>8, <1>9, <2>1 DEF Means
<1>10. CASE value # Trap
  <2>1. value \in Objects /\ value.type = right.type /\ TypesIn(after) = right.env /\ DOMAIN env \subseteq DOMAIN after
    BY <1>7, <1>10 DEF Sound
  <2>2. PICK last \in Environments(Objects) : last = Extended(after, name, value)
    BY <1>2, <1>7, <2>1, ExtendedIs
  <2>3. DOMAIN env \subseteq DOMAIN last
    BY <2>1, <2>2 DEF Extended
  <2>4. TypesIn(last) = typing.env
    BY <1>5, <2>1, <2>2, TypesOfExtended
  <2>5. Sound(typing, env, value, last)
    BY <1>5, <2>1, <2>3, <2>4 DEF Sound
  <2> QED
    BY <1>1, <1>3, <1>7, <1>8, <1>10, <2>2, <2>5 DEF Means
<1> QED
  BY <1>9, <1>10

LEMMA MeaningIsSound ==
  ASSUME IsSyntaxTree(syntax), syntax.diagnostics = <<>>
  PROVE  \A n \in 1..Len(syntax.nodes) : MeansWell(n)
<1>1. PICK size \in Nat : size = Len(syntax.nodes)
  BY KidsAreOlder
<1>2. ASSUME NEW n \in 1..size, \A k \in 1..n - 1 : MeansWell(k)
      PROVE  MeansWell(n)
  <2>1. n \in 1..Len(syntax.nodes)
    BY <1>1
  <2>2. CASE KindOf(n) = "UNARY_EXPRESSION"
    BY <1>2, <2>1, <2>2, UnaryMeansWell
  <2>3. CASE KindOf(n) = "BINARY_EXPRESSION"
    BY <1>2, <2>1, <2>3, BinaryMeansWell
  <2>4. CASE KindOf(n) = "ASSIGNMENT_EXPRESSION"
    BY <1>2, <2>1, <2>4, AssignmentMeansWell
  <2>5. CASE KindOf(n) = "PARENTHESIZED_EXPRESSION"
    <3>1. Kid(n, 2) \in 1..n - 1 /\ Typing[n] = Typing[Kid(n, 2)] /\ Meaning[n] = Meaning[Kid(n, 2)]
      BY <2>1, <2>5, ParenthesizedTyping, ParenthesizedMeaning, KidsAreOlder
    <3>2. MeansWell(Kid(n, 2))
      BY <1>2, <3>1
    <3> QED
      BY <3>1, <3>2 DEF MeansWell
  <2>6. ASSUME NEW env \in Environments(Objects), NEW typing, typing = Typing[n][TypesIn(env)], typing.ok,
               NEW value \in Objects, value.type = typing.type, typing.env = TypesIn(env),
               Meaning[n][env] = Answer(value, env)
        PROVE  Means(Meaning[n][env], typing, env)
    BY <2>6 DEF Means, Sound
  <2>7. CASE KindOf(n) = "LITERAL_EXPRESSION"
    <3> SUFFICES ASSUME NEW env \in Environments(Objects), Typing[n][TypesIn(env)].ok
                 PROVE  Means(Meaning[n][env], Typing[n][TypesIn(env)], env)
      BY DEF MeansWell
    <3>1. PICK types, typing : types \in Environments(ObjectTypes) /\ types = TypesIn(env) /\ typing = Typing[n][types]
      BY TypesAreTypes
    <3>2. PICK value \in Objects : value = LiteralValue(n)
      BY <2>1, <2>7, ReadTree
    <3>3. typing.type = value.type /\ typing.env = types
      BY <2>1, <2>7, <3>1, <3>2, LiteralTyping
    <3>4. Meaning[n][env] = Answer(value, env)
      BY <2>1, <2>7, <3>2, LiteralMeaning
    <3> QED
      BY <2>6, <3>1, <3>2, <3>3, <3>4
  <2>8. CASE KindOf(n) = "NAME_EXPRESSION"
    <3> SUFFICES ASSUME NEW env \in Environments(Objects), Typing[n][TypesIn(env)].ok
                 PROVE  Means(Meaning[n][env], Typing[n][TypesIn(env)], env)
      BY DEF MeansWell
    <3>1. PICK types, typing : types \in Environments(ObjectTypes) /\ types = TypesIn(env) /\ typing = Typing[n][types]
      BY TypesAreTypes
    <3>2. PICK name : name = TextOf(Kid(n, 1))
      OBVIOUS
    <3>3. name \in DOMAIN types
      BY <2>1, <2>8, <3>1, <3>2, NameTyping
    <3>4. typing.type = types[name] /\ typing.env = types
      BY <2>1, <2>8, <3>1, <3>2, <3>3, NameTyping
    <3>5. PICK value \in Objects : value = env[name] /\ types[name] = value.type
      BY <3>1, <3>3 DEF TypesIn, Environments
    <3>6. Meaning[n][env] = Answer(value, env)
      BY <2>1, <2>8, <3>2, <3>5, NameMeaning
    <3> QED
      BY <2>6, <3>1, <3>4, <3>5, <3>6
  <2>9. CASE KindOf(n) \notin { "LITERAL_EXPRESSION", "NAME_EXPRESSION", "PARENTHESIZED_EXPRESSION",
                                "ASSIGNMENT_EXPRESSION", "UNARY_EXPRESSION", "BINARY_EXPRESSION" }
    <3> SUFFICES ASSUME NEW env \in Environments(Objects) PROVE ~Typing[n][TypesIn(env)].ok
      BY DEF MeansWell
    <3>1. PICK types \in Environments(ObjectTypes) : types = TypesIn(env)
      BY TypesAreTypes
    <3>2. TypingIn(n, Typing, types) = [ ok |-> FALSE, type |-> "NULL", env |-> types ]
      BY <2>9 DEF TypingIn
    <3>3. Typing[n][types] = TypingIn(n, Typing, types)
      BY <2>1, TypingIs
    <3> QED
      BY <3>1, <3>2, <3>3
  <2> QED
    BY <2>2, <2>3, <2>4, <2>5, <2>7, <2>8, <2>9
<1> DEFINE T == { n \in 1..size : ~MeansWell(n) }
<1>3. T = {}
  <2> SUFFICES ASSUME T # {} PROVE FALSE
    OBVIOUS
  <2>1. T \subseteq Nat
    OBVIOUS
  <2> HIDE DEF T
  <2>2. PICK n \in T : \A other \in T : n <= other
    BY <2>1, LeastElement
  <2> USE DEF T
  <2>3. n \in 1..size /\ ~MeansWell(n)
    OBVIOUS
  <2>4. ASSUME NEW k \in 1..n - 1 PROVE MeansWell(k)
    <3>1. k \in 1..size /\ ~(n <= k)
      BY <2>3
    <3> QED
      BY <2>2, <3>1
  <2> QED
    BY <1>2, <2>3, <2>4
<1> QED
  BY <1>1, <1>3

--------------------------------------------------------------------------------
(* What was bound, against what was written.                                    *)

\* What a tree says of its nodes.
Said ==
    [ n \in 1..Len(syntax.nodes) |->
        [ kind |-> KindOf(n), kids |-> syntax.nodes[n].kids, name |-> TextOf(Kid(n, 1)),
          value |-> LiteralValue(n),
          op |-> KindOf(Kid(n, IF KindOf(n) = "UNARY_EXPRESSION" THEN 1 ELSE 2)),
          typing |-> Typing[n], meaning |-> Meaning[n] ] ]

\* source has the node that a cell was bound to.  Parentheses were left out on the way.
Same(said, a, b) == said[a].typing = said[b].typing /\ said[a].meaning = said[b].meaning
Sourced(said, cells, source, n) ==
    LET from == said[source[n]]  kids == cells[n].kids IN
    /\ cells[n].cell = "LITERAL" => from.kind = "LITERAL_EXPRESSION" /\ cells[n].value = from.value
    /\ cells[n].cell = "VARIABLE" => from.kind = "NAME_EXPRESSION" /\ NameAt(cells, n) = from.name
    /\ cells[n].cell = "UNARY" =>
          /\ from.kind = "UNARY_EXPRESSION" /\ Same(said, source[kids[1]], from.kids[2])
          /\ \E op \in UnaryOperators : op.kind = cells[n].op /\ op.syntax_kind = from.op
    /\ cells[n].cell = "BINARY" =>
          /\ from.kind = "BINARY_EXPRESSION"
          /\ Same(said, source[kids[1]], from.kids[1]) /\ Same(said, source[kids[2]], from.kids[3])
          /\ \E op \in BinaryOperators : op.kind = cells[n].op /\ op.syntax_kind = from.op
    /\ cells[n].cell = "ASSIGNMENT" =>
          /\ from.kind = "ASSIGNMENT_EXPRESSION" /\ NameAt(cells, n) = from.name
          /\ Same(said, source[kids[2]], from.kids[3])
Built(said, cells, source) ==
    /\ source \in [ 1..Len(cells) -> DOMAIN said ]
    /\ \A n \in 1..Len(cells) : Sourced(said, cells, source, n)

\* The node that the i-th call was asked to bind.
Requested(tree, calls, i) ==
    IF i = 1 THEN tree.nodes[tree.root].kids[1] ELSE Awaited(tree, calls[i - 1])
Binds(tree, said, source, frame, n) ==
    /\ Same(said, frame.syntax, n)
    /\ frame.fn = "right" => Same(said, source[frame.held[1]], tree.nodes[frame.syntax].kids[1])
Framed(tree, said, source, calls) ==
    \A i \in 1..Len(calls) : Binds(tree, said, source, calls[i], Requested(tree, calls, i))
Making(tree, said, cells, source, call, calls) ==
    /\ Built(said, cells, source) /\ Framed(tree, said, source, calls)
    /\ Same(said, IF call.fn = "bind" THEN call.node ELSE source[call.node],
            Requested(tree, calls, Len(calls) + 1))

MakingInv ==
    reports = <<>> => \E source : Making(syntax, Said, heap, source, binder, binder_stack)

LEMMA SaidIs ==
  ASSUME NEW said, said = Said
  PROVE  /\ DOMAIN said = 1..Len(syntax.nodes)
         /\ \A n \in 1..Len(syntax.nodes) :
               /\ said[n].kind = KindOf(n) /\ said[n].kids = syntax.nodes[n].kids
               /\ said[n].name = TextOf(Kid(n, 1)) /\ said[n].value = LiteralValue(n)
               /\ said[n].op = KindOf(Kid(n, IF said[n].kind = "UNARY_EXPRESSION" THEN 1 ELSE 2))
               /\ said[n].typing = Typing[n] /\ said[n].meaning = Meaning[n]
<1>1. DOMAIN said = 1..Len(syntax.nodes)
  BY DEF Said
<1>2. ASSUME NEW n \in 1..Len(syntax.nodes)
      PROVE  /\ said[n].kind = KindOf(n) /\ said[n].kids = syntax.nodes[n].kids
             /\ said[n].name = TextOf(Kid(n, 1)) /\ said[n].value = LiteralValue(n)
             /\ said[n].op = KindOf(Kid(n, IF said[n].kind = "UNARY_EXPRESSION" THEN 1 ELSE 2))
             /\ said[n].typing = Typing[n] /\ said[n].meaning = Meaning[n]
  <2>1. said[n] = [ kind |-> KindOf(n), kids |-> syntax.nodes[n].kids, name |-> TextOf(Kid(n, 1)),
                    value |-> LiteralValue(n),
                    op |-> KindOf(Kid(n, IF KindOf(n) = "UNARY_EXPRESSION" THEN 1 ELSE 2)),
                    typing |-> Typing[n], meaning |-> Meaning[n] ]
    BY DEF Said
  <2> QED
    BY <2>1
<1> QED
  BY <1>1, <1>2

LEMMA SaidKept ==
  ASSUME syntax' = syntax
  PROVE  Said' = Said /\ Meaning' = Meaning
<1>1. Typing' = Typing
  BY TypingKept
<1>2. Meaning' = Meaning
  BY DEF Meaning, MeaningIn, KindOf, Kid, TextOf, LiteralValue
<1>3. Said' = Said
  BY <1>1, <1>2 DEF Said, KindOf, Kid, TextOf, LiteralValue
<1> QED
  BY <1>2, <1>3

\* Cells stay what they are of when others are added for a node s.
WithSource(source, old, new, s) == [ n \in 1..Len(new) |-> IF n \in 1..Len(old) THEN source[n] ELSE s ]

LEMMA SourcedKept ==
  ASSUME NEW said, NEW old \in Seq(Cell), Typed(old), NEW new \in Seq(Cell), Extends(old, new),
         NEW source, NEW after, \A m \in 1..Len(old) : after[m] = source[m],
         NEW n \in 1..Len(old), Sourced(said, old, source, n)
  PROVE  Sourced(said, new, after, n)
<1>1. new[n] = old[n] /\ after[n] = source[n]
  BY DEF Extends
<1>2. old[n].cell \in { "VARIABLE", "ASSIGNMENT" } => NameAt(new, n) = NameAt(old, n)
  BY NameKept
<1>3. \A m \in 1..n - 1 : after[m] = source[m]
  OBVIOUS
<1>4. CASE old[n].cell = "UNARY"
  <2>1. PICK op \in UnaryOperators, operand \in 1..n - 1 : old[n] = Unary(op, operand)
    BY <1>4, TakeApart
  <2>2. after[old[n].kids[1]] = source[old[n].kids[1]]
    BY <1>3, <2>1 DEF Unary
  <2> QED
    BY <1>1, <1>4, <2>2 DEF Sourced
<1>5. CASE old[n].cell = "BINARY"
  <2>1. PICK op \in BinaryOperators, left \in 1..n - 1, right \in 1..n - 1 : old[n] = Binary(op, left, right)
    BY <1>5, TakeApart
  <2>2. after[old[n].kids[1]] = source[old[n].kids[1]] /\ after[old[n].kids[2]] = source[old[n].kids[2]]
    BY <1>3, <2>1 DEF Binary
  <2> QED
    BY <1>1, <1>5, <2>2 DEF Sourced
<1>6. CASE old[n].cell = "ASSIGNMENT"
  <2>1. PICK symbol \in 1..n - 1, expression \in 1..n - 1 :
           old[n] = Assignment(symbol, expression, old[expression].type)
    BY <1>6, TakeApart
  <2>2. after[old[n].kids[2]] = source[old[n].kids[2]]
    BY <1>3, <2>1 DEF Assignment
  <2> QED
    BY <1>1, <1>2, <1>6, <2>2 DEF Sourced
<1>7. CASE old[n].cell \notin { "UNARY", "BINARY", "ASSIGNMENT" }
  BY <1>1, <1>2, <1>7 DEF Sourced
<1> QED
  BY <1>4, <1>5, <1>6, <1>7

LEMMA BuiltMore ==
  ASSUME NEW said, NEW old \in Seq(Cell), Typed(old), NEW new \in Seq(Cell), Extends(old, new),
         NEW source, Built(said, old, source), NEW s \in DOMAIN said,
         NEW after, after = WithSource(source, old, new, s),
         \A n \in 1..Len(new) : n \in 1..Len(old) \/ Sourced(said, new, after, n)
  PROVE  Built(said, new, after) /\ \A n \in 1..Len(old) : after[n] = source[n]
<1>1. \A n \in 1..Len(old) : n \in 1..Len(new)
  BY DEF Extends
<1>2. \A n \in 1..Len(old) : after[n] = source[n]
  BY <1>1 DEF WithSource
<1>3. after \in [ 1..Len(new) -> DOMAIN said ]
  BY DEF WithSource, Built
<1>4. \A n \in 1..Len(old) : Sourced(said, new, after, n)
  BY <1>2, SourcedKept DEF Built
<1> QED
  BY <1>2, <1>3, <1>4 DEF Built

\* A call more, and a call less.
LEMMA FramedMore ==
  ASSUME NEW tree, NEW said, NEW source, NEW calls \in Seq(BinderFrame), Framed(tree, said, source, calls),
         NEW frame \in BinderFrame, Binds(tree, said, source, frame, Requested(tree, calls, Len(calls) + 1))
  PROVE  /\ Framed(tree, said, source, Append(calls, frame))
         /\ Requested(tree, Append(calls, frame), Len(Append(calls, frame)) + 1) = Awaited(tree, frame)
<1>1. PICK size \in Nat : size = Len(calls)
  OBVIOUS
<1>2. PICK longer \in Seq(BinderFrame) :
         /\ longer = Append(calls, frame) /\ Len(longer) = size + 1
         /\ longer[size + 1] = frame /\ \A i \in 1..size : longer[i] = calls[i]
  <2>1. Append(calls, frame) \in Seq(BinderFrame)
    BY PushOne
  <2>2. /\ Len(Append(calls, frame)) = size + 1 /\ Append(calls, frame)[size + 1] = frame
        /\ \A i \in 1..size : Append(calls, frame)[i] = calls[i]
    BY <1>1, PushOne
  <2> QED
    BY <2>1, <2>2
<1>3. \A i \in 1..size + 1 : /\ i = 1 \/ i - 1 \in 1..size
                             /\ i = size + 1 \/ i \in 1..size
  OBVIOUS
<1>4. \A i \in 1..size + 1 : Requested(tree, longer, i) = Requested(tree, calls, i)
  BY <1>2, <1>3 DEF Requested
<1>5. Framed(tree, said, source, longer)
  BY <1>1, <1>2, <1>3, <1>4 DEF Framed
<1>6. Requested(tree, longer, size + 2) = Awaited(tree, frame)
  <2>1. size + 2 # 1 /\ size + 2 - 1 = size + 1
    OBVIOUS
  <2> QED
    BY <1>2, <2>1 DEF Requested
<1>7. Len(longer) + 1 = size + 2
  BY <1>2
<1> QED
  BY <1>2, <1>5, <1>6, <1>7

LEMMA FramedLess ==
  ASSUME NEW tree, NEW said, NEW source, NEW calls \in Seq(BinderFrame), calls # <<>>,
         Framed(tree, said, source, calls),
         NEW rest, rest = SubSeq(calls, 1, Len(calls) - 1), NEW top, top = calls[Len(calls)]
  PROVE  /\ Framed(tree, said, source, rest)
         /\ Binds(tree, said, source, top, Requested(tree, rest, Len(rest) + 1))
         /\ Requested(tree, calls, Len(calls) + 1) = Awaited(tree, top)
<1>1. PICK size \in Nat : size + 1 = Len(calls) /\ Len(calls) - 1 = size /\ Len(calls) + 1 = size + 2
  <2>1. Len(calls) \in Nat \ {0}
    BY PopOne
  <2> QED
    BY <2>1
<1>2. Len(rest) = size /\ \A i \in 1..size : rest[i] = calls[i]
  BY <1>1, PopOne
<1>3. /\ \A i \in 1..size + 1 : i = 1 \/ i - 1 \in 1..size
      /\ \A i \in 1..size : i \in 1..size + 1
      /\ size + 1 \in 1..size + 1 /\ size + 2 # 1 /\ size + 2 - 1 = size + 1
  OBVIOUS
<1>4. \A i \in 1..size + 1 : Requested(tree, rest, i) = Requested(tree, calls, i)
  BY <1>2, <1>3 DEF Requested
<1>5. Framed(tree, said, source, rest)
  BY <1>1, <1>2, <1>3, <1>4 DEF Framed
<1>6. Binds(tree, said, source, top, Requested(tree, rest, size + 1))
  <2>1. Binds(tree, said, source, calls[size + 1], Requested(tree, calls, size + 1))
    BY <1>1, <1>3 DEF Framed
  <2> QED
    BY <1>1, <1>3, <1>4, <2>1
<1>7. Requested(tree, calls, size + 2) = Awaited(tree, top)
  BY <1>1, <1>3 DEF Requested
<1> QED
  BY <1>1, <1>2, <1>5, <1>6, <1>7

LEMMA FramedKept ==
  ASSUME NEW tree, NEW said, NEW cells, NEW calls, \A i \in 1..Len(calls) : Waiting(tree, cells, calls[i]),
         NEW source, Framed(tree, said, source, calls),
         NEW after, \A n \in 1..Len(cells) : after[n] = source[n]
  PROVE  Framed(tree, said, after, calls)
<1>1. ASSUME NEW i \in 1..Len(calls), calls[i].fn = "right"
      PROVE  after[calls[i].held[1]] = source[calls[i].held[1]]
  <2>1. Waiting(tree, cells, calls[i])
    OBVIOUS
  <2>2. Builds(cells, calls[i].held[1])
    BY <1>1, <2>1 DEF Waiting
  <2> QED
    BY <2>2 DEF Builds
<1> QED
  BY <1>1 DEF Framed, Binds

\* What is to be shown of a step, and of one that is reported.
LEMMA MadeNow ==
  ASSUME syntax' = syntax, NEW said, said = Said,
         NEW source, Making(syntax, said, heap', source, binder', binder_stack')
  PROVE  MakingInv'
<1>1. Said' = said
  BY SaidKept
<1> QED
  BY <1>1 DEF MakingInv

\* A node that is answered with new cells at once.
LEMMA MakingAnswer ==
  ASSUME BinderInv, BinderInv', MakingInv, reports = <<>>, NEW kind, Binding(kind),
         Extends(heap, heap'), UNCHANGED << syntax, binder_stack >>,
         NEW m \in 1..Len(heap'), m \notin 1..Len(heap), binder' = Bound(m),
         \A said, source, n : said = Said /\ n \in 1..Len(heap') /\ n \notin 1..Len(heap)
                                 /\ source[n] = binder.node => Sourced(said, heap', source, n)
  PROVE  MakingInv'
<1>1. /\ IsSyntaxTree(syntax) /\ binder.node \in 1..Len(syntax.nodes) /\ binder.fn = "bind"
      /\ heap \in Seq(Cell) /\ Typed(heap) /\ heap' \in Seq(Cell)
      /\ \A i \in 1..Len(binder_stack) : Waiting(syntax, heap, binder_stack[i])
  <2>1. binder.fn = "bind"
    BY DEF Binding
  <2> QED
    BY <2>1 DEF BinderInv, BoundBy
<1>2. PICK said : said = Said
  OBVIOUS
<1>3. binder.node \in DOMAIN said
  BY <1>1, <1>2, SaidIs
<1>4. PICK source : Making(syntax, said, heap, source, binder, binder_stack)
  BY <1>2 DEF MakingInv
<1>5. PICK after : after = WithSource(source, heap, heap', binder.node)
  OBVIOUS
<1>6. ASSUME NEW n \in 1..Len(heap'), n \notin 1..Len(heap) PROVE Sourced(said, heap', after, n)
  <2>1. after[n] = binder.node
    BY <1>5, <1>6 DEF WithSource
  <2> QED
    BY <1>2, <1>6, <2>1
<1>7. Built(said, heap', after) /\ \A n \in 1..Len(heap) : after[n] = source[n]
  <2>1. Built(said, heap, source)
    BY <1>4 DEF Making
  <2> QED
    BY <1>1, <1>3, <1>5, <1>6, <2>1, BuiltMore
<1>8. Framed(syntax, said, after, binder_stack)
  <2>1. Framed(syntax, said, source, binder_stack)
    BY <1>4 DEF Making
  <2> QED
    BY <1>1, <1>7, <2>1, FramedKept
<1>9. after[m] = binder.node
  BY <1>5 DEF WithSource
<1>10. Same(said, binder.node, Requested(syntax, binder_stack, Len(binder_stack) + 1))
  BY <1>1, <1>4 DEF Making
<1>11. Making(syntax, said, heap', after, Bound(m), binder_stack)
  BY <1>7, <1>8, <1>9, <1>10 DEF Making, Bound
<1> QED
  BY <1>2, <1>11, MadeNow

\* A node that has to have a kid bound first.
LEMMA MakingSuspend ==
  ASSUME BinderInv, MakingInv, reports = <<>>, NEW kind, Binding(kind), UNCHANGED << syntax, heap >>,
         NEW fn \in { "unary", "left", "assignment" }, NEW kid,
         binder_stack' = Append(binder_stack, Await(fn, binder.node, <<>>)), binder' = Bind(kid),
         Awaited(syntax, Await(fn, binder.node, <<>>)) = kid
  PROVE  MakingInv'
<1>1. binder.fn = "bind" /\ binder_stack \in Seq(BinderFrame) /\ binder.node \in Nat
  BY DEF Binding, BinderInv, BoundBy, BinderCall
<1>2. PICK said, source : said = Said /\ Making(syntax, said, heap, source, binder, binder_stack)
  BY DEF MakingInv
<1>3. PICK frame \in BinderFrame : /\ frame = Await(fn, binder.node, <<>>) /\ frame.fn # "right"
                                   /\ frame.syntax = binder.node
  BY <1>1, AwaitIs
<1>4. Binds(syntax, said, source, frame, Requested(syntax, binder_stack, Len(binder_stack) + 1))
  BY <1>1, <1>2, <1>3 DEF Making, Binds
<1>5. Framed(syntax, said, source, binder_stack) /\ Built(said, heap, source)
  BY <1>2 DEF Making
<1>6. /\ Framed(syntax, said, source, Append(binder_stack, frame))
      /\ Requested(syntax, Append(binder_stack, frame), Len(Append(binder_stack, frame)) + 1) = kid
  BY <1>1, <1>3, <1>4, <1>5, FramedMore
<1>7. Making(syntax, said, heap, source, Bind(kid), Append(binder_stack, frame))
  BY <1>5, <1>6 DEF Making, Bind, Same
<1> QED
  BY <1>2, <1>3, <1>7, MadeNow

\* The steps that bind a node.
LEMMA BindLiteralMakes ==
  ASSUME BinderInv, BinderInv', MakingInv, reports = <<>>, BindLiteral PROVE MakingInv'
<1>1. Binding("LITERAL_EXPRESSION")
  BY DEF BindLiteral
<1>2. /\ IsSyntaxTree(syntax) /\ binder.node \in 1..Len(syntax.nodes)
      /\ KindOf(binder.node) = "LITERAL_EXPRESSION" /\ heap \in Seq(Cell)
  BY <1>1, BindingIs
<1>3. PICK value, size : value = LiteralValue(binder.node) /\ size = Len(heap) /\ size \in Nat
  BY <1>2
<1>4. /\ heap' = Append(heap, Literal(value)) /\ binder' = Bound(size + 1)
      /\ UNCHANGED << syntax, binder_stack >>
  BY <1>3 DEF BindLiteral, TreeUnchanged
<1>5. Extends(heap, heap') /\ heap'[size + 1] = Literal(value)
  BY <1>2, <1>3, <1>4, GrowByOne
<1>6. Len(heap') = size + 1
  BY <1>2, <1>3, <1>4
<1>7. /\ size + 1 \in 1..Len(heap') /\ size + 1 \notin 1..Len(heap)
      /\ \A n \in 1..Len(heap') : n \in 1..Len(heap) \/ n = size + 1
  BY <1>3, <1>6
<1>8. ASSUME NEW said, NEW source, said = Said, source[size + 1] = binder.node
      PROVE  Sourced(said, heap', source, size + 1)
  <2>1. said[binder.node].kind = "LITERAL_EXPRESSION" /\ said[binder.node].value = value
    BY <1>2, <1>3, <1>8, SaidIs
  <2> QED
    BY <1>5, <1>8, <2>1 DEF Sourced, Literal
<1> QED
  BY <1>1, <1>4, <1>5, <1>7, <1>8, MakingAnswer

LEMMA BindUnaryMakes ==
  ASSUME BinderInv, MakingInv, reports = <<>>, BindUnary PROVE MakingInv'
<1>1. Binding("UNARY_EXPRESSION")
  BY DEF BindUnary
<1>2. PICK kid : kid = Kid(binder.node, 2)
  OBVIOUS
<1>3. /\ binder_stack' = Append(binder_stack, Await("unary", binder.node, <<>>)) /\ binder' = Bind(kid)
      /\ UNCHANGED << syntax, heap >>
  BY <1>2 DEF BindUnary, TreeUnchanged
<1>4. Awaited(syntax, Await("unary", binder.node, <<>>)) = kid
  BY <1>2 DEF Awaited, Await, Kid
<1> QED
  BY <1>1, <1>3, <1>4, MakingSuspend

LEMMA BindBinaryMakes ==
  ASSUME BinderInv, MakingInv, reports = <<>>, BindBinary PROVE MakingInv'
<1>1. Binding("BINARY_EXPRESSION")
  BY DEF BindBinary
<1>2. PICK kid : kid = Kid(binder.node, 1)
  OBVIOUS
<1>3. /\ binder_stack' = Append(binder_stack, Await("left", binder.node, <<>>)) /\ binder' = Bind(kid)
      /\ UNCHANGED << syntax, heap >>
  BY <1>2 DEF BindBinary, TreeUnchanged
<1>4. Awaited(syntax, Await("left", binder.node, <<>>)) = kid
  BY <1>2 DEF Awaited, Await, Kid
<1> QED
  BY <1>1, <1>3, <1>4, MakingSuspend

LEMMA BindAssignmentMakes ==
  ASSUME BinderInv, MakingInv, reports = <<>>, BindAssignment PROVE MakingInv'
<1>1. Binding("ASSIGNMENT_EXPRESSION")
  BY DEF BindAssignment
<1>2. PICK kid : kid = Kid(binder.node, 3)
  OBVIOUS
<1>3. /\ binder_stack' = Append(binder_stack, Await("assignment", binder.node, <<>>)) /\ binder' = Bind(kid)
      /\ UNCHANGED << syntax, heap >>
  BY <1>2 DEF BindAssignment, TreeUnchanged
<1>4. Awaited(syntax, Await("assignment", binder.node, <<>>)) = kid
  BY <1>2 DEF Awaited, Await, Kid
<1> QED
  BY <1>1, <1>3, <1>4, MakingSuspend

\* Parentheses mean what is between them.
LEMMA BindParenthesizedMakes ==
  ASSUME BinderInv, MakingInv, reports = <<>>, BindParenthesized PROVE MakingInv'
<1>1. Binding("PARENTHESIZED_EXPRESSION") /\ binder.fn = "bind"
  BY DEF BindParenthesized, Binding
<1>2. /\ IsSyntaxTree(syntax) /\ binder.node \in 1..Len(syntax.nodes)
      /\ KindOf(binder.node) = "PARENTHESIZED_EXPRESSION"
  BY <1>1, BindingIs
<1>3. PICK n, kid, size : n = binder.node /\ kid = Kid(n, 2) /\ size = Len(syntax.nodes)
  OBVIOUS
<1>4. kid \in 1..size
  <2>1. PICK k \in Nat : k = n /\ n \in 1..size /\ size \in Nat
    BY <1>2, <1>3, KidsAreOlder
  <2>2. kid \in 1..n - 1
    BY <1>2, <1>3, KidsAreOlder
  <2> QED
    BY <2>1, <2>2
<1>5. Typing[n] = Typing[kid] /\ Meaning[n] = Meaning[kid]
  BY <1>2, <1>3, ParenthesizedTyping, ParenthesizedMeaning
<1>6. /\ binder' = Bind(kid) /\ UNCHANGED << syntax, heap, binder_stack >>
  BY <1>3 DEF BindParenthesized, TreeUnchanged
<1>7. PICK said, source : said = Said /\ Making(syntax, said, heap, source, binder, binder_stack)
  BY DEF MakingInv
<1>8. Same(said, kid, n)
  <2>1. said[n].typing = Typing[n] /\ said[n].meaning = Meaning[n]
    BY <1>2, <1>3, <1>7, SaidIs
  <2>2. said[kid].typing = Typing[kid] /\ said[kid].meaning = Meaning[kid]
    BY <1>3, <1>4, <1>7, SaidIs
  <2> QED
    BY <1>5, <2>1, <2>2 DEF Same
<1>9. Making(syntax, said, heap, source, Bind(kid), binder_stack)
  BY <1>1, <1>3, <1>7, <1>8 DEF Making, Bind, Same
<1> QED
  BY <1>6, <1>7, <1>9, MadeNow

LEMMA BindDeclaredNameMakes ==
  ASSUME BinderInv, BinderInv', MakingInv, reports = <<>>, BindDeclaredName PROVE MakingInv'
<1>1. Binding("NAME_EXPRESSION")
  BY DEF BindDeclaredName
<1>2. /\ IsSyntaxTree(syntax) /\ binder.node \in 1..Len(syntax.nodes)
      /\ KindOf(binder.node) = "NAME_EXPRESSION" /\ heap \in Seq(Cell)
  BY <1>1, BindingIs
<1>3. PICK name, type, size : /\ name = TextOf(Kid(binder.node, 1)) /\ type = heap[scope[name]].type
                              /\ size = Len(heap) /\ size \in Nat
  BY <1>2
<1>4. PICK symbol, variable : symbol = Symbol(name, type) /\ variable = Variable(size + 1, type)
  OBVIOUS
<1>5. /\ heap' = heap \o << symbol, variable >> /\ binder' = Bound(size + 2)
      /\ UNCHANGED << syntax, binder_stack >>
  BY <1>3, <1>4 DEF BindDeclaredName, TreeUnchanged
<1>6. Extends(heap, heap') /\ Len(heap') = size + 2
      /\ heap'[size + 1] = symbol /\ heap'[size + 2] = variable
  <2>1. PICK S : S = Cell \cup { symbol, variable }
    OBVIOUS
  <2>2. heap \in Seq(S) /\ symbol \in S /\ variable \in S
    BY <1>2, <2>1
  <2>3. Len(heap') = size + 2 /\ heap'[size + 1] = symbol /\ heap'[size + 2] = variable
    BY <1>3, <1>5, <2>2, PushTwo
  <2> QED
    BY <1>2, <1>5, <2>3, GrowByTwo
<1>7. /\ size + 2 \in 1..Len(heap') /\ size + 2 \notin 1..Len(heap)
      /\ \A n \in 1..Len(heap') : n \in 1..Len(heap) \/ n = size + 1 \/ n = size + 2
  BY <1>3, <1>6
<1>8. ASSUME NEW said, NEW source, said = Said, source[size + 2] = binder.node
      PROVE  Sourced(said, heap', source, size + 2)
  <2>1. said[binder.node].kind = "NAME_EXPRESSION" /\ said[binder.node].name = name
    BY <1>2, <1>3, <1>8, SaidIs
  <2>2. heap'[size + 2].cell = "VARIABLE" /\ NameAt(heap', size + 2) = name
    BY <1>4, <1>6 DEF NameAt, Variable, Symbol
  <2> QED
    BY <1>8, <2>1, <2>2 DEF Sourced
<1>9. ASSUME NEW said, NEW source PROVE Sourced(said, heap', source, size + 1)
  BY <1>4, <1>6 DEF Sourced, Symbol
<1> QED
  BY <1>1, <1>5, <1>6, <1>7, <1>8, <1>9, MakingAnswer

\* What a call that returns brings to the one that waits for it.
LEMMA ReturningMade ==
  ASSUME BinderInv, MakingInv, reports = <<>>, NEW fn, BinderReturning(fn)
  PROVE  \E said, source :
            /\ said = Said /\ Built(said, heap, source) /\ Framed(syntax, said, source, BinderPop)
            /\ Binds(syntax, said, source, BinderTop, Requested(syntax, BinderPop, Len(BinderPop) + 1))
            /\ Same(said, source[binder.node], Awaited(syntax, BinderTop))
<1>1. PICK said, source : said = Said /\ Making(syntax, said, heap, source, binder, binder_stack)
  BY DEF MakingInv
<1>2. binder.fn = "return" /\ binder_stack # <<>> /\ binder_stack \in Seq(BinderFrame)
  BY DEF BinderReturning, BinderInv, BoundBy
<1>3. /\ Built(said, heap, source) /\ Framed(syntax, said, source, binder_stack)
      /\ Same(said, source[binder.node], Requested(syntax, binder_stack, Len(binder_stack) + 1))
  BY <1>1, <1>2 DEF Making
<1>4. PICK rest, top : rest = BinderPop /\ top = BinderTop
  OBVIOUS
<1>5. rest = SubSeq(binder_stack, 1, Len(binder_stack) - 1) /\ top = binder_stack[Len(binder_stack)]
  BY <1>4 DEF BinderPop, BinderTop
<1>6. /\ Framed(syntax, said, source, rest)
      /\ Binds(syntax, said, source, top, Requested(syntax, rest, Len(rest) + 1))
      /\ Requested(syntax, binder_stack, Len(binder_stack) + 1) = Awaited(syntax, top)
  BY <1>2, <1>3, <1>5, FramedLess
<1> QED
  BY <1>1, <1>3, <1>4, <1>6

\* A call that returns with new cells in its turn.
LEMMA MakingReturn ==
  ASSUME BinderInv, BinderInv', MakingInv, reports = <<>>, NEW fn, BinderReturning(fn),
         Extends(heap, heap'), syntax' = syntax, binder_stack' = BinderPop,
         NEW m \in 1..Len(heap'), m \notin 1..Len(heap), binder' = Bound(m),
         \A said, source, n :
            /\ said = Said /\ n \in 1..Len(heap') /\ n \notin 1..Len(heap) /\ source[n] = BinderTop.syntax
            /\ Same(said, source[binder.node], Awaited(syntax, BinderTop))
            /\ fn = "right" => Same(said, source[BinderTop.held[1]], syntax.nodes[BinderTop.syntax].kids[1])
            => Sourced(said, heap', source, n)
  PROVE  MakingInv'
<1>1. /\ IsSyntaxTree(syntax) /\ heap \in Seq(Cell) /\ Typed(heap)
      /\ BinderTop.fn = fn /\ Builds(heap, binder.node)
      /\ Waiting(syntax, heap, BinderTop) /\ BoundBy(syntax, heap, scope, binder, BinderPop)
  BY ReturningIs
<1>2. PICK said, source :
         /\ said = Said /\ Built(said, heap, source) /\ Framed(syntax, said, source, BinderPop)
         /\ Binds(syntax, said, source, BinderTop, Requested(syntax, BinderPop, Len(BinderPop) + 1))
         /\ Same(said, source[binder.node], Awaited(syntax, BinderTop))
  BY ReturningMade
<1>3. PICK s : s = BinderTop.syntax
  OBVIOUS
<1>4. s \in DOMAIN said
  BY <1>1, <1>2, <1>3, SaidIs DEF Waiting
<1>5. PICK after : after = WithSource(source, heap, heap', s)
  OBVIOUS
<1>6. \A n \in 1..Len(heap) : after[n] = source[n]
  <2>1. \A n \in 1..Len(heap) : n \in 1..Len(heap')
    <3>1. PICK old \in Nat, new \in Nat : old = Len(heap) /\ new = Len(heap')
      BY <1>1 DEF BinderInv, BoundBy
    <3>2. old <= new
      BY <3>1 DEF Extends
    <3> QED
      BY <3>1, <3>2
  <2> QED
    BY <1>5, <2>1 DEF WithSource
<1>7. Same(said, after[binder.node], Awaited(syntax, BinderTop))
  BY <1>1, <1>2, <1>6 DEF Builds
<1>8. fn = "right" => Same(said, after[BinderTop.held[1]], syntax.nodes[BinderTop.syntax].kids[1])
  BY <1>1, <1>2, <1>6 DEF Binds, Waiting, Builds
<1>9. ASSUME NEW n \in 1..Len(heap'), n \notin 1..Len(heap) PROVE Sourced(said, heap', after, n)
  <2>1. after[n] = BinderTop.syntax
    BY <1>3, <1>5, <1>9 DEF WithSource
  <2> QED
    BY <1>2, <1>7, <1>8, <1>9, <2>1
<1>10. Built(said, heap', after)
  <2>1. heap' \in Seq(Cell)
    BY DEF BinderInv, BoundBy
  <2> QED
    BY <1>1, <1>2, <1>4, <1>5, <1>9, <2>1, BuiltMore
<1>11. Framed(syntax, said, after, BinderPop)
  <2>1. \A i \in 1..Len(BinderPop) : Waiting(syntax, heap, BinderPop[i])
    BY <1>1 DEF BoundBy
  <2> QED
    BY <1>2, <1>6, <2>1, FramedKept
<1>12. after[m] = s
  BY <1>5 DEF WithSource
<1>13. Same(said, s, Requested(syntax, BinderPop, Len(BinderPop) + 1))
  BY <1>2, <1>3 DEF Binds
<1>14. Making(syntax, said, heap', after, Bound(m), BinderPop)
  BY <1>10, <1>11, <1>12, <1>13 DEF Making, Bound
<1> QED
  BY <1>2, <1>14, MadeNow

\* The steps that return to a call that waits.
LEMMA FinishUnaryMakes ==
  ASSUME BinderInv, BinderInv', MakingInv, reports = <<>>, FinishUnary, reports' = <<>> PROVE MakingInv'
<1>1. BinderReturning("unary")
  BY DEF FinishUnary
<1>2. /\ IsSyntaxTree(syntax) /\ heap \in Seq(Cell) /\ reports \in Seq(BinderReports)
      /\ BinderTop.fn = "unary" /\ Waiting(syntax, heap, BinderTop)
  BY <1>1, ReturningIs
<1>3. PICK n \in 1..Len(syntax.nodes) : n = BinderTop.syntax /\ KindOf(n) = "UNARY_EXPRESSION"
  BY <1>2 DEF Waiting, KindBoundBy, Kind, KindOf
<1>4. PICK kind, matches : kind = KindOf(Kid(n, 1)) /\ matches = UnaryMatches(kind, heap[binder.node].type)
  OBVIOUS
<1>5. matches # {}
  <2> SUFFICES ASSUME matches = {} PROVE FALSE
    OBVIOUS
  <2>1. reports' = Append(reports, "undefined_unary_operator")
    BY <1>3, <1>4 DEF FinishUnary
  <2> QED
    BY <1>2, <2>1, AReport
<1>6. PICK op \in matches : heap' = Append(heap, Unary(op, binder.node))
  BY <1>3, <1>4, <1>5 DEF FinishUnary
<1>7. PICK size \in Nat : size = Len(heap)
  BY <1>2
<1>8. syntax' = syntax /\ binder_stack' = BinderPop /\ binder' = Bound(size + 1)
  BY <1>3, <1>4, <1>5, <1>7 DEF FinishUnary, TreeUnchanged
<1>9. Extends(heap, heap') /\ heap'[size + 1] = Unary(op, binder.node) /\ Len(heap') = size + 1
  BY <1>2, <1>6, <1>7, GrowByOne
<1>10. /\ size + 1 \in 1..Len(heap') /\ size + 1 \notin 1..Len(heap)
       /\ \A m \in 1..Len(heap') : m \in 1..Len(heap) \/ m = size + 1
  BY <1>7, <1>9
<1>11. ASSUME NEW said, NEW source, said = Said, source[size + 1] = BinderTop.syntax,
              Same(said, source[binder.node], Awaited(syntax, BinderTop))
       PROVE  Sourced(said, heap', source, size + 1)
  <2>1. said[n].kind = "UNARY_EXPRESSION" /\ said[n].kids = syntax.nodes[n].kids /\ said[n].op = kind
    BY <1>3, <1>4, <1>11, SaidIs
  <2>2. Awaited(syntax, BinderTop) = said[n].kids[2]
    BY <1>2, <1>3, <2>1 DEF Awaited
  <2>3. op \in UnaryOperators /\ op.syntax_kind = kind
    BY <1>4 DEF UnaryMatches
  <2>4. /\ heap'[size + 1].cell = "UNARY" /\ heap'[size + 1].kids[1] = binder.node
        /\ heap'[size + 1].op = op.kind
    BY <1>9 DEF Unary
  <2> QED
    BY <1>3, <1>11, <2>1, <2>2, <2>3, <2>4 DEF Sourced
<1> QED
  BY <1>1, <1>8, <1>9, <1>10, <1>11, MakingReturn

LEMMA FinishLeftMakes ==
  ASSUME BinderInv, MakingInv, reports = <<>>, FinishLeft PROVE MakingInv'
<1>1. BinderReturning("left")
  BY DEF FinishLeft
<1>2. /\ IsSyntaxTree(syntax) /\ binder.fn = "return" /\ Builds(heap, binder.node)
      /\ BinderPop \in Seq(BinderFrame) /\ heap \in Seq(Cell) /\ Len(heap) \in Nat
      /\ BinderTop.fn = "left" /\ Waiting(syntax, heap, BinderTop)
  BY <1>1, ReturningIs
<1>3. PICK n \in 1..Len(syntax.nodes) : n = BinderTop.syntax
  BY <1>2 DEF Waiting
<1>4. PICK said, source :
         /\ said = Said /\ Built(said, heap, source) /\ Framed(syntax, said, source, BinderPop)
         /\ Binds(syntax, said, source, BinderTop, Requested(syntax, BinderPop, Len(BinderPop) + 1))
         /\ Same(said, source[binder.node], Awaited(syntax, BinderTop))
  BY <1>1, ReturningMade
<1>5. PICK frame, kid : frame = Await("right", n, << binder.node >>) /\ kid = Kid(n, 3)
  OBVIOUS
<1>6. frame \in BinderFrame /\ frame.fn = "right" /\ frame.syntax = n /\ frame.held[1] = binder.node
  <2>1. << binder.node >> \in Seq(Pointer) /\ n \in Nat
    BY <1>2, KidsAreOlder DEF Builds, Pointer
  <2> QED
    BY <1>5, <2>1 DEF Await, BinderFrame
<1>7. /\ syntax' = syntax /\ heap' = heap /\ binder_stack' = Append(BinderPop, frame) /\ binder' = Bind(kid)
  BY <1>3, <1>5 DEF FinishLeft, TreeUnchanged
<1>8. Awaited(syntax, frame) = kid
  BY <1>5, <1>6 DEF Awaited, Kid
<1>9. Awaited(syntax, BinderTop) = syntax.nodes[n].kids[1]
  BY <1>2, <1>3 DEF Awaited
<1>10. Binds(syntax, said, source, frame, Requested(syntax, BinderPop, Len(BinderPop) + 1))
  BY <1>3, <1>4, <1>6, <1>9 DEF Binds
<1>11. /\ Framed(syntax, said, source, Append(BinderPop, frame))
       /\ Requested(syntax, Append(BinderPop, frame), Len(Append(BinderPop, frame)) + 1) = kid
  BY <1>2, <1>4, <1>6, <1>8, <1>10, FramedMore
<1>12. Making(syntax, said, heap, source, Bind(kid), Append(BinderPop, frame))
  BY <1>4, <1>11 DEF Making, Bind, Same
<1> QED
  BY <1>4, <1>7, <1>12, MadeNow

LEMMA FinishBinaryMakes ==
  ASSUME BinderInv, BinderInv', MakingInv, reports = <<>>, FinishBinary, reports' = <<>> PROVE MakingInv'
<1>1. BinderReturning("right")
  BY DEF FinishBinary
<1>2. /\ IsSyntaxTree(syntax) /\ heap \in Seq(Cell) /\ reports \in Seq(BinderReports)
      /\ BinderTop.fn = "right" /\ Waiting(syntax, heap, BinderTop)
  BY <1>1, ReturningIs
<1>3. PICK n \in 1..Len(syntax.nodes) : n = BinderTop.syntax /\ KindOf(n) = "BINARY_EXPRESSION"
  BY <1>2 DEF Waiting, KindBoundBy, Kind, KindOf
<1>4. PICK kind, left, matches :
         /\ kind = KindOf(Kid(n, 2)) /\ left = BinderTop.held[1]
         /\ matches = BinaryMatches(kind, heap[left].type, heap[binder.node].type)
  OBVIOUS
<1>5. matches # {}
  <2> SUFFICES ASSUME matches = {} PROVE FALSE
    OBVIOUS
  <2>1. reports' = Append(reports, "undefined_binary_operator")
    BY <1>3, <1>4 DEF FinishBinary, RejectOperands
  <2> QED
    BY <1>2, <2>1, AReport
<1>6. PICK op \in matches : heap' = Append(heap, Binary(op, left, binder.node))
  BY <1>3, <1>4, <1>5 DEF FinishBinary
<1>7. PICK size \in Nat : size = Len(heap)
  BY <1>2
<1>8. syntax' = syntax /\ binder_stack' = BinderPop /\ binder' = Bound(size + 1)
  BY <1>3, <1>4, <1>5, <1>7 DEF FinishBinary, TreeUnchanged
<1>9. Extends(heap, heap') /\ heap'[size + 1] = Binary(op, left, binder.node) /\ Len(heap') = size + 1
  BY <1>2, <1>6, <1>7, GrowByOne
<1>10. /\ size + 1 \in 1..Len(heap') /\ size + 1 \notin 1..Len(heap)
       /\ \A m \in 1..Len(heap') : m \in 1..Len(heap) \/ m = size + 1
  BY <1>7, <1>9
<1>11. ASSUME NEW said, NEW source, said = Said, source[size + 1] = BinderTop.syntax,
              Same(said, source[binder.node], Awaited(syntax, BinderTop)),
              Same(said, source[BinderTop.held[1]], syntax.nodes[BinderTop.syntax].kids[1])
       PROVE  Sourced(said, heap', source, size + 1)
  <2>1. said[n].kind = "BINARY_EXPRESSION" /\ said[n].kids = syntax.nodes[n].kids /\ said[n].op = kind
    BY <1>3, <1>4, <1>11, SaidIs
  <2>2. Awaited(syntax, BinderTop) = said[n].kids[3]
    BY <1>2, <1>3, <2>1 DEF Awaited
  <2>3. op \in BinaryOperators /\ op.syntax_kind = kind
    BY <1>4 DEF BinaryMatches
  <2>4. /\ heap'[size + 1].cell = "BINARY" /\ heap'[size + 1].op = op.kind
        /\ heap'[size + 1].kids[1] = left /\ heap'[size + 1].kids[2] = binder.node
    BY <1>9 DEF Binary
  <2> QED
    BY <1>3, <1>4, <1>11, <2>1, <2>2, <2>3, <2>4 DEF Sourced
<1> QED
  BY <1>1, <1>8, <1>9, <1>10, <1>11, MakingReturn

LEMMA FinishAssignmentMakes ==
  ASSUME BinderInv, BinderInv', MakingInv, reports = <<>>, FinishAssignment PROVE MakingInv'
<1>1. BinderReturning("assignment")
  BY DEF FinishAssignment
<1>2. /\ IsSyntaxTree(syntax) /\ heap \in Seq(Cell)
      /\ BinderTop.fn = "assignment" /\ Waiting(syntax, heap, BinderTop)
  BY <1>1, ReturningIs
<1>3. PICK n \in 1..Len(syntax.nodes) : n = BinderTop.syntax /\ KindOf(n) = "ASSIGNMENT_EXPRESSION"
  BY <1>2 DEF Waiting, KindBoundBy, Kind, KindOf
<1>4. PICK size \in Nat : size = Len(heap)
  BY <1>2
<1>5. PICK name, type, symbol, assignment :
         /\ name = TextOf(Kid(n, 1)) /\ type = heap[binder.node].type
         /\ symbol = Symbol(name, type) /\ assignment = Assignment(size + 1, binder.node, type)
  OBVIOUS
<1>6. /\ syntax' = syntax /\ binder_stack' = BinderPop /\ binder' = Bound(size + 3)
      /\ heap' = heap \o << symbol, symbol, assignment >>
  BY <1>3, <1>4, <1>5 DEF FinishAssignment, TreeUnchanged
<1>7. /\ Extends(heap, heap') /\ heap'[size + 1] = symbol /\ heap'[size + 2] = symbol
      /\ heap'[size + 3] = assignment
  BY <1>2, <1>4, <1>6, GrowByThree
<1>8. Len(heap') = size + 3
  <2>1. Len(<< symbol, symbol, assignment >>) = 3 /\ heap \in Seq(Cell \cup { symbol, assignment })
    BY <1>2
  <2> QED
    BY <1>4, <1>6, <2>1
<1>9. /\ size + 3 \in 1..Len(heap') /\ size + 3 \notin 1..Len(heap)
      /\ \A m \in 1..Len(heap') : m \in 1..Len(heap) \/ m = size + 1 \/ m = size + 2 \/ m = size + 3
  BY <1>4, <1>8
<1>10. ASSUME NEW said, NEW source, said = Said, source[size + 3] = BinderTop.syntax,
              Same(said, source[binder.node], Awaited(syntax, BinderTop))
       PROVE  Sourced(said, heap', source, size + 3)
  <2>1. said[n].kind = "ASSIGNMENT_EXPRESSION" /\ said[n].kids = syntax.nodes[n].kids /\ said[n].name = name
    BY <1>3, <1>5, <1>10, SaidIs
  <2>2. Awaited(syntax, BinderTop) = said[n].kids[3]
    BY <1>2, <1>3, <2>1 DEF Awaited
  <2>3. /\ heap'[size + 3].cell = "ASSIGNMENT" /\ heap'[size + 3].kids[2] = binder.node
        /\ NameAt(heap', size + 3) = name
    BY <1>5, <1>7 DEF Assignment, NameAt, Symbol
  <2> QED
    BY <1>3, <1>10, <2>1, <2>2, <2>3 DEF Sourced
<1>11. ASSUME NEW said, NEW source
       PROVE  Sourced(said, heap', source, size + 1) /\ Sourced(said, heap', source, size + 2)
  BY <1>5, <1>7 DEF Sourced, Symbol
<1> QED
  BY <1>1, <1>6, <1>7, <1>9, <1>10, <1>11, MakingReturn

LEMMA FinishGlobalScopeMakes ==
  ASSUME BinderInv, MakingInv, reports = <<>>, FinishGlobalScope PROVE MakingInv'
<1>1. /\ binder.fn = "return" /\ binder_stack' = binder_stack /\ heap' = heap /\ syntax' = syntax
      /\ binder'.fn = "done" /\ binder'.node = binder.node
  BY DEF FinishGlobalScope
<1>2. PICK said, source : said = Said /\ Making(syntax, said, heap, source, binder, binder_stack)
  BY DEF MakingInv
<1>3. Making(syntax, said, heap, source, binder', binder_stack)
  BY <1>1, <1>2 DEF Making
<1> QED
  BY <1>1, <1>2, <1>3, MadeNow

\* A step after a report, or with one, has nothing to show.
LEMMA MakingNextInv == BinderInv /\ MakingInv /\ BinderNext => MakingInv'
<1> SUFFICES ASSUME BinderInv, MakingInv, BinderNext, reports' = <<>> PROVE MakingInv'
  BY DEF MakingInv
<1>1. BinderInv'
  BY BinderNextInv
<1>2. reports = <<>>
  <2>1. reports' = reports \/ \E report : reports' = Append(reports, report)
    BY DEF BinderNext, BindLiteral, BindUnary, BindBinary, BindParenthesized, BindDeclaredName,
           BindUndefinedName, BindAssignment, FinishUnary, FinishLeft, FinishBinary, RejectOperands,
           FinishAssignment, TryDeclare, FinishGlobalScope
  <2> QED
    BY <2>1, AReport DEF BinderInv
<1>3. CASE BindUndefinedName
  <2>1. reports' = Append(reports, "undefined_name")
    BY <1>3 DEF BindUndefinedName
  <2> QED
    BY <2>1, AReport DEF BinderInv
<1> QED
  BY <1>1, <1>2, <1>3, BindLiteralMakes, BindUnaryMakes, BindBinaryMakes, BindParenthesizedMakes,
     BindDeclaredNameMakes, BindAssignmentMakes, FinishUnaryMakes, FinishLeftMakes,
     FinishBinaryMakes, FinishAssignmentMakes, FinishGlobalScopeMakes DEF BinderNext

--------------------------------------------------------------------------------
(* What was made, and the steps of a session.                                   *)

Made == phase # "ready" => MakingInv

\* There are no cells when the whole is asked for.
LEMMA SubmitMakes == \A tree : IsSyntaxTree(tree) /\ Submit(tree) => MakingInv'
<1> SUFFICES ASSUME NEW tree, IsSyntaxTree(tree), Submit(tree) PROVE MakingInv'
  OBVIOUS
<1>1. /\ syntax' = tree /\ heap' = <<>> /\ binder_stack' = <<>>
      /\ binder' = Bind(tree.nodes[tree.root].kids[1])
  BY DEF Submit, BindGlobalScope
<1>2. PICK said : said = Said'
  OBVIOUS
<1>3. PICK source : source = [ n \in {} |-> n ]
  OBVIOUS
<1>4. Built(said, <<>>, source) /\ Framed(tree, said, source, <<>>)
  <2>1. 1..Len(<<>>) = {} /\ source \in [ {} -> DOMAIN said ]
    BY <1>3
  <2> QED
    BY <2>1 DEF Built, Framed
<1>5. Requested(tree, <<>>, Len(<<>>) + 1) = tree.nodes[tree.root].kids[1]
  <2>1. Len(<<>>) + 1 = 1
    OBVIOUS
  <2> QED
    BY <2>1 DEF Requested
<1>6. Making(tree, said, <<>>, source, Bind(tree.nodes[tree.root].kids[1]), <<>>)
  BY <1>4, <1>5 DEF Making, Bind, Same
<1> QED
  BY <1>1, <1>2, <1>6 DEF MakingInv

LEMMA MakingKept ==
  MakingInv /\ UNCHANGED << heap, syntax, reports, binder, binder_stack >> => MakingInv'
<1> SUFFICES ASSUME MakingInv, UNCHANGED << heap, syntax, reports, binder, binder_stack >> PROVE MakingInv'
  OBVIOUS
<1>1. Said' = Said
  BY SaidKept
<1> QED
  BY <1>1 DEF MakingInv

LEMMA MadeNext == CompilationInv /\ Made /\ [Next]_vars => Made'
<1> SUFFICES ASSUME CompilationInv, Made, [Next]_vars PROVE Made'
  OBVIOUS
<1>1. CASE \E tree \in Trees : Submit(tree)
  BY <1>1, TreesAssumption, SubmitMakes DEF Made
<1>2. CASE BindStep
  <2>1. phase = "binding" /\ phase' = "binding" /\ BinderNext
    BY <1>2 DEF BindStep
  <2> QED
    BY <2>1, MakingNextInv DEF Made, CompilationInv
<1>3. CASE AnswerWithReports \/ StartEvaluator \/ AnswerWithValue
  <2>1. phase # "ready" /\ UNCHANGED << heap, syntax, reports, binder, binder_stack >>
    BY <1>3 DEF AnswerWithReports, StartEvaluator, AnswerWithValue, binder_vars
  <2> QED
    BY <2>1, MakingKept DEF Made
<1>4. CASE EvaluateStep
  <2>1. phase # "ready" /\ UNCHANGED << heap, syntax, reports, binder, binder_stack >>
    BY <1>4, EvaluatorKeepsTree DEF EvaluateStep
  <2> QED
    BY <2>1, MakingKept DEF Made
<1>5. CASE PrintResult
  BY <1>5 DEF PrintResult, Made
<1>6. CASE UNCHANGED vars
  BY <1>6, MakingKept DEF vars, binder_vars, Made
<1> QED
  BY <1>1, <1>2, <1>3, <1>4, <1>5, <1>6 DEF Next, CompilationStep

--------------------------------------------------------------------------------
(* What is evaluated, against what it means.                                    *)

\* What becomes of the whole where one of its parts means m.
Leads(root, m) == (m.value = Trap => root.value = Trap) /\ DOMAIN m.env \subseteq DOMAIN root.env

LEMMA HasMeaning ==
  ASSUME IsSyntaxTree(syntax), syntax.diagnostics = <<>>, NEW n \in 1..Len(syntax.nodes),
         NEW env \in Environments(Objects), NEW typing, typing = Typing[n][TypesIn(env)], typing.ok
  PROVE  \E value \in Objects \cup { Trap }, after \in Environments(Objects) :
            Meaning[n][env] = Answer(value, after) /\ Sound(typing, env, value, after)
<1>1. MeansWell(n)
  BY MeaningIsSound
<1> QED
  BY <1>1 DEF MeansWell, Means

\* A node that is all right has kids that are, and a trap in one of them is a trap of it.
LEMMA UnaryLeads ==
  ASSUME IsSyntaxTree(syntax), syntax.diagnostics = <<>>, NEW n \in 1..Len(syntax.nodes),
         KindOf(n) = "UNARY_EXPRESSION", NEW env \in Environments(Objects), Typing[n][TypesIn(env)].ok,
         NEW kid, kid = Kid(n, 2)
  PROVE  Typing[kid][TypesIn(env)].ok /\ Leads(Meaning[n][env], Meaning[kid][env])
<1>1. PICK types \in Environments(ObjectTypes) : types = TypesIn(env)
  BY TypesAreTypes
<1>2. PICK typing, operand, kind, signature :
         /\ typing = Typing[n][types] /\ operand = Typing[kid][types] /\ kind = KindOf(Kid(n, 1))
         /\ signature = Signature(kind, << operand.type >>)
  OBVIOUS
<1>3. operand.ok
  BY <1>1, <1>2, UnaryTyping
<1>4. kid \in 1..Len(syntax.nodes)
  BY KidsAreOlder
<1>5. PICK value \in Objects \cup { Trap }, after \in Environments(Objects) : Meaning[kid][env] = Answer(value, after)
  BY <1>1, <1>2, <1>3, <1>4, HasMeaning
<1>6. Meaning[n][env] = IF value = Trap \/ kind = "PLUS_TOKEN" THEN Answer(value, after)
                        ELSE IF kind = "BANG_TOKEN" THEN Answer(Bool(~value.bool), after)
                        ELSE Answer(Int64(Wrap(0 - value.i64)), after)
  BY <1>2, <1>5, UnaryMeaning
<1>7. Meaning[n][env].env = after /\ (value = Trap => Meaning[n][env].value = Trap)
  BY <1>6 DEF Answer
<1>8. Leads(Meaning[n][env], Answer(value, after))
  BY <1>7 DEF Leads, Answer
<1> QED
  BY <1>1, <1>2, <1>3, <1>5, <1>8

LEMMA AssignmentLeads ==
  ASSUME IsSyntaxTree(syntax), syntax.diagnostics = <<>>, NEW n \in 1..Len(syntax.nodes),
         KindOf(n) = "ASSIGNMENT_EXPRESSION", NEW env \in Environments(Objects), Typing[n][TypesIn(env)].ok,
         NEW kid, kid = Kid(n, 3)
  PROVE  Typing[kid][TypesIn(env)].ok /\ Leads(Meaning[n][env], Meaning[kid][env])
<1>1. PICK types \in Environments(ObjectTypes) : types = TypesIn(env)
  BY TypesAreTypes
<1>2. PICK typing, right, name : typing = Typing[n][types] /\ right = Typing[kid][types] /\ name = TextOf(Kid(n, 1))
  OBVIOUS
<1>3. right.ok
  BY <1>1, <1>2, AssignmentTyping
<1>4. kid \in 1..Len(syntax.nodes)
  BY KidsAreOlder
<1>5. PICK value \in Objects \cup { Trap }, after \in Environments(Objects) : Meaning[kid][env] = Answer(value, after)
  BY <1>1, <1>2, <1>3, <1>4, HasMeaning
<1>6. Meaning[n][env] = IF value = Trap THEN Answer(value, after) ELSE Answer(value, Extended(after, name, value))
  BY <1>2, <1>5, AssignmentMeaning
<1>7. DOMAIN after \subseteq DOMAIN Extended(after, name, value)
  BY DEF Extended
<1>8. Meaning[n][env].value = value /\ DOMAIN after \subseteq DOMAIN Meaning[n][env].env
  BY <1>6, <1>7 DEF Answer
<1>9. Leads(Meaning[n][env], Answer(value, after))
  BY <1>8 DEF Leads, Answer
<1> QED
  BY <1>1, <1>2, <1>3, <1>5, <1>9

LEMMA LeftLeads ==
  ASSUME IsSyntaxTree(syntax), syntax.diagnostics = <<>>, NEW n \in 1..Len(syntax.nodes),
         KindOf(n) = "BINARY_EXPRESSION", NEW env \in Environments(Objects), Typing[n][TypesIn(env)].ok,
         NEW kid, kid = Kid(n, 1), NEW other, other = Kid(n, 3)
  PROVE  /\ Typing[kid][TypesIn(env)].ok /\ Leads(Meaning[n][env], Meaning[kid][env])
         /\ \A value, after : Meaning[kid][env] = Answer(value, after) /\ value # Trap =>
               /\ after \in Environments(Objects) /\ Typing[other][TypesIn(after)].ok
               /\ Leads(Meaning[n][env], Meaning[other][after])
<1>1. PICK types \in Environments(ObjectTypes) : types = TypesIn(env)
  BY TypesAreTypes
<1>2. PICK left : left = Typing[kid][types]
  OBVIOUS
<1>3. PICK typing, right, kind, signature :
         /\ typing = Typing[n][types] /\ right = Typing[other][left.env] /\ kind = KindOf(Kid(n, 2))
         /\ signature = Signature(kind, << left.type, right.type >>)
  OBVIOUS
<1>4. left.ok /\ right.ok
  BY <1>1, <1>2, <1>3, BinaryTyping
<1>5. kid \in 1..Len(syntax.nodes) /\ other \in 1..Len(syntax.nodes)
  BY KidsAreOlder
<1>6. PICK value \in Objects \cup { Trap }, after \in Environments(Objects) :
         Meaning[kid][env] = Answer(value, after) /\ Sound(left, env, value, after)
  BY <1>1, <1>2, <1>4, <1>5, HasMeaning
<1>7. CASE value = Trap
  <2>1. Meaning[n][env] = Answer(Trap, after)
    BY <1>6, <1>7, BinaryMeaningTraps
  <2>2. \A any, last : Meaning[kid][env] = Answer(any, last) => any = Trap
    BY <1>6, <1>7 DEF Answer
  <2>3. Leads(Meaning[n][env], Meaning[kid][env])
    BY <1>6, <1>7, <2>1 DEF Leads, Answer
  <2> QED
    BY <1>1, <1>2, <1>4, <2>2, <2>3
<1>8. CASE value # Trap
  <2>1. TypesIn(after) = left.env
    BY <1>6, <1>8 DEF Sound
  <2>2. Typing[other][TypesIn(after)].ok
    BY <1>3, <1>4, <2>1
  <2>3. PICK next \in Objects \cup { Trap }, last \in Environments(Objects) :
           Meaning[other][after] = Answer(next, last) /\ DOMAIN after \subseteq DOMAIN last
    BY <1>3, <1>5, <2>1, <2>2, HasMeaning DEF Sound
  <2>4. PICK x : x = IF next = Trap THEN next ELSE Apply(kind, value, next)
    OBVIOUS
  <2>5. Meaning[n][env] = Answer(x, last)
    <3>1. Meaning[Kid(n, 1)][env] = Answer(value, after) /\ Meaning[Kid(n, 3)][after] = Answer(next, last)
      BY <1>6, <2>3
    <3> QED
      BY <1>3, <1>8, <2>4, <3>1, BinaryMeaning
  <2>6. Leads(Meaning[n][env], Meaning[kid][env])
    BY <1>6, <1>8, <2>3, <2>5 DEF Leads, Answer
  <2>7. Leads(Meaning[n][env], Meaning[other][after])
    BY <2>3, <2>4, <2>5 DEF Leads, Answer
  <2>8. ASSUME NEW any, NEW later, Meaning[kid][env] = Answer(any, later) PROVE later = after
    BY <1>6, <2>8 DEF Answer
  <2> QED
    BY <1>1, <1>2, <1>4, <2>2, <2>6, <2>7, <2>8
<1> QED
  BY <1>7, <1>8

\* The kind of an operator is that of one token alone.
LEMMA OneToken ==
  /\ \A op, other \in UnaryOperators : op.kind = other.kind => op.syntax_kind = other.syntax_kind
  /\ \A op, other \in BinaryOperators : op.kind = other.kind => op.syntax_kind = other.syntax_kind
<1>1. \A op, other \in UnaryOperators : op.kind = other.kind => op.syntax_kind = other.syntax_kind
  BY DEF UnaryOperators, UnaryOperator
<1>2. \A op \in BinaryOperators :
         op.syntax_kind = CASE op.kind = "ADDITION" -> "PLUS_TOKEN" [] op.kind = "SUBTRACTION" -> "MINUS_TOKEN"
                            [] op.kind = "MULTIPLICATION" -> "STAR_TOKEN" [] op.kind = "DIVISION" -> "SLASH_TOKEN"
                            [] op.kind = "LOGICAL_AND" -> "AMPERSAND_AMPERSAND_TOKEN"
                            [] op.kind = "LOGICAL_OR" -> "PIPE_PIPE_TOKEN"
                            [] op.kind = "EQUALITY" -> "EQUALS_EQUALS_TOKEN"
                            [] op.kind = "INEQUALITY" -> "BANG_EQUALS_TOKEN"
  BY DEF BinaryOperators, BinaryOperator
<1> QED
  BY <1>1, <1>2

\* A bound tree of which is known what each cell was bound to.
Readable(said, source) ==
    /\ IsSyntaxTree(syntax) /\ syntax.diagnostics = <<>> /\ said = Said
    /\ heap \in Seq(Cell) /\ Typed(heap) /\ Built(said, heap, source)

\* What a cell means with the variables as they are, and when that may be asked.
MeansAt(said, source, n, env) == said[source[n]].meaning[env]
Fits(said, source, root, n, env) ==
    /\ n \in 1..Len(heap) /\ env \in Environments(Objects)
    /\ said[source[n]].typing[TypesIn(env)].ok
    /\ Leads(root, MeansAt(said, source, n, env))

LEMMA SourceIs ==
  ASSUME NEW said, NEW source, Readable(said, source), NEW n \in 1..Len(heap)
  PROVE  /\ source[n] \in 1..Len(syntax.nodes) /\ Sourced(said, heap, source, n)
         /\ said[source[n]].typing = Typing[source[n]] /\ said[source[n]].meaning = Meaning[source[n]]
<1>1. source[n] \in 1..Len(syntax.nodes)
  BY SaidIs DEF Readable, Built
<1> QED
  BY <1>1, SaidIs DEF Readable, Built

LEMMA LeadsOn ==
  ASSUME NEW root, NEW m, NEW k, Leads(root, m), Leads(m, k) PROVE Leads(root, k)
BY DEF Leads

LEMMA UnaryCell ==
  ASSUME NEW said, NEW source, Readable(said, source), NEW n \in 1..Len(heap), heap[n].cell = "UNARY",
         NEW kid, kid = heap[n].kids[1]
  PROVE  \E s \in 1..Len(syntax.nodes) :
            /\ s = source[n] /\ KindOf(s) = "UNARY_EXPRESSION" /\ kid \in 1..Len(heap)
            /\ said[source[kid]].typing = Typing[Kid(s, 2)] /\ said[source[kid]].meaning = Meaning[Kid(s, 2)]
            /\ \E op \in UnaryOperators : op.kind = heap[n].op /\ op.syntax_kind = KindOf(Kid(s, 1))
<1>1. PICK s \in 1..Len(syntax.nodes) : s = source[n] /\ Sourced(said, heap, source, n)
  BY SourceIs
<1>2. /\ said[s].kind = "UNARY_EXPRESSION" /\ Same(said, source[kid], said[s].kids[2])
      /\ \E op \in UnaryOperators : op.kind = heap[n].op /\ op.syntax_kind = said[s].op
  BY <1>1 DEF Sourced
<1>3. said[s].kind = KindOf(s) /\ said[s].kids = syntax.nodes[s].kids /\ said[s].op = KindOf(Kid(s, 1))
  BY <1>1, <1>2, SaidIs DEF Readable
<1>4. Kid(s, 2) \in 1..Len(syntax.nodes)
  BY <1>2, <1>3, KidsAreOlder DEF Readable
<1>5. said[Kid(s, 2)].typing = Typing[Kid(s, 2)] /\ said[Kid(s, 2)].meaning = Meaning[Kid(s, 2)]
  BY <1>4, SaidIs DEF Readable
<1>6. Same(said, source[kid], Kid(s, 2))
  BY <1>2, <1>3 DEF Kid
<1>7. kid \in 1..Len(heap)
  <2>1. heap \in Seq(Cell) /\ Typed(heap)
    BY DEF Readable
  <2>2. PICK op \in UnaryOperators, operand \in 1..n - 1 : heap[n] = Unary(op, operand) /\ Builds(heap, operand)
    BY <2>1, TakeApart
  <2> QED
    BY <2>2 DEF Unary, Builds
<1> QED
  BY <1>1, <1>2, <1>3, <1>5, <1>6, <1>7 DEF Same

LEMMA UnaryAsks ==
  ASSUME NEW said, NEW source, Readable(said, source), NEW root, NEW n, NEW env,
         Fits(said, source, root, n, env), heap[n].cell = "UNARY", NEW kid, kid = heap[n].kids[1]
  PROVE  Fits(said, source, root, kid, env)
<1>1. /\ n \in 1..Len(heap) /\ env \in Environments(Objects) /\ IsSyntaxTree(syntax) /\ syntax.diagnostics = <<>>
      /\ said[source[n]].typing = Typing[source[n]] /\ said[source[n]].meaning = Meaning[source[n]]
  BY SourceIs DEF Fits, Readable
<1>2. PICK s \in 1..Len(syntax.nodes) :
         /\ s = source[n] /\ KindOf(s) = "UNARY_EXPRESSION" /\ kid \in 1..Len(heap)
         /\ said[source[kid]].typing = Typing[Kid(s, 2)] /\ said[source[kid]].meaning = Meaning[Kid(s, 2)]
  BY <1>1, UnaryCell
<1>3. Typing[s][TypesIn(env)].ok /\ Leads(root, Meaning[s][env])
  BY <1>1, <1>2 DEF Fits, MeansAt
<1>4. Typing[Kid(s, 2)][TypesIn(env)].ok /\ Leads(Meaning[s][env], Meaning[Kid(s, 2)][env])
  BY <1>1, <1>2, <1>3, UnaryLeads
<1>5. Leads(root, Meaning[Kid(s, 2)][env])
  BY <1>3, <1>4, LeadsOn
<1> QED
  BY <1>1, <1>2, <1>4, <1>5 DEF Fits, MeansAt

LEMMA UnaryAnswers ==
  ASSUME NEW said, NEW source, Readable(said, source), NEW root, NEW n, NEW env,
         Fits(said, source, root, n, env),
         NEW op \in UnaryOperators, NEW kid, heap[n] = Unary(op, kid),
         NEW value \in Objects, value.type = op.operand_type,
         NEW after, MeansAt(said, source, kid, env) = Answer(value, after),
         NEW x, x = IF op.kind = "IDENTITY" THEN value ELSE UnaryResult(op.kind, value)
  PROVE  MeansAt(said, source, n, env) = Answer(x, after)
<1>1. /\ n \in 1..Len(heap) /\ env \in Environments(Objects) /\ IsSyntaxTree(syntax)
      /\ said[source[n]].meaning = Meaning[source[n]]
  BY SourceIs DEF Fits, Readable
<1>2. heap[n].cell = "UNARY" /\ heap[n].kids[1] = kid /\ heap[n].op = op.kind
  BY DEF Unary
<1>3. PICK s \in 1..Len(syntax.nodes) :
         /\ s = source[n] /\ KindOf(s) = "UNARY_EXPRESSION" /\ said[source[kid]].meaning = Meaning[Kid(s, 2)]
         /\ \E other \in UnaryOperators : other.kind = op.kind /\ other.syntax_kind = KindOf(Kid(s, 1))
  BY <1>1, <1>2, UnaryCell
<1>4. PICK kind : kind = KindOf(Kid(s, 1)) /\ kind = op.syntax_kind
  BY <1>3, OneToken
<1>5. Meaning[Kid(s, 2)][env] = Answer(value, after)
  BY <1>3 DEF MeansAt
<1>6. Meaning[s][env] = IF value = Trap \/ kind = "PLUS_TOKEN" THEN Answer(value, after)
                        ELSE IF kind = "BANG_TOKEN" THEN Answer(Bool(~value.bool), after)
                        ELSE Answer(Int64(Wrap(0 - value.i64)), after)
  BY <1>1, <1>3, <1>4, <1>5, UnaryMeaning
<1>7. Meaning[s][env] = Answer(OperandMeaning(kind, value), after)
  BY <1>6, TrapIsNoObject DEF OperandMeaning
<1>8. OperandMeaning(kind, value) = x
  BY <1>4, OperandIs
<1> QED
  BY <1>1, <1>3, <1>7, <1>8 DEF MeansAt

LEMMA AssignmentCell ==
  ASSUME NEW said, NEW source, Readable(said, source), NEW n \in 1..Len(heap), heap[n].cell = "ASSIGNMENT",
         NEW kid, kid = heap[n].kids[2]
  PROVE  \E s \in 1..Len(syntax.nodes) :
            /\ s = source[n] /\ KindOf(s) = "ASSIGNMENT_EXPRESSION" /\ kid \in 1..Len(heap)
            /\ said[source[kid]].typing = Typing[Kid(s, 3)] /\ said[source[kid]].meaning = Meaning[Kid(s, 3)]
            /\ NameAt(heap, n) = TextOf(Kid(s, 1))
<1>1. PICK s \in 1..Len(syntax.nodes) : s = source[n] /\ Sourced(said, heap, source, n)
  BY SourceIs
<1>2. /\ said[s].kind = "ASSIGNMENT_EXPRESSION" /\ Same(said, source[kid], said[s].kids[3])
      /\ NameAt(heap, n) = said[s].name
  BY <1>1 DEF Sourced
<1>3. said[s].kind = KindOf(s) /\ said[s].kids = syntax.nodes[s].kids /\ said[s].name = TextOf(Kid(s, 1))
  BY <1>1, <1>2, SaidIs DEF Readable
<1>4. Kid(s, 3) \in 1..Len(syntax.nodes)
  BY <1>2, <1>3, KidsAreOlder DEF Readable
<1>5. said[Kid(s, 3)].typing = Typing[Kid(s, 3)] /\ said[Kid(s, 3)].meaning = Meaning[Kid(s, 3)]
  BY <1>4, SaidIs DEF Readable
<1>6. Same(said, source[kid], Kid(s, 3))
  BY <1>2, <1>3 DEF Kid
<1>7. kid \in 1..Len(heap)
  <2>1. heap \in Seq(Cell) /\ Typed(heap)
    BY DEF Readable
  <2>2. PICK symbol \in 1..n - 1, expression \in 1..n - 1 :
           heap[n] = Assignment(symbol, expression, heap[expression].type) /\ Builds(heap, expression)
    BY <2>1, TakeApart
  <2> QED
    BY <2>2 DEF Assignment, Builds
<1> QED
  BY <1>1, <1>2, <1>3, <1>5, <1>6, <1>7 DEF Same

LEMMA AssignmentAsks ==
  ASSUME NEW said, NEW source, Readable(said, source), NEW root, NEW n, NEW env,
         Fits(said, source, root, n, env), heap[n].cell = "ASSIGNMENT", NEW kid, kid = heap[n].kids[2]
  PROVE  Fits(said, source, root, kid, env)
<1>1. /\ n \in 1..Len(heap) /\ env \in Environments(Objects) /\ IsSyntaxTree(syntax) /\ syntax.diagnostics = <<>>
      /\ said[source[n]].typing = Typing[source[n]] /\ said[source[n]].meaning = Meaning[source[n]]
  BY SourceIs DEF Fits, Readable
<1>2. PICK s \in 1..Len(syntax.nodes) :
         /\ s = source[n] /\ KindOf(s) = "ASSIGNMENT_EXPRESSION" /\ kid \in 1..Len(heap)
         /\ said[source[kid]].typing = Typing[Kid(s, 3)] /\ said[source[kid]].meaning = Meaning[Kid(s, 3)]
  BY <1>1, AssignmentCell
<1>3. Typing[s][TypesIn(env)].ok /\ Leads(root, Meaning[s][env])
  BY <1>1, <1>2 DEF Fits, MeansAt
<1>4. Typing[Kid(s, 3)][TypesIn(env)].ok /\ Leads(Meaning[s][env], Meaning[Kid(s, 3)][env])
  BY <1>1, <1>2, <1>3, AssignmentLeads
<1>5. Leads(root, Meaning[Kid(s, 3)][env])
  BY <1>3, <1>4, LeadsOn
<1> QED
  BY <1>1, <1>2, <1>4, <1>5 DEF Fits, MeansAt

LEMMA AssignmentAnswers ==
  ASSUME NEW said, NEW source, Readable(said, source), NEW root, NEW n, NEW env,
         Fits(said, source, root, n, env), heap[n].cell = "ASSIGNMENT", NEW kid, kid = heap[n].kids[2],
         NEW value \in Objects, NEW after, MeansAt(said, source, kid, env) = Answer(value, after)
  PROVE  MeansAt(said, source, n, env) = Answer(value, Extended(after, NameAt(heap, n), value))
<1>1. /\ n \in 1..Len(heap) /\ env \in Environments(Objects) /\ IsSyntaxTree(syntax)
      /\ said[source[n]].meaning = Meaning[source[n]]
  BY SourceIs DEF Fits, Readable
<1>2. PICK s \in 1..Len(syntax.nodes) :
         /\ s = source[n] /\ KindOf(s) = "ASSIGNMENT_EXPRESSION" /\ said[source[kid]].meaning = Meaning[Kid(s, 3)]
         /\ NameAt(heap, n) = TextOf(Kid(s, 1))
  BY <1>1, AssignmentCell
<1>3. Meaning[Kid(s, 3)][env] = Answer(value, after)
  BY <1>2 DEF MeansAt
<1>4. Meaning[s][env] = Answer(value, Extended(after, TextOf(Kid(s, 1)), value))
  <2>1. /\ KindOf(s) = "ASSIGNMENT_EXPRESSION" /\ env \in Environments(Objects) /\ value # Trap
        /\ IsSyntaxTree(syntax)
    BY <1>1, <1>2, TrapIsNoObject
  <2>2. PICK any, last : any = value /\ last = after
    OBVIOUS
  <2>3. Meaning[Kid(s, 3)][env] = Answer(any, last)
    BY <1>3, <2>2
  <2>4. Meaning[s][env] = IF any = Trap THEN Answer(any, last)
                          ELSE Answer(any, Extended(last, TextOf(Kid(s, 1)), any))
    BY <2>1, <2>3, AssignmentMeaning
  <2> QED
    BY <2>1, <2>2, <2>4
<1> QED
  BY <1>1, <1>2, <1>4 DEF MeansAt

LEMMA BinaryCell ==
  ASSUME NEW said, NEW source, Readable(said, source), NEW n \in 1..Len(heap), heap[n].cell = "BINARY",
         NEW kid, kid = heap[n].kids[1], NEW next, next = heap[n].kids[2]
  PROVE  \E s \in 1..Len(syntax.nodes) :
            /\ s = source[n] /\ KindOf(s) = "BINARY_EXPRESSION" /\ kid \in 1..Len(heap) /\ next \in 1..Len(heap)
            /\ said[source[kid]].typing = Typing[Kid(s, 1)] /\ said[source[kid]].meaning = Meaning[Kid(s, 1)]
            /\ said[source[next]].typing = Typing[Kid(s, 3)] /\ said[source[next]].meaning = Meaning[Kid(s, 3)]
            /\ \E op \in BinaryOperators : op.kind = heap[n].op /\ op.syntax_kind = KindOf(Kid(s, 2))
<1>1. PICK s \in 1..Len(syntax.nodes) : s = source[n] /\ Sourced(said, heap, source, n)
  BY SourceIs
<1>2. /\ said[s].kind = "BINARY_EXPRESSION"
      /\ Same(said, source[kid], said[s].kids[1]) /\ Same(said, source[next], said[s].kids[3])
      /\ \E op \in BinaryOperators : op.kind = heap[n].op /\ op.syntax_kind = said[s].op
  BY <1>1 DEF Sourced
<1>3. said[s].kind = KindOf(s) /\ said[s].kids = syntax.nodes[s].kids /\ said[s].op = KindOf(Kid(s, 2))
  BY <1>1, <1>2, SaidIs DEF Readable
<1>4. Kid(s, 1) \in 1..Len(syntax.nodes) /\ Kid(s, 3) \in 1..Len(syntax.nodes)
  BY <1>2, <1>3, KidsAreOlder DEF Readable
<1>5. /\ said[Kid(s, 1)].typing = Typing[Kid(s, 1)] /\ said[Kid(s, 1)].meaning = Meaning[Kid(s, 1)]
      /\ said[Kid(s, 3)].typing = Typing[Kid(s, 3)] /\ said[Kid(s, 3)].meaning = Meaning[Kid(s, 3)]
  BY <1>4, SaidIs DEF Readable
<1>6. Same(said, source[kid], Kid(s, 1)) /\ Same(said, source[next], Kid(s, 3))
  BY <1>2, <1>3 DEF Kid
<1>7. kid \in 1..Len(heap) /\ next \in 1..Len(heap)
  <2>1. heap \in Seq(Cell) /\ Typed(heap)
    BY DEF Readable
  <2>2. PICK op \in BinaryOperators, left \in 1..n - 1, right \in 1..n - 1 :
           heap[n] = Binary(op, left, right) /\ Builds(heap, left) /\ Builds(heap, right)
    BY <2>1, TakeApart
  <2> QED
    BY <2>2 DEF Binary, Builds
<1> QED
  BY <1>1, <1>2, <1>3, <1>5, <1>6, <1>7 DEF Same

LEMMA LeftAsks ==
  ASSUME NEW said, NEW source, Readable(said, source), NEW root, NEW n, NEW env,
         Fits(said, source, root, n, env), heap[n].cell = "BINARY", NEW kid, kid = heap[n].kids[1]
  PROVE  Fits(said, source, root, kid, env)
<1>1. /\ n \in 1..Len(heap) /\ env \in Environments(Objects) /\ IsSyntaxTree(syntax) /\ syntax.diagnostics = <<>>
      /\ said[source[n]].typing = Typing[source[n]] /\ said[source[n]].meaning = Meaning[source[n]]
  BY SourceIs DEF Fits, Readable
<1>2. PICK s \in 1..Len(syntax.nodes) :
         /\ s = source[n] /\ KindOf(s) = "BINARY_EXPRESSION" /\ kid \in 1..Len(heap)
         /\ said[source[kid]].typing = Typing[Kid(s, 1)] /\ said[source[kid]].meaning = Meaning[Kid(s, 1)]
  BY <1>1, BinaryCell
<1>3. Typing[s][TypesIn(env)].ok /\ Leads(root, Meaning[s][env])
  BY <1>1, <1>2 DEF Fits, MeansAt
<1>4. Typing[Kid(s, 1)][TypesIn(env)].ok /\ Leads(Meaning[s][env], Meaning[Kid(s, 1)][env])
  BY <1>1, <1>2, <1>3, LeftLeads
<1>5. Leads(root, Meaning[Kid(s, 1)][env])
  BY <1>3, <1>4, LeadsOn
<1> QED
  BY <1>1, <1>2, <1>4, <1>5 DEF Fits, MeansAt

LEMMA RightAsks ==
  ASSUME NEW said, NEW source, Readable(said, source), NEW root, NEW n, NEW env,
         Fits(said, source, root, n, env), heap[n].cell = "BINARY", NEW kid, kid = heap[n].kids[1],
         NEW next, next = heap[n].kids[2],
         NEW value \in Objects, NEW after, MeansAt(said, source, kid, env) = Answer(value, after)
  PROVE  Fits(said, source, root, next, after)
<1>1. /\ n \in 1..Len(heap) /\ env \in Environments(Objects) /\ IsSyntaxTree(syntax) /\ syntax.diagnostics = <<>>
      /\ said[source[n]].typing = Typing[source[n]] /\ said[source[n]].meaning = Meaning[source[n]]
  BY SourceIs DEF Fits, Readable
<1>2. PICK s \in 1..Len(syntax.nodes) :
         /\ s = source[n] /\ KindOf(s) = "BINARY_EXPRESSION" /\ next \in 1..Len(heap)
         /\ said[source[kid]].meaning = Meaning[Kid(s, 1)]
         /\ said[source[next]].typing = Typing[Kid(s, 3)] /\ said[source[next]].meaning = Meaning[Kid(s, 3)]
  BY <1>1, BinaryCell
<1>3. Typing[s][TypesIn(env)].ok /\ Leads(root, Meaning[s][env])
  BY <1>1, <1>2 DEF Fits, MeansAt
<1>4. Meaning[Kid(s, 1)][env] = Answer(value, after) /\ value # Trap
  BY <1>2, TrapIsNoObject DEF MeansAt
<1>5. /\ after \in Environments(Objects) /\ Typing[Kid(s, 3)][TypesIn(after)].ok
      /\ Leads(Meaning[s][env], Meaning[Kid(s, 3)][after])
  <2>1. PICK first, second : first = Kid(s, 1) /\ second = Kid(s, 3)
    OBVIOUS
  <2>2. \A any, later : Meaning[first][env] = Answer(any, later) /\ any # Trap =>
           /\ later \in Environments(Objects) /\ Typing[second][TypesIn(later)].ok
           /\ Leads(Meaning[s][env], Meaning[second][later])
    BY <1>1, <1>2, <1>3, <2>1, LeftLeads
  <2> QED
    BY <1>4, <2>1, <2>2
<1>6. Leads(root, Meaning[Kid(s, 3)][after])
  BY <1>3, <1>5, LeadsOn
<1> QED
  BY <1>1, <1>2, <1>5, <1>6 DEF Fits, MeansAt

LEMMA BinaryAnswers ==
  ASSUME NEW said, NEW source, Readable(said, source), NEW root, NEW n, NEW env,
         Fits(said, source, root, n, env),
         NEW op \in BinaryOperators, NEW kid, NEW next, heap[n] = Binary(op, kid, next),
         NEW value \in Objects, value.type = op.operand_type,
         NEW after, MeansAt(said, source, kid, env) = Answer(value, after),
         NEW other \in Objects, other.type = op.operand_type,
         NEW last, MeansAt(said, source, next, after) = Answer(other, last),
         NEW x, x = IF op.kind = "DIVISION" /\ DivisionTraps(value.i64, other.i64) THEN Trap
                    ELSE BinaryResult(op.kind, value, other)
  PROVE  MeansAt(said, source, n, env) = Answer(x, last)
<1>1. /\ n \in 1..Len(heap) /\ env \in Environments(Objects) /\ IsSyntaxTree(syntax)
      /\ said[source[n]].meaning = Meaning[source[n]]
  BY SourceIs DEF Fits, Readable
<1>2. heap[n].cell = "BINARY" /\ heap[n].kids[1] = kid /\ heap[n].kids[2] = next /\ heap[n].op = op.kind
  BY DEF Binary
<1>3. PICK s \in 1..Len(syntax.nodes) :
         /\ s = source[n] /\ KindOf(s) = "BINARY_EXPRESSION"
         /\ said[source[kid]].meaning = Meaning[Kid(s, 1)] /\ said[source[next]].meaning = Meaning[Kid(s, 3)]
         /\ \E same \in BinaryOperators : same.kind = op.kind /\ same.syntax_kind = KindOf(Kid(s, 2))
  <2>1. PICK left, right : left = heap[n].kids[1] /\ right = heap[n].kids[2] /\ left = kid /\ right = next
    BY <1>2
  <2>2. PICK s \in 1..Len(syntax.nodes) :
           /\ s = source[n] /\ KindOf(s) = "BINARY_EXPRESSION" /\ left \in 1..Len(heap) /\ right \in 1..Len(heap)
           /\ said[source[left]].typing = Typing[Kid(s, 1)] /\ said[source[left]].meaning = Meaning[Kid(s, 1)]
           /\ said[source[right]].typing = Typing[Kid(s, 3)] /\ said[source[right]].meaning = Meaning[Kid(s, 3)]
           /\ \E same \in BinaryOperators : same.kind = heap[n].op /\ same.syntax_kind = KindOf(Kid(s, 2))
    <3>1. heap[n].cell = "BINARY" /\ n \in 1..Len(heap)
      BY <1>1, <1>2
    <3>2. left = heap[n].kids[1] /\ right = heap[n].kids[2]
      BY <2>1
    <3> QED
      BY <3>1, <3>2, BinaryCell
  <2> QED
    BY <1>2, <2>1, <2>2
<1>4. PICK kind : kind = KindOf(Kid(s, 2)) /\ kind = op.syntax_kind
  BY <1>3, OneToken
<1>5. Meaning[Kid(s, 1)][env] = Answer(value, after) /\ Meaning[Kid(s, 3)][after] = Answer(other, last)
  BY <1>3 DEF MeansAt
<1>6. x = Apply(kind, value, other)
  BY <1>4, ApplyIs
<1>7. value # Trap /\ other # Trap
  BY TrapIsNoObject
<1>8. x = IF other = Trap THEN other ELSE Apply(kind, value, other)
  BY <1>6, <1>7
<1>9. Meaning[s][env] = Answer(x, last)
  <2>1. /\ KindOf(s) = "BINARY_EXPRESSION" /\ env \in Environments(Objects) /\ IsSyntaxTree(syntax)
        /\ kind = KindOf(Kid(s, 2))
    BY <1>1, <1>3, <1>4
  <2>2. PICK one, two : one = value /\ two = other
    OBVIOUS
  <2>3. /\ Meaning[Kid(s, 1)][env] = Answer(one, after) /\ Meaning[Kid(s, 3)][after] = Answer(two, last)
        /\ one # Trap /\ x = IF two = Trap THEN two ELSE Apply(kind, one, two)
    BY <1>5, <1>7, <1>8, <2>2
  <2> QED
    BY <2>1, <2>3, BinaryMeaning
<1> QED
  BY <1>1, <1>3, <1>9 DEF MeansAt

LEMMA LiteralAnswers ==
  ASSUME NEW said, NEW source, Readable(said, source), NEW root, NEW n, NEW env,
         Fits(said, source, root, n, env), heap[n].cell = "LITERAL"
  PROVE  MeansAt(said, source, n, env) = Answer(heap[n].value, env)
<1>1. n \in 1..Len(heap) /\ env \in Environments(Objects) /\ IsSyntaxTree(syntax)
  BY DEF Fits, Readable
<1>2. PICK s \in 1..Len(syntax.nodes) :
         s = source[n] /\ Sourced(said, heap, source, n) /\ said[s].meaning = Meaning[s]
  BY <1>1, SourceIs
<1>3. KindOf(s) = "LITERAL_EXPRESSION" /\ heap[n].value = LiteralValue(s)
  BY <1>2, SaidIs DEF Sourced, Readable
<1>4. Meaning[s][env] = Answer(LiteralValue(s), env)
  BY <1>1, <1>3, LiteralMeaning
<1> QED
  BY <1>2, <1>3, <1>4 DEF MeansAt

LEMMA VariableAnswers ==
  ASSUME NEW said, NEW source, Readable(said, source), NEW root, NEW n, NEW env,
         Fits(said, source, root, n, env), heap[n].cell = "VARIABLE", NEW name, name = NameAt(heap, n)
  PROVE  name \in DOMAIN env /\ MeansAt(said, source, n, env) = Answer(env[name], env)
<1>1. n \in 1..Len(heap) /\ env \in Environments(Objects) /\ IsSyntaxTree(syntax)
  BY DEF Fits, Readable
<1>2. PICK s \in 1..Len(syntax.nodes) :
         /\ s = source[n] /\ Sourced(said, heap, source, n)
         /\ said[s].meaning = Meaning[s] /\ said[s].typing = Typing[s]
  BY <1>1, SourceIs
<1>3. KindOf(s) = "NAME_EXPRESSION" /\ name = TextOf(Kid(s, 1))
  BY <1>2, SaidIs DEF Sourced, Readable
<1>4. Meaning[s][env] = Answer(env[TextOf(Kid(s, 1))], env)
  BY <1>1, <1>3, NameMeaning
<1>5. PICK types \in Environments(ObjectTypes) : types = TypesIn(env) /\ DOMAIN types = DOMAIN env
  BY <1>1, TypesAreTypes
<1>6. PICK typing : typing = Typing[s][types]
  OBVIOUS
<1>7. typing.ok
  BY <1>2, <1>5, <1>6 DEF Fits
<1>8. name \in DOMAIN types
  BY <1>1, <1>3, <1>6, <1>7, NameTyping
<1> QED
  BY <1>2, <1>3, <1>4, <1>5, <1>8 DEF MeansAt

--------------------------------------------------------------------------------
(* How far an evaluation got, and with which variables.                         *)

\* The variables have the values that were assigned, or others that nobody asks for.
Given(objs, map, env) == \A name \in DOMAIN env : name \in DOMAIN map /\ objs[map[name].value] = env[name]

\* What a call that waits needs of its kid: the second operand, with what the first one
\* assigned, once it holds the value of the first.
Wants(said, source, objs, frame, from, to) ==
    /\ from.node = frame.node /\ to.node = Pending(heap, frame)
    /\ frame.held = <<>> => to.env = from.env
    /\ frame.held # <<>> =>
          MeansAt(said, source, heap[frame.node].kids[1], from.env) = Answer(objs[frame.held[1]], to.env)
Wanted(said, source, root, objs, calls, asked) ==
    /\ MeansAt(said, source, asked[1].node, asked[1].env) = root
    /\ \A i \in 1..Len(calls) + 1 : Fits(said, source, root, asked[i].node, asked[i].env)
    /\ \A i \in 1..Len(calls) : Wants(said, source, objs, calls[i], asked[i], asked[i + 1])
Computes(said, source, root, objs, map, call, calls, asked, now) ==
    /\ Wanted(said, source, root, objs, calls, asked)
    /\ asked[Len(calls) + 1].node = call.node
    /\ call.fn = "evaluate" => now = asked[Len(calls) + 1].env
    /\ call.fn = "return" => MeansAt(said, source, call.node, asked[Len(calls) + 1].env) = Answer(objs[call.value], now)
    /\ Given(objs, map, now)

ComputingInv ==
    \E said, source, asked, now :
        /\ Readable(said, source)
        /\ Computes(said, source, Meaning[Expression][NoNames], objects, variables, evaluator, evaluator_stack,
                    asked, now)

\* A call more, and a call less.
Pushed(calls, frame) == Append(calls, frame)

LEMMA WantedMore ==
  ASSUME NEW said, NEW source, NEW root, NEW objs, NEW calls \in Seq(EvaluatorFrame), NEW asked,
         Wanted(said, source, root, objs, calls, asked),
         NEW frame \in EvaluatorFrame, NEW to, Fits(said, source, root, to.node, to.env),
         Wants(said, source, objs, frame, asked[Len(calls) + 1], to),
         NEW more, more = Pushed(calls, frame)
  PROVE  \E all : Wanted(said, source, root, objs, more, all) /\ all[Len(more) + 1] = to
<1>1. PICK size \in Nat :
         /\ size = Len(calls) /\ Len(more) = size + 1
         /\ more[size + 1] = frame /\ \A i \in 1..size : more[i] = calls[i]
         /\ \A i \in 1..size + 1 : i = size + 1 \/ i \in 1..size
  <2>1. PICK size \in Nat, new \in Seq(EvaluatorFrame) :
           /\ size = Len(calls) /\ new = Append(calls, frame) /\ Len(new) = size + 1
           /\ new[size + 1] = frame /\ \A i \in 1..size : new[i] = calls[i]
           /\ \A i \in 1..size + 1 : i = size + 1 \/ i \in 1..size
    BY PushCalls
  <2> QED
    BY <2>1 DEF Pushed
<1>2. PICK all : all = [ i \in 1..size + 2 |-> IF i = size + 2 THEN to ELSE asked[i] ]
  OBVIOUS
<1>3. all[size + 2] = to /\ \A i \in 1..size + 1 : all[i] = asked[i]
  BY <1>2
<1>4. MeansAt(said, source, all[1].node, all[1].env) = root
  BY <1>3 DEF Wanted
<1>5. \A i \in 1..size + 2 : Fits(said, source, root, all[i].node, all[i].env)
  <2>1. \A i \in 1..size + 2 : i = size + 2 \/ i \in 1..size + 1
    OBVIOUS
  <2>2. \A i \in 1..size + 1 : Fits(said, source, root, asked[i].node, asked[i].env)
    BY <1>1 DEF Wanted
  <2> QED
    BY <1>3, <2>1, <2>2
<1>6. ASSUME NEW i \in 1..size + 1 PROVE Wants(said, source, objs, more[i], all[i], all[i + 1])
  <2>1. CASE i = size + 1
    <3>1. i + 1 = size + 2
      BY <2>1
    <3> QED
      BY <1>1, <1>3, <2>1, <3>1
  <2>2. CASE i # size + 1
    <3>1. i \in 1..size /\ i + 1 \in 1..size + 1
      BY <2>2
    <3> QED
      BY <1>1, <1>3, <3>1 DEF Wanted
  <2> QED
    BY <2>1, <2>2
<1>7. size + 1 + 1 = size + 2
  OBVIOUS
<1>8. Wanted(said, source, root, objs, more, all)
  BY <1>1, <1>4, <1>5, <1>6, <1>7 DEF Wanted
<1> QED
  BY <1>1, <1>3, <1>7, <1>8

LEMMA WantedLess ==
  ASSUME NEW said, NEW source, NEW root, NEW objs, NEW calls \in Seq(EvaluatorFrame), calls # <<>>, NEW asked,
         Wanted(said, source, root, objs, calls, asked),
         NEW rest, rest = SubSeq(calls, 1, Len(calls) - 1), NEW top, top = calls[Len(calls)]
  PROVE  /\ Wanted(said, source, root, objs, rest, asked)
         /\ Wants(said, source, objs, top, asked[Len(rest) + 1], asked[Len(calls) + 1])
         /\ Fits(said, source, root, asked[Len(rest) + 1].node, asked[Len(rest) + 1].env)
         /\ Fits(said, source, root, asked[Len(calls) + 1].node, asked[Len(calls) + 1].env)
<1>1. PICK size \in Nat : Len(calls) = size + 1 /\ Len(rest) = size /\ \A i \in 1..size : rest[i] = calls[i]
  <2>1. PICK size \in Nat, less \in Seq(EvaluatorFrame) :
           /\ Len(calls) = size + 1 /\ less = SubSeq(calls, 1, Len(calls) - 1) /\ Len(less) = size
           /\ \A i \in 1..size : less[i] = calls[i]
    BY PopCalls
  <2> QED
    BY <2>1
<1>2. /\ \A i \in 1..size + 2 : Fits(said, source, root, asked[i].node, asked[i].env)
      /\ \A i \in 1..size + 1 : Wants(said, source, objs, calls[i], asked[i], asked[i + 1])
      /\ MeansAt(said, source, asked[1].node, asked[1].env) = root
  <2>1. size + 1 + 1 = size + 2
    OBVIOUS
  <2> QED
    BY <1>1, <2>1 DEF Wanted
<1>3. /\ \A i \in 1..size + 1 : i \in 1..size + 2 /\ \A j \in 1..size : j \in 1..size + 1
      /\ size + 1 \in 1..size + 1 /\ size + 2 \in 1..size + 2 /\ size + 1 + 1 = size + 2
  OBVIOUS
<1>4. Wanted(said, source, root, objs, rest, asked)
  BY <1>1, <1>2, <1>3 DEF Wanted
<1> QED
  BY <1>1, <1>2, <1>3, <1>4

\* Blocks that come and go do not disturb it.
LEMMA WantedKept ==
  ASSUME NEW said, NEW source, NEW root, NEW objs, NEW new, Keeps(objs, new), NEW calls, Held(objs, calls),
         Held(new, calls), NEW asked, Wanted(said, source, root, objs, calls, asked)
  PROVE  Wanted(said, source, root, new, calls, asked)
<1>1. ASSUME NEW i \in 1..Len(calls) PROVE Wants(said, source, new, calls[i], asked[i], asked[i + 1])
  <2>1. Wants(said, source, objs, calls[i], asked[i], asked[i + 1])
    BY DEF Wanted
  <2>2. calls[i].held # <<>> => objs[calls[i].held[1]] = new[calls[i].held[1]]
    BY DEF Held, Keeps
  <2> QED
    BY <2>1, <2>2 DEF Wants
<1> QED
  BY <1>1 DEF Wanted

LEMMA GivenKept ==
  ASSUME NEW objs, NEW new, Keeps(objs, new), NEW map, Known(objs, map), Known(new, map), NEW env,
         Given(objs, map, env)
  PROVE  Given(new, map, env)
BY DEF Keeps, Known, Given

\* What is to be shown of a step.
LEMMA ComputedNow ==
  ASSUME syntax' = syntax, heap' = heap, NEW said, NEW source, Readable(said, source),
         NEW root, root = Meaning[Expression][NoNames], NEW asked, NEW now,
         Computes(said, source, root, objects', variables', evaluator', evaluator_stack', asked, now)
  PROVE  ComputingInv'
<1>1. Said' = Said /\ Meaning' = Meaning
  BY SaidKept
<1>2. Readable(said, source)'
  BY <1>1 DEF Readable
<1>3. Meaning[Expression][NoNames]' = root
  BY <1>1 DEF Expression
<1>4. Computes(said, source, root, objects, variables, evaluator, evaluator_stack, asked, now)'
  BY DEF Computes, Wanted, Wants, Fits, MeansAt, Pending, Given
<1> QED
  BY <1>2, <1>3, <1>4 DEF ComputingInv

\* What a call that evaluates something was asked.
LEMMA AskedToEvaluate ==
  ASSUME EvaluationInv, ComputingInv, NEW cell, Evaluating(cell)
  PROVE  \E said, source, root, asked, now :
            /\ Readable(said, source) /\ root = Meaning[Expression][NoNames]
            /\ Wanted(said, source, root, objects, evaluator_stack, asked)
            /\ asked[Len(evaluator_stack) + 1].node = evaluator.node
            /\ asked[Len(evaluator_stack) + 1].env = now
            /\ Fits(said, source, root, evaluator.node, now)
            /\ Given(objects, variables, now) /\ heap[evaluator.node].cell = cell
<1>1. PICK said, source, root, asked, now :
         /\ Readable(said, source) /\ root = Meaning[Expression][NoNames]
         /\ Computes(said, source, root, objects, variables, evaluator, evaluator_stack, asked, now)
  BY DEF ComputingInv
<1>2. Len(evaluator_stack) + 1 \in 1..Len(evaluator_stack) + 1
  <2>1. evaluator_stack \in Seq(EvaluatorFrame)
    BY DEF EvaluationInv, Values
  <2> QED
    BY <2>1
<1>3. Fits(said, source, root, asked[Len(evaluator_stack) + 1].node, asked[Len(evaluator_stack) + 1].env)
  BY <1>1, <1>2 DEF Computes, Wanted
<1>4. /\ asked[Len(evaluator_stack) + 1].node = evaluator.node /\ asked[Len(evaluator_stack) + 1].env = now
  BY <1>1 DEF Computes, Evaluating
<1> QED
  BY <1>1, <1>3, <1>4 DEF Computes, Evaluating

\* And one that returned to a call that waits, which knows more than it did.
LEMMA AskedToReturn ==
  ASSUME EvaluationInv, ComputingInv, NEW cell, NEW held, EvaluatorReturning(cell, held)
  PROVE  \E said, source, root, asked, now, env, before :
            /\ Readable(said, source) /\ root = Meaning[Expression][NoNames]
            /\ Wanted(said, source, root, objects, EvaluatorPop, asked)
            /\ asked[Len(EvaluatorPop) + 1].node = EvaluatorTop.node /\ asked[Len(EvaluatorPop) + 1].env = env
            /\ Fits(said, source, root, EvaluatorTop.node, env)
            /\ Fits(said, source, root, evaluator.node, before)
            /\ EvaluatorTop.held = <<>> => before = env
            /\ EvaluatorTop.held # <<>> =>
                  MeansAt(said, source, heap[EvaluatorTop.node].kids[1], env) =
                     Answer(objects[EvaluatorTop.held[1]], before)
            /\ MeansAt(said, source, evaluator.node, before) = Answer(objects[evaluator.value], now)
            /\ Given(objects, variables, now)
<1>1. PICK said, source, root, asked, now :
         /\ Readable(said, source) /\ root = Meaning[Expression][NoNames]
         /\ Computes(said, source, root, objects, variables, evaluator, evaluator_stack, asked, now)
  BY DEF ComputingInv
<1>2. evaluator_stack \in Seq(EvaluatorFrame) /\ evaluator_stack # <<>> /\ evaluator.fn = "return"
  BY DEF EvaluationInv, Values, EvaluatorReturning
<1>3. PICK calls, top, from, to :
         /\ calls = EvaluatorPop /\ top = EvaluatorTop
         /\ from = asked[Len(calls) + 1] /\ to = asked[Len(evaluator_stack) + 1]
  OBVIOUS
<1>4. /\ Wanted(said, source, root, objects, calls, asked) /\ Wants(said, source, objects, top, from, to)
      /\ Fits(said, source, root, from.node, from.env) /\ Fits(said, source, root, to.node, to.env)
  <2>1. Wanted(said, source, root, objects, evaluator_stack, asked)
    BY <1>1 DEF Computes
  <2> QED
    BY <1>2, <1>3, <2>1, WantedLess DEF EvaluatorPop, EvaluatorTop
<1>5. /\ to.node = evaluator.node /\ MeansAt(said, source, evaluator.node, to.env) = Answer(objects[evaluator.value], now)
      /\ Given(objects, variables, now)
  BY <1>1, <1>2, <1>3 DEF Computes
<1>6. PICK env, before : env = from.env /\ before = to.env
  OBVIOUS
<1>7. /\ from.node = top.node /\ (top.held = <<>> => before = env)
      /\ top.held # <<>> => MeansAt(said, source, heap[top.node].kids[1], env) = Answer(objects[top.held[1]], before)
  BY <1>4, <1>6 DEF Wants
<1> QED
  BY <1>1, <1>3, <1>4, <1>5, <1>6, <1>7

\* The steps that ask for a kid.
LEMMA AsksKid ==
  ASSUME EvaluationInv, ComputingInv, syntax' = syntax, NEW cell, Evaluating(cell), NEW n, n = evaluator.node,
         NEW frame, frame = [ node |-> n, held |-> <<>> ], NEW kid, kid = Pending(heap, frame),
         \A said, source, root, env :
            Readable(said, source) /\ Fits(said, source, root, n, env) => Fits(said, source, root, kid, env),
         evaluator_stack' = Append(evaluator_stack, frame), evaluator' = Evaluate(kid),
         UNCHANGED << objects, variables >>, TreeKept
  PROVE  ComputingInv'
<1>1. PICK said, source, root, asked, now :
         /\ Readable(said, source) /\ root = Meaning[Expression][NoNames]
         /\ Wanted(said, source, root, objects, evaluator_stack, asked)
         /\ asked[Len(evaluator_stack) + 1].node = n /\ asked[Len(evaluator_stack) + 1].env = now
         /\ Fits(said, source, root, n, now) /\ Given(objects, variables, now)
  BY AskedToEvaluate
<1>2. PICK to : to = Question(kid, now)
  OBVIOUS
<1>3. to.node = kid /\ to.env = now
  BY <1>2 DEF Question
<1>4. Fits(said, source, root, to.node, to.env)
  BY <1>1, <1>3
<1>5. frame.node = n /\ frame.held = <<>>
  OBVIOUS
<1>6. frame \in EvaluatorFrame /\ evaluator_stack \in Seq(EvaluatorFrame)
  <2>1. n \in Pointer /\ <<>> \in Seq(Nat)
    BY DEF EvaluationInv, EvaluatorInv, Builds, Pointer
  <2> QED
    BY <2>1 DEF EvaluatorFrame, EvaluationInv, Values
<1>7. Wants(said, source, objects, frame, asked[Len(evaluator_stack) + 1], to)
  BY <1>1, <1>3, <1>5 DEF Wants
<1>8. PICK more, all :
         /\ more = Append(evaluator_stack, frame) /\ Wanted(said, source, root, objects, more, all)
         /\ all[Len(more) + 1] = to
  <2>1. PICK more : more = Pushed(evaluator_stack, frame)
    OBVIOUS
  <2> QED
    BY <1>1, <1>4, <1>6, <1>7, <2>1, WantedMore DEF Pushed
<1>9. evaluator'.fn = "evaluate" /\ evaluator'.node = kid
  BY DEF Evaluate
<1>10. Computes(said, source, root, objects', variables', evaluator', evaluator_stack', all, now)
  BY <1>1, <1>3, <1>8, <1>9 DEF Computes
<1> QED
  BY <1>1, <1>10, ComputedNow DEF TreeKept

LEMMA EvaluateUnaryComputes ==
  ASSUME EvaluationInv, ComputingInv, syntax' = syntax, EvaluateUnary PROVE ComputingInv'
<1>1. PICK n, kid, frame : n = evaluator.node /\ kid = heap[n].kids[1] /\ frame = [ node |-> n, held |-> <<>> ]
  OBVIOUS
<1>2. Evaluating("UNARY") /\ heap[n].cell = "UNARY"
  BY <1>1 DEF EvaluateUnary, Evaluating
<1>3. kid = Pending(heap, frame)
  BY <1>1, <1>2 DEF Pending
<1>4. /\ evaluator_stack' = Append(evaluator_stack, frame) /\ evaluator' = Evaluate(kid)
      /\ UNCHANGED << objects, variables >> /\ TreeKept
  BY <1>1 DEF EvaluateUnary, Suspended
<1>5. \A said, source, root, env :
         Readable(said, source) /\ Fits(said, source, root, n, env) => Fits(said, source, root, kid, env)
  BY <1>1, <1>2, UnaryAsks
<1> QED
  BY <1>1, <1>2, <1>3, <1>4, <1>5, AsksKid

LEMMA EvaluateBinaryComputes ==
  ASSUME EvaluationInv, ComputingInv, syntax' = syntax, EvaluateBinary PROVE ComputingInv'
<1>1. PICK n, kid, frame : n = evaluator.node /\ kid = heap[n].kids[1] /\ frame = [ node |-> n, held |-> <<>> ]
  OBVIOUS
<1>2. Evaluating("BINARY") /\ heap[n].cell = "BINARY"
  BY <1>1 DEF EvaluateBinary, Evaluating
<1>3. kid = Pending(heap, frame)
  BY <1>1, <1>2 DEF Pending
<1>4. /\ evaluator_stack' = Append(evaluator_stack, frame) /\ evaluator' = Evaluate(kid)
      /\ UNCHANGED << objects, variables >> /\ TreeKept
  BY <1>1 DEF EvaluateBinary, Suspended
<1>5. \A said, source, root, env :
         Readable(said, source) /\ Fits(said, source, root, n, env) => Fits(said, source, root, kid, env)
  BY <1>1, <1>2, LeftAsks
<1> QED
  BY <1>1, <1>2, <1>3, <1>4, <1>5, AsksKid

LEMMA EvaluateAssignmentComputes ==
  ASSUME EvaluationInv, ComputingInv, syntax' = syntax, EvaluateAssignment PROVE ComputingInv'
<1>1. PICK n, kid, frame : n = evaluator.node /\ kid = heap[n].kids[2] /\ frame = [ node |-> n, held |-> <<>> ]
  OBVIOUS
<1>2. Evaluating("ASSIGNMENT") /\ heap[n].cell = "ASSIGNMENT"
  BY <1>1 DEF EvaluateAssignment, Evaluating
<1>3. kid = Pending(heap, frame)
  BY <1>1, <1>2 DEF Pending
<1>4. /\ evaluator_stack' = Append(evaluator_stack, frame) /\ evaluator' = Evaluate(kid)
      /\ UNCHANGED << objects, variables >> /\ TreeKept
  BY <1>1 DEF EvaluateAssignment, Suspended
<1>5. \A said, source, root, env :
         Readable(said, source) /\ Fits(said, source, root, n, env) => Fits(said, source, root, kid, env)
  BY <1>1, <1>2, AssignmentAsks
<1> QED
  BY <1>1, <1>2, <1>3, <1>4, <1>5, AsksKid

\* The steps that answer at once.
LEMMA AnswersAtOnce ==
  ASSUME EvaluationInv, EvaluationInv', ComputingInv, syntax' = syntax, NEW cell, Evaluating(cell),
         NEW n, n = evaluator.node, NEW value \in Objects,
         \A said, source, root, env :
            Readable(said, source) /\ Fits(said, source, root, n, env) /\ Given(objects, variables, env)
               => MeansAt(said, source, n, env) = Answer(value, env),
         objects' = Allocate(objects, value), evaluator' = Evaluated(n, Fresh(objects)),
         UNCHANGED << variables, evaluator_stack >>, TreeKept
  PROVE  ComputingInv'
<1>1. PICK said, source, root, asked, now :
         /\ Readable(said, source) /\ root = Meaning[Expression][NoNames]
         /\ Wanted(said, source, root, objects, evaluator_stack, asked)
         /\ asked[Len(evaluator_stack) + 1].node = n /\ asked[Len(evaluator_stack) + 1].env = now
         /\ Fits(said, source, root, n, now) /\ Given(objects, variables, now)
  BY AskedToEvaluate
<1>2. Keeps(objects, objects') /\ objects'[Fresh(objects)] = value
  <2>1. Blocks(objects)
    BY DEF EvaluationInv, Values
  <2> QED
    BY <2>1, AllocateBlock DEF Keeps
<1>3. /\ Held(objects, evaluator_stack) /\ Known(objects, variables)
      /\ Held(objects', evaluator_stack) /\ Known(objects', variables)
  BY OwnedIsThere DEF EvaluationInv
<1>4. Wanted(said, source, root, objects', evaluator_stack, asked) /\ Given(objects', variables, now)
  BY <1>1, <1>2, <1>3, WantedKept, GivenKept
<1>5. MeansAt(said, source, n, now) = Answer(value, now)
  BY <1>1
<1>6. evaluator'.fn = "return" /\ evaluator'.node = n /\ evaluator'.value = Fresh(objects)
  BY DEF Evaluated
<1>7. Computes(said, source, root, objects', variables', evaluator', evaluator_stack', asked, now)
  BY <1>1, <1>2, <1>4, <1>5, <1>6 DEF Computes
<1> QED
  BY <1>1, <1>7, ComputedNow DEF TreeKept

LEMMA EvaluateLiteralComputes ==
  ASSUME EvaluationInv, EvaluationInv', ComputingInv, syntax' = syntax, EvaluateLiteral PROVE ComputingInv'
<1>1. PICK n : n = evaluator.node
  OBVIOUS
<1>2. /\ heap \in Seq(Cell) /\ Typed(heap) /\ evaluator.fn = "evaluate" /\ n \in 1..Len(heap)
      /\ heap[n].cell = "LITERAL" /\ Evaluating("LITERAL")
  BY <1>1, EvaluatingIs DEF EvaluateLiteral
<1>3. PICK value \in Objects \cup { NullObject } : value = heap[n].value
  BY <1>2, TakeApart
<1>4. \A first : Ordered(heap, first) => value # NullObject
  BY <1>2, <1>3 DEF Ordered, OrderedCell
<1>5. value \in Objects
  BY <1>3, <1>4 DEF EvaluationInv, EvaluatorInv
<1>6. value.type # "NULL"
  BY <1>5 DEF Objects, Int64s, Bools, Int64, Bool
<1>7. /\ objects' = Allocate(objects, value) /\ evaluator' = Evaluated(n, Fresh(objects))
      /\ UNCHANGED << variables, evaluator_stack >> /\ TreeKept
  BY <1>1, <1>3, <1>6 DEF EvaluateLiteral
<1>8. \A said, source, root, env :
         Readable(said, source) /\ Fits(said, source, root, n, env) /\ Given(objects, variables, env)
            => MeansAt(said, source, n, env) = Answer(value, env)
  BY <1>2, <1>3, LiteralAnswers
<1> QED
  BY <1>1, <1>2, <1>5, <1>7, <1>8, AnswersAtOnce

LEMMA EvaluateVariableComputes ==
  ASSUME EvaluationInv, EvaluationInv', ComputingInv, syntax' = syntax, EvaluateVariable PROVE ComputingInv'
<1>1. PICK n, name : n = evaluator.node /\ name = NameAt(heap, n)
  OBVIOUS
<1>2. heap[n].cell = "VARIABLE" /\ Evaluating("VARIABLE")
  BY <1>1, EvaluatingIs DEF EvaluateVariable
<1>3. ASSUME NEW said, NEW source, NEW root, NEW env,
             Readable(said, source), Fits(said, source, root, n, env), Given(objects, variables, env)
      PROVE  /\ name \in DOMAIN variables
             /\ MeansAt(said, source, n, env) = Answer(objects[variables[name].value], env)
  <2>1. name \in DOMAIN env /\ MeansAt(said, source, n, env) = Answer(env[name], env)
    BY <1>1, <1>2, <1>3, VariableAnswers
  <2> QED
    BY <1>3, <2>1 DEF Given
<1>4. name \in DOMAIN variables
  <2>1. PICK said, source, root, now :
           /\ Readable(said, source) /\ Fits(said, source, root, n, now) /\ Given(objects, variables, now)
    BY <1>1, <1>2, AskedToEvaluate
  <2> QED
    BY <1>3, <2>1
<1>5. PICK id : id = variables[name].value
  OBVIOUS
<1>6. id \in DOMAIN objects /\ id # Null
  BY <1>4, <1>5 DEF EvaluationInv, Owned, Values, Blocks, Pointer, Null
<1>7. PICK value \in Objects : value = objects[id]
  BY <1>6 DEF EvaluationInv, Values, Blocks
<1>8. Get(NameOf(n)) = id
  BY <1>1, <1>4, <1>5 DEF Get, NameOf, NameAt
<1>9. /\ objects' = Allocate(objects, value) /\ evaluator' = Evaluated(n, Fresh(objects))
      /\ UNCHANGED << variables, evaluator_stack >> /\ TreeKept
  BY <1>1, <1>6, <1>7, <1>8 DEF EvaluateVariable, DupId, DupIn
<1>10. \A said, source, root, env :
          Readable(said, source) /\ Fits(said, source, root, n, env) /\ Given(objects, variables, env)
             => MeansAt(said, source, n, env) = Answer(value, env)
  BY <1>3, <1>5, <1>7
<1> QED
  BY <1>1, <1>2, <1>7, <1>9, <1>10, AnswersAtOnce

\* The steps that return.
LEMMA ReplacedMeaning ==
  ASSUME NEW objs, Blocks(objs), NEW map, NEW calls, NEW hand, Owned(objs, map, calls, hand),
         NEW said, NEW source, NEW root, NEW asked, Wanted(said, source, root, objs, calls, asked),
         NEW now, Given(objs, map, now), NEW value \in Objects
  PROVE  \E rest, new :
            /\ rest = Release(objs, { hand }) /\ new = Allocate(rest, value)
            /\ Wanted(said, source, root, new, calls, asked) /\ Given(new, map, now)
            /\ new[Fresh(rest)] = value
<1>0. PICK rest, new : rest = Release(objs, { hand }) /\ new = Allocate(rest, value)
  OBVIOUS
<1>1. Blocks(rest) /\ Keeps(objs, rest)
  <2>1. /\ Blocks(rest) /\ DOMAIN rest = DOMAIN objs \ { hand }
        /\ \A id \in DOMAIN objs \ { hand } : rest[id] = objs[id]
    BY <1>0, ReleaseBlocks
  <2> QED
    BY <2>1 DEF Keeps
<1>2. Owned(rest, map, calls, Null)
  BY <1>0, OwnReleased
<1>3. Held(objs, calls) /\ Known(objs, map) /\ Held(rest, calls) /\ Known(rest, map)
  BY <1>2, OwnedIsThere
<1>4. Wanted(said, source, root, rest, calls, asked) /\ Given(rest, map, now)
  BY <1>1, <1>3, WantedKept, GivenKept
<1>5. Keeps(rest, new) /\ new[Fresh(rest)] = value
  BY <1>0, <1>1, AllocateBlock DEF Keeps
<1>6. Owned(new, map, calls, Fresh(rest))
  BY <1>0, <1>1, <1>2, OwnAllocated
<1>7. Held(new, calls) /\ Known(new, map)
  BY <1>6, OwnedIsThere
<1>8. Wanted(said, source, root, new, calls, asked) /\ Given(new, map, now)
  BY <1>3, <1>4, <1>5, <1>7, WantedKept, GivenKept
<1> QED
  BY <1>0, <1>5, <1>8

LEMMA ReturnedNow ==
  ASSUME syntax' = syntax, heap' = heap, NEW said, NEW source, Readable(said, source),
         NEW root, root = Meaning[Expression][NoNames], NEW asked, NEW calls,
         evaluator_stack' = calls, Wanted(said, source, root, objects', calls, asked),
         NEW n, asked[Len(calls) + 1].node = n, NEW env, asked[Len(calls) + 1].env = env,
         NEW id, evaluator' = Evaluated(n, id), NEW value, objects'[id] = value,
         NEW now, MeansAt(said, source, n, env) = Answer(value, now), Given(objects', variables', now)
  PROVE  ComputingInv'
<1>1. evaluator'.fn = "return" /\ evaluator'.node = n /\ evaluator'.value = id
  BY DEF Evaluated
<1>2. Computes(said, source, root, objects', variables', evaluator', evaluator_stack', asked, now)
  BY <1>1 DEF Computes
<1> QED
  BY <1>2, ComputedNow

LEMMA ReturnFromUnaryComputes ==
  ASSUME EvaluationInv, ComputingInv, syntax' = syntax, ReturnFromUnary PROVE ComputingInv'
<1>1. PICK n, hand, calls : n = EvaluatorTop.node /\ hand = evaluator.value /\ calls = EvaluatorPop
  OBVIOUS
<1>2. /\ heap \in Seq(Cell) /\ Typed(heap) /\ Blocks(objects)
      /\ evaluator_stack \in Seq(EvaluatorFrame) /\ evaluator_stack # <<>> /\ EvaluatorTop \in EvaluatorFrame
      /\ n \in 1..Len(heap) /\ heap[n].cell = "UNARY" /\ Len(EvaluatorTop.held) = 0
      /\ Pending(heap, EvaluatorTop) = evaluator.node
      /\ Owned(objects, variables, evaluator_stack, hand)
      /\ objects[hand] \in Objects /\ objects[hand].type = heap[evaluator.node].type
  BY <1>1, ReturningTop DEF ReturnFromUnary
<1>3. EvaluatorTop.held = <<>>
  BY <1>2, EmptySeq DEF EvaluatorFrame
<1>4. PICK op \in UnaryOperators, operand \in 1..n - 1 :
         heap[n] = Unary(op, operand) /\ heap[operand].type = op.operand_type
  BY <1>2, TakeApart
<1>5. heap[n].kids[1] = operand /\ heap[n].op = op.kind
  BY <1>4 DEF Unary
<1>6. evaluator.node = operand
  BY <1>1, <1>2, <1>5 DEF Pending
<1>7. Owned(objects, variables, calls, hand)
  BY <1>1, <1>2, <1>3, OwnPopped DEF EvaluatorPop, EvaluatorTop
<1>8. PICK said, source, root, asked, now, env :
         /\ Readable(said, source) /\ root = Meaning[Expression][NoNames]
         /\ Wanted(said, source, root, objects, calls, asked)
         /\ asked[Len(calls) + 1].node = n /\ asked[Len(calls) + 1].env = env
         /\ Fits(said, source, root, n, env)
         /\ MeansAt(said, source, operand, env) = Answer(objects[hand], now)
         /\ Given(objects, variables, now)
  <2>1. PICK said, source, root, asked, now, env, before :
            /\ Readable(said, source) /\ root = Meaning[Expression][NoNames]
            /\ Wanted(said, source, root, objects, EvaluatorPop, asked)
            /\ asked[Len(EvaluatorPop) + 1].node = EvaluatorTop.node /\ asked[Len(EvaluatorPop) + 1].env = env
            /\ Fits(said, source, root, EvaluatorTop.node, env)
            /\ EvaluatorTop.held = <<>> => before = env
            /\ MeansAt(said, source, evaluator.node, before) = Answer(objects[evaluator.value], now)
            /\ Given(objects, variables, now)
    <3>1. EvaluatorReturning("UNARY", 0)
      BY DEF ReturnFromUnary
    <3> QED
      BY <3>1, AskedToReturn
  <2> QED
    BY <1>1, <1>3, <1>6, <2>1
<1>9. PICK value \in Objects : value = objects[hand] /\ value.type = op.operand_type
  BY <1>2, <1>4, <1>6
<1>10. /\ UnaryOperandType(op.kind) = op.operand_type
       /\ op.kind # "IDENTITY" => UnaryResult(op.kind, value) \in Objects
  BY <1>9, UnaryComputes
<1>11. /\ evaluator_stack' = calls /\ variables' = variables /\ heap' = heap
  BY <1>1 DEF ReturnFromUnary, TreeKept
<1>12. PICK x : x = IF op.kind = "IDENTITY" THEN value ELSE UnaryResult(op.kind, value)
  OBVIOUS
<1>13. MeansAt(said, source, n, env) = Answer(x, now)
  BY <1>4, <1>8, <1>9, <1>12, UnaryAnswers
<1>14. CASE op.kind = "IDENTITY"
  <2>1. evaluator' = Evaluated(n, hand) /\ objects' = objects
    BY <1>1, <1>5, <1>14 DEF ReturnFromUnary
  <2>2. objects'[hand] = x
    BY <1>9, <1>12, <1>14, <2>1
  <2>3. Wanted(said, source, root, objects', calls, asked) /\ Given(objects', variables', now)
    BY <1>8, <1>11, <2>1
  <2> QED
    BY <1>8, <1>11, <1>13, <2>1, <2>2, <2>3, ReturnedNow
<1>15. CASE op.kind # "IDENTITY"
  <2>1. Holds(hand, UnaryOperandType(op.kind))
    <3>1. hand \in DOMAIN objects
      BY <1>1, ReturningTop DEF ReturnFromUnary
    <3> QED
      BY <1>9, <1>10, <3>1 DEF Holds
  <2>2. x \in Objects /\ x = UnaryResult(op.kind, objects[hand])
    BY <1>9, <1>10, <1>12, <1>15
  <2>3. Replace({ hand }, x)
    BY <1>1, <1>5, <1>15, <2>1, <2>2 DEF ReturnFromUnary
  <2>4. PICK rest, new :
            /\ rest = Release(objects, { hand }) /\ new = Allocate(rest, x)
            /\ Wanted(said, source, root, new, calls, asked) /\ Given(new, variables, now)
            /\ new[Fresh(rest)] = x
    <3>1. Blocks(objects)
      BY <1>2
    <3> QED
      BY <1>7, <1>8, <2>2, <3>1, ReplacedMeaning
  <2>5. objects' = new /\ evaluator' = Evaluated(n, Fresh(rest))
    BY <1>1, <2>3, <2>4 DEF Replace
  <2>6. PICK id : id = Fresh(rest)
    OBVIOUS
  <2>7. /\ Wanted(said, source, root, objects', calls, asked) /\ Given(objects', variables', now)
        /\ evaluator' = Evaluated(n, id) /\ objects'[id] = x
    BY <1>11, <2>4, <2>5, <2>6
  <2> QED
    BY <1>8, <1>11, <1>13, <2>7, ReturnedNow
<1> QED
  BY <1>14, <1>15

\* The left operand is held, and the right one is asked for with what it assigned.
LEMMA ReturnFromLeftComputes ==
  ASSUME EvaluationInv, ComputingInv, syntax' = syntax, ReturnFromLeft PROVE ComputingInv'
<1>1. PICK n, hand, calls : n = EvaluatorTop.node /\ hand = evaluator.value /\ calls = EvaluatorPop
  OBVIOUS
<1>2. /\ heap \in Seq(Cell) /\ Typed(heap) /\ Blocks(objects) /\ calls \in Seq(EvaluatorFrame)
      /\ evaluator_stack \in Seq(EvaluatorFrame) /\ evaluator_stack # <<>> /\ EvaluatorTop \in EvaluatorFrame
      /\ n \in 1..Len(heap) /\ n \in Pointer /\ heap[n].cell = "BINARY" /\ Len(EvaluatorTop.held) = 0
      /\ Pending(heap, EvaluatorTop) = evaluator.node
      /\ objects[hand] \in Objects /\ hand \in Pointer
  BY <1>1, ReturningTop DEF ReturnFromLeft
<1>3. EvaluatorTop.held = <<>>
  BY <1>2, EmptySeq DEF EvaluatorFrame
<1>4. PICK kid, next : kid = heap[n].kids[1] /\ next = heap[n].kids[2]
  OBVIOUS
<1>5. evaluator.node = kid
  BY <1>1, <1>2, <1>3, <1>4 DEF Pending
<1>6. PICK said, source, root, asked, now, env :
         /\ Readable(said, source) /\ root = Meaning[Expression][NoNames]
         /\ Wanted(said, source, root, objects, calls, asked)
         /\ asked[Len(calls) + 1].node = n /\ asked[Len(calls) + 1].env = env
         /\ Fits(said, source, root, n, env)
         /\ MeansAt(said, source, kid, env) = Answer(objects[hand], now)
         /\ Given(objects, variables, now)
  <2>1. PICK said, source, root, asked, now, env, before :
            /\ Readable(said, source) /\ root = Meaning[Expression][NoNames]
            /\ Wanted(said, source, root, objects, EvaluatorPop, asked)
            /\ asked[Len(EvaluatorPop) + 1].node = EvaluatorTop.node /\ asked[Len(EvaluatorPop) + 1].env = env
            /\ Fits(said, source, root, EvaluatorTop.node, env)
            /\ EvaluatorTop.held = <<>> => before = env
            /\ MeansAt(said, source, evaluator.node, before) = Answer(objects[evaluator.value], now)
            /\ Given(objects, variables, now)
    <3>1. EvaluatorReturning("BINARY", 0)
      BY DEF ReturnFromLeft
    <3> QED
      BY <3>1, AskedToReturn
  <2> QED
    BY <1>1, <1>3, <1>5, <2>1
<1>7. PICK frame : frame = [ node |-> n, held |-> << hand >> ]
  OBVIOUS
<1>8. /\ frame.node = n /\ frame.held = << hand >> /\ frame.held # <<>> /\ frame.held[1] = hand
      /\ frame \in EvaluatorFrame
  BY <1>2, <1>7 DEF EvaluatorFrame, Pointer
<1>9. next = Pending(heap, frame)
  BY <1>2, <1>4, <1>8 DEF Pending
<1>10. PICK value \in Objects : value = objects[hand]
  BY <1>2
<1>11. Fits(said, source, root, next, now)
  BY <1>2, <1>4, <1>6, <1>10, RightAsks
<1>12. PICK to : to = Question(next, now)
  OBVIOUS
<1>13. to.node = next /\ to.env = now
  BY <1>12 DEF Question
<1>14. Wants(said, source, objects, frame, asked[Len(calls) + 1], to)
  BY <1>4, <1>6, <1>8, <1>9, <1>13 DEF Wants
<1>15. PICK more, all :
          /\ more = Append(calls, frame) /\ Wanted(said, source, root, objects, more, all)
          /\ all[Len(more) + 1] = to
  <2>1. Fits(said, source, root, to.node, to.env)
    BY <1>11, <1>13
  <2>2. calls \in Seq(EvaluatorFrame) /\ frame \in EvaluatorFrame
    BY <1>2, <1>8
  <2>3. Wanted(said, source, root, objects, calls, asked)
    BY <1>6
  <2>4. PICK more : more = Pushed(calls, frame)
    OBVIOUS
  <2>5. \E all : Wanted(said, source, root, objects, more, all) /\ all[Len(more) + 1] = to
    BY <1>14, <2>1, <2>2, <2>3, <2>4, WantedMore
  <2> QED
    BY <2>4, <2>5 DEF Pushed
<1>16. /\ evaluator_stack' = more /\ evaluator' = Evaluate(next) /\ objects' = objects
       /\ variables' = variables /\ heap' = heap
  BY <1>1, <1>4, <1>7, <1>15 DEF ReturnFromLeft, TreeKept
<1>17. evaluator'.fn = "evaluate" /\ evaluator'.node = next
  BY <1>16 DEF Evaluate
<1>18. Computes(said, source, root, objects', variables', evaluator', evaluator_stack', all, now)
  BY <1>6, <1>13, <1>15, <1>16, <1>17 DEF Computes
<1> QED
  BY <1>6, <1>16, <1>18, ComputedNow

\* Both operands are there: the result is returned, or the division traps.
LEMMA ReturnFromRightComputes ==
  ASSUME EvaluationInv, ComputingInv, syntax' = syntax, ReturnFromRight
  PROVE  \/ evaluator'.fn # "trapped" /\ ComputingInv'
         \/ evaluator'.fn = "trapped" /\ Meaning[Expression][NoNames].value = Trap
<1>1. PICK n, hand, calls : n = EvaluatorTop.node /\ hand = evaluator.value /\ calls = EvaluatorPop
  OBVIOUS
<1>2. /\ heap \in Seq(Cell) /\ Typed(heap) /\ Blocks(objects)
      /\ evaluator_stack \in Seq(EvaluatorFrame) /\ evaluator_stack # <<>> /\ calls \in Seq(EvaluatorFrame)
      /\ n \in 1..Len(heap) /\ heap[n].cell = "BINARY" /\ Len(EvaluatorTop.held) = 1
      /\ Suspends(heap, objects, EvaluatorTop) /\ Pending(heap, EvaluatorTop) = evaluator.node
      /\ Owned(objects, variables, evaluator_stack, hand)
      /\ hand \in DOMAIN objects
      /\ objects[hand] \in Objects /\ objects[hand].type = heap[evaluator.node].type
  BY <1>1, ReturningTop DEF ReturnFromRight
<1>3. EvaluatorTop.held # <<>>
  <2>1. Len(EvaluatorTop.held) # 0
    BY <1>2
  <2>2. Len(<<>>) = 0
    OBVIOUS
  <2> QED
    BY <2>1, <2>2
<1>4. PICK op \in BinaryOperators, left \in 1..n - 1, right \in 1..n - 1 :
         /\ heap[n] = Binary(op, left, right)
         /\ heap[left].type = op.operand_type /\ heap[right].type = op.operand_type
  <2>1. heap \in Seq(Cell) /\ Typed(heap) /\ n \in 1..Len(heap) /\ heap[n].cell = "BINARY"
    BY <1>2
  <2> QED
    BY <2>1, TakeApart
<1>5. /\ heap[n].kids[1] = left /\ heap[n].kids[2] = right /\ heap[n].op = op.kind
  BY <1>4 DEF Binary
<1>6. evaluator.node = right
  BY <1>1, <1>2, <1>3, <1>5 DEF Pending
<1>7. PICK operand : operand = EvaluatorTop.held[1]
  OBVIOUS
<1>8. PICK fewer : fewer = Release(objects, { operand })
  OBVIOUS
<1>9. operand \in DOMAIN objects /\ operand # hand /\ Owned(fewer, variables, calls, hand)
  BY <1>1, <1>2, <1>3, <1>7, <1>8, OwnFreed DEF EvaluatorTop, EvaluatorPop
<1>10. PICK value \in Objects : value = objects[operand] /\ value.type = op.operand_type
  BY <1>1, <1>2, <1>3, <1>4, <1>5, <1>7, <1>9 DEF Suspends, Blocks
<1>11. PICK other \in Objects : other = objects[hand] /\ other.type = op.operand_type
  BY <1>2, <1>4, <1>6
<1>12. /\ BinaryOperandType(op.kind, value) = op.operand_type
       /\ ~(op.kind = "DIVISION" /\ DivisionTraps(value.i64, other.i64)) =>
             BinaryResult(op.kind, value, other) \in Objects
  BY <1>10, <1>11, BinaryComputes
<1>13. PICK said, source, root, asked, now, env, before :
         /\ Readable(said, source) /\ root = Meaning[Expression][NoNames]
         /\ Wanted(said, source, root, objects, calls, asked)
         /\ asked[Len(calls) + 1].node = n /\ asked[Len(calls) + 1].env = env
         /\ Fits(said, source, root, n, env)
         /\ MeansAt(said, source, left, env) = Answer(value, before)
         /\ MeansAt(said, source, right, before) = Answer(other, now)
         /\ Given(objects, variables, now)
  <2>1. PICK said, source, root, asked, now, env, before :
            /\ Readable(said, source) /\ root = Meaning[Expression][NoNames]
            /\ Wanted(said, source, root, objects, EvaluatorPop, asked)
            /\ asked[Len(EvaluatorPop) + 1].node = EvaluatorTop.node /\ asked[Len(EvaluatorPop) + 1].env = env
            /\ Fits(said, source, root, EvaluatorTop.node, env)
            /\ EvaluatorTop.held # <<>> =>
                  MeansAt(said, source, heap[EvaluatorTop.node].kids[1], env) =
                     Answer(objects[EvaluatorTop.held[1]], before)
            /\ MeansAt(said, source, evaluator.node, before) = Answer(objects[evaluator.value], now)
            /\ Given(objects, variables, now)
    <3>1. EvaluatorReturning("BINARY", 1)
      BY DEF ReturnFromRight
    <3> QED
      BY <3>1, AskedToReturn
  <2> QED
    BY <1>1, <1>3, <1>5, <1>6, <1>7, <1>10, <1>11, <2>1
<1>14. PICK x : x = IF op.kind = "DIVISION" /\ DivisionTraps(value.i64, other.i64) THEN Trap
                    ELSE BinaryResult(op.kind, value, other)
  OBVIOUS
<1>15. MeansAt(said, source, n, env) = Answer(x, now)
  BY <1>4, <1>10, <1>11, <1>13, <1>14, BinaryAnswers
<1>16. /\ evaluator_stack' = calls /\ variables' = variables /\ heap' = heap
  BY <1>1 DEF ReturnFromRight, TreeKept
<1>17. IF op.kind = "DIVISION" /\ DivisionTraps(value.i64, other.i64)
       THEN evaluator' = Stopped("trapped") /\ UNCHANGED objects
       ELSE Replace({ operand, hand }, BinaryResult(op.kind, value, other))
  <2>1. /\ operand \in DOMAIN objects /\ Holds(operand, BinaryOperandType(op.kind, value))
        /\ Holds(hand, BinaryOperandType(op.kind, value))
    BY <1>2, <1>9, <1>10, <1>11, <1>12 DEF Holds
  <2> QED
    BY <1>1, <1>5, <1>7, <1>10, <1>11, <2>1 DEF ReturnFromRight
<1>18. CASE op.kind = "DIVISION" /\ DivisionTraps(value.i64, other.i64)
  <2>1. evaluator'.fn = "trapped"
    BY <1>17, <1>18 DEF Stopped
  <2>2. MeansAt(said, source, n, env).value = Trap
    BY <1>14, <1>15, <1>18 DEF Answer
  <2>3. root.value = Trap
    BY <1>13, <2>2 DEF Fits, Leads
  <2> QED
    BY <1>13, <2>1, <2>3
<1>19. CASE ~(op.kind = "DIVISION" /\ DivisionTraps(value.i64, other.i64))
  <2>1. x \in Objects /\ x = BinaryResult(op.kind, value, other)
    BY <1>12, <1>14, <1>19
  <2>2. Replace({ operand, hand }, x)
    BY <1>17, <1>19, <2>1
  <2>3. /\ objects' = Allocate(Release(objects, { operand, hand }), x)
        /\ evaluator' = Evaluated(n, Fresh(Release(objects, { operand, hand })))
    BY <1>1, <2>2 DEF Replace
  <2>4. Release(objects, { operand, hand }) = Release(fewer, { hand })
    <3>1. DOMAIN fewer = DOMAIN objects \ { operand } /\ \A id \in DOMAIN fewer : fewer[id] = objects[id]
      BY <1>8 DEF Release
    <3>2. DOMAIN objects \ { operand, hand } = DOMAIN fewer \ { hand }
      BY <3>1
    <3> QED
      BY <3>1, <3>2 DEF Release
  <2>5. Blocks(fewer) /\ Keeps(objects, fewer)
    <3>1. Blocks(objects)
      BY <1>2
    <3>2. /\ Blocks(fewer) /\ DOMAIN fewer = DOMAIN objects \ { operand }
          /\ \A id \in DOMAIN objects \ { operand } : fewer[id] = objects[id]
      BY <3>1, <1>8, ReleaseBlocks
    <3> QED
      BY <3>2 DEF Keeps
  <2>6. Held(objects, calls) /\ Known(objects, variables) /\ Held(fewer, calls) /\ Known(fewer, variables)
    <3>1. Held(objects, evaluator_stack) /\ Known(objects, variables)
      BY <1>2, OwnedIsThere
    <3> QED
      BY <1>1, <1>2, <1>9, <3>1, OwnedIsThere, HeldPopped DEF EvaluatorPop
  <2>7. Wanted(said, source, root, fewer, calls, asked) /\ Given(fewer, variables, now)
    BY <1>13, <2>5, <2>6, WantedKept, GivenKept
  <2>8. PICK rest, new :
           /\ rest = Release(fewer, { hand }) /\ new = Allocate(rest, x)
           /\ Wanted(said, source, root, new, calls, asked) /\ Given(new, variables, now)
           /\ new[Fresh(rest)] = x
    BY <1>9, <2>1, <2>5, <2>7, ReplacedMeaning
  <2>9. objects' = new /\ evaluator' = Evaluated(n, Fresh(rest))
    BY <2>3, <2>4, <2>8
  <2>10. PICK id : id = Fresh(rest)
    OBVIOUS
  <2>11. /\ Wanted(said, source, root, objects', calls, asked) /\ Given(objects', variables', now)
         /\ evaluator' = Evaluated(n, id) /\ objects'[id] = x
    BY <1>16, <2>8, <2>9, <2>10
  <2>12. ComputingInv'
    BY <1>13, <1>15, <1>16, <2>11, ReturnedNow
  <2>13. evaluator'.fn # "trapped"
    BY <2>11 DEF Evaluated
  <2> QED
    BY <2>12, <2>13
<1> QED
  BY <1>18, <1>19

\* The map has the copy, which the meaning of what is left to do will find.
LEMMA AssignmentSteps ==
  ASSUME EvaluationInv, ReturnFromAssignment
  PROVE  \E n, hand, calls, name :
            /\ n = EvaluatorTop.node /\ hand = evaluator.value /\ calls = EvaluatorPop /\ name = NameAt(heap, n)
            /\ objects[hand] \in Objects /\ objects'[hand] = objects[hand]
            /\ Keeps(objects, objects') /\ Held(objects, calls) /\ Held(objects', calls)
            /\ Known(objects, variables) /\ Known(objects', variables')
            /\ DOMAIN variables' = DOMAIN variables \cup { name }
            /\ objects'[variables'[name].value] = objects[hand]
            /\ \A any \in DOMAIN variables : any # name => variables'[any] = variables[any]
            /\ evaluator' = Evaluated(n, hand) /\ evaluator_stack' = calls /\ heap' = heap
<1>0. PICK n, hand, calls, name :
         n = EvaluatorTop.node /\ hand = evaluator.value /\ calls = EvaluatorPop /\ name = NameAt(heap, n)
  OBVIOUS
<1>1. /\ Blocks(objects) /\ evaluator_stack \in Seq(EvaluatorFrame) /\ evaluator_stack # <<>>
      /\ EvaluatorTop \in EvaluatorFrame /\ Len(EvaluatorTop.held) = 0 /\ Held(objects, calls)
      /\ Owned(objects, variables, evaluator_stack, hand)
      /\ hand \in DOMAIN objects /\ hand \in Pointer /\ objects[hand] \in Objects
  BY <1>0, ReturningTop DEF ReturnFromAssignment
<1>2. EvaluatorTop.held = <<>>
  BY <1>1, EmptySeq DEF EvaluatorFrame
<1>3. name = NameOf(n)
  BY <1>0 DEF NameAt, NameOf
<1>4. PICK value \in Objects : value = objects[hand]
  BY <1>1
<1>5. PICK new \in Pointer : new = Fresh(objects) /\ new \notin DOMAIN objects
  BY <1>1, FreshIsNew
<1>6. PICK all : all = Allocate(objects, value)
  OBVIOUS
<1>7. /\ Blocks(all) /\ all[new] = value /\ new \in DOMAIN all
      /\ \A id \in DOMAIN objects : id \in DOMAIN all /\ all[id] = objects[id]
  <2>1. Blocks(objects)
    BY <1>1
  <2> QED
    BY <2>1, <1>5, <1>6, AllocateBlock
<1>8. PICK type : type = heap[heap[n].kids[1]].type
  OBVIOUS
<1>9. /\ Define(name, type, new, all) /\ evaluator' = Evaluated(n, hand)
      /\ evaluator_stack' = calls /\ heap' = heap
  <2>1. DupId(hand) = new /\ DupIn(hand) = all
    BY <1>1, <1>4, <1>5, <1>6 DEF DupId, DupIn, Null, Pointer
  <2> QED
    BY <1>0, <1>3, <1>8, <2>1 DEF ReturnFromAssignment, TreeKept
<1>10. Owned(objects, variables, calls, hand)
  BY <1>0, <1>1, <1>2, OwnPopped DEF EvaluatorPop, EvaluatorTop
<1>11. PICK kept :
          /\ variables' = WithName(variables, name, [ type |-> kept, value |-> new ])
          /\ objects' = IF name \in DOMAIN variables THEN Release(all, { variables[name].value }) ELSE all
  <2>1. CASE name \in DOMAIN variables
    BY <1>9, <2>1 DEF Define, WithVariable, WithName
  <2>2. CASE name \notin DOMAIN variables
    BY <1>9, <2>2 DEF Define, WithVariable, WithName
  <2> QED
    BY <2>1, <2>2
<1>12. PICK entry : entry = [ type |-> kept, value |-> new ]
  OBVIOUS
<1>13. /\ DOMAIN variables' = DOMAIN variables \cup { name } /\ variables'[name].value = new
       /\ \A any \in DOMAIN variables : any # name => variables'[any] = variables[any]
  BY <1>11 DEF WithName
<1>14. Owned(objects', variables', calls, hand)
  <2>1. Blocks(objects) /\ entry.value = Fresh(objects)
    BY <1>1, <1>5, <1>12
  <2>2. PICK every, more :
           /\ every = Allocate(objects, value) /\ more = WithName(variables, name, entry)
           /\ name \notin DOMAIN variables => Owned(every, more, calls, hand)
           /\ name \in DOMAIN variables =>
                 /\ Owned(Release(every, { variables[name].value }), more, calls, hand)
                 /\ variables[name].value \in DOMAIN objects \ { hand }
                 /\ \A other \in DOMAIN variables :
                       other # name => variables[other].value # variables[name].value
    BY <1>10, <2>1, OwnDefined
  <2>3. every = all /\ more = variables'
    BY <1>6, <1>11, <1>12, <2>2
  <2> QED
    BY <1>11, <2>2, <2>3
<1>15. \A id \in DOMAIN objects' : objects'[id] = all[id]
  BY <1>11 DEF Release
<1>16. Keeps(objects, objects')
  BY <1>7, <1>15 DEF Keeps
<1>17. Held(objects', calls) /\ Known(objects', variables') /\ Known(objects, variables)
  BY <1>10, <1>14, OwnedIsThere
<1>18. objects'[hand] = objects[hand]
  <2>1. hand \in DOMAIN objects'
    BY <1>1, <1>14 DEF Owned, Null, Pointer
  <2> QED
    BY <1>1, <1>7, <1>15, <2>1
<1>19. objects'[variables'[name].value] = objects[hand]
  <2>1. name \in DOMAIN variables' /\ new \in DOMAIN objects'
    BY <1>13, <1>17 DEF Known
  <2> QED
    BY <1>4, <1>7, <1>13, <1>15, <2>1
<1> QED
  BY <1>0, <1>1, <1>9, <1>13, <1>16, <1>17, <1>18, <1>19

\* The name that is assigned is one of those that the whole assigns.
LEMMA AskedToAssign ==
  ASSUME EvaluationInv, ComputingInv, ReturnFromAssignment, NEW n, n = EvaluatorTop.node,
         NEW calls, calls = EvaluatorPop, NEW name, name = NameAt(heap, n),
         NEW value, value = objects[evaluator.value], value \in Objects
  PROVE  \E said, source, root, asked, now, env, last :
            /\ Readable(said, source) /\ root = Meaning[Expression][NoNames]
            /\ Wanted(said, source, root, objects, calls, asked)
            /\ asked[Len(calls) + 1].node = n /\ asked[Len(calls) + 1].env = env
            /\ last = Extended(now, name, value) /\ MeansAt(said, source, n, env) = Answer(value, last)
            /\ Given(objects, variables, now) /\ DOMAIN last \subseteq DOMAIN root.env
<1>1. /\ EvaluatorTop \in EvaluatorFrame /\ heap[n].cell = "ASSIGNMENT" /\ Len(EvaluatorTop.held) = 0
      /\ Pending(heap, EvaluatorTop) = evaluator.node
  BY ReturningTop DEF ReturnFromAssignment
<1>2. EvaluatorTop.held = <<>>
  BY <1>1, EmptySeq DEF EvaluatorFrame
<1>3. PICK kid : kid = heap[n].kids[2]
  OBVIOUS
<1>4. evaluator.node = kid
  BY <1>1, <1>2, <1>3 DEF Pending
<1>5. PICK said, source, root, asked, now, env :
         /\ Readable(said, source) /\ root = Meaning[Expression][NoNames]
         /\ Wanted(said, source, root, objects, calls, asked)
         /\ asked[Len(calls) + 1].node = n /\ asked[Len(calls) + 1].env = env
         /\ Fits(said, source, root, n, env)
         /\ MeansAt(said, source, kid, env) = Answer(value, now)
         /\ Given(objects, variables, now)
  <2>1. PICK said, source, root, asked, now, env, before :
            /\ Readable(said, source) /\ root = Meaning[Expression][NoNames]
            /\ Wanted(said, source, root, objects, EvaluatorPop, asked)
            /\ asked[Len(EvaluatorPop) + 1].node = EvaluatorTop.node /\ asked[Len(EvaluatorPop) + 1].env = env
            /\ Fits(said, source, root, EvaluatorTop.node, env)
            /\ EvaluatorTop.held = <<>> => before = env
            /\ MeansAt(said, source, evaluator.node, before) = Answer(objects[evaluator.value], now)
            /\ Given(objects, variables, now)
    <3>1. EvaluatorReturning("ASSIGNMENT", 0)
      BY DEF ReturnFromAssignment
    <3> QED
      BY <3>1, AskedToReturn
  <2> QED
    BY <1>2, <1>4, <2>1
<1>6. PICK last : last = Extended(now, name, value)
  OBVIOUS
<1>7. MeansAt(said, source, n, env) = Answer(value, last)
  <2>1. Readable(said, source) /\ Fits(said, source, root, n, env)
    BY <1>5
  <2>2. heap[n].cell = "ASSIGNMENT"
    BY <1>1
  <2>3. MeansAt(said, source, kid, env) = Answer(value, now)
    BY <1>5
  <2>4. kid = heap[n].kids[2]
    BY <1>3
  <2>5. MeansAt(said, source, n, env) = Answer(value, Extended(now, NameAt(heap, n), value))
    BY <2>1, <2>2, <2>3, <2>4, AssignmentAnswers
  <2> QED
    BY <1>6, <2>5
<1>8. DOMAIN last \subseteq DOMAIN root.env
  <2>1. MeansAt(said, source, n, env).env = last
    BY <1>7 DEF Answer
  <2> QED
    BY <1>5, <2>1 DEF Fits, Leads
<1> QED
  BY <1>5, <1>6, <1>7, <1>8

LEMMA ReturnFromAssignmentComputes ==
  ASSUME EvaluationInv, ComputingInv, syntax' = syntax, ReturnFromAssignment PROVE ComputingInv'
<1>1. PICK n, hand, calls, name :
         /\ n = EvaluatorTop.node /\ hand = evaluator.value /\ calls = EvaluatorPop /\ name = NameAt(heap, n)
         /\ objects[hand] \in Objects /\ objects'[hand] = objects[hand]
         /\ Keeps(objects, objects') /\ Held(objects, calls) /\ Held(objects', calls)
         /\ Known(objects, variables) /\ Known(objects', variables')
         /\ DOMAIN variables' = DOMAIN variables \cup { name }
         /\ objects'[variables'[name].value] = objects[hand]
         /\ \A any \in DOMAIN variables : any # name => variables'[any] = variables[any]
         /\ evaluator' = Evaluated(n, hand) /\ evaluator_stack' = calls /\ heap' = heap
  BY AssignmentSteps
<1>2. PICK value \in Objects : value = objects[hand]
  BY <1>1
<1>3. PICK said, source, root, asked, now, env, last :
         /\ Readable(said, source) /\ root = Meaning[Expression][NoNames]
         /\ Wanted(said, source, root, objects, calls, asked)
         /\ asked[Len(calls) + 1].node = n /\ asked[Len(calls) + 1].env = env
         /\ last = Extended(now, name, value) /\ MeansAt(said, source, n, env) = Answer(value, last)
         /\ Given(objects, variables, now) /\ DOMAIN last \subseteq DOMAIN root.env
  <2>1. value = objects[evaluator.value]
    BY <1>1, <1>2
  <2> QED
    BY <1>1, <2>1, AskedToAssign
<1>4. Wanted(said, source, root, objects', calls, asked)
  BY <1>1, <1>3, WantedKept
<1>5. ASSUME NEW any \in DOMAIN last
      PROVE  any \in DOMAIN variables' /\ objects'[variables'[any].value] = last[any]
  <2>1. DOMAIN last = DOMAIN now \cup { name } /\ last[any] = IF any = name THEN value ELSE now[any]
    BY <1>3 DEF Extended
  <2>2. CASE any = name
    BY <1>1, <1>2, <2>1, <2>2
  <2>3. CASE any # name
    <3>1. any \in DOMAIN variables /\ objects[variables[any].value] = now[any]
      BY <1>3, <2>1, <2>3 DEF Given
    <3>2. any \in DOMAIN variables' /\ variables'[any] = variables[any]
      BY <1>1, <2>3, <3>1
    <3>3. variables[any].value \in DOMAIN objects /\ variables[any].value \in DOMAIN objects'
      BY <1>1, <3>1, <3>2 DEF Known
    <3> QED
      BY <1>1, <2>1, <2>3, <3>1, <3>2, <3>3 DEF Keeps
  <2> QED
    BY <2>2, <2>3
<1>6. Given(objects', variables', last)
  BY <1>5 DEF Given
<1> QED
  BY <1>1, <1>2, <1>3, <1>4, <1>6, ReturnedNow

\* Every step of the evaluator.
LEMMA ComputesNext ==
  ASSUME EvaluationInv, ComputingInv, EvaluatorNext, syntax' = syntax
  PROVE  /\ EvaluationInv' => ComputingInv'
         /\ evaluator'.fn = "trapped" => Meaning[Expression][NoNames].value = Trap
<1>1. CASE EvaluateLiteral
  BY <1>1, EvaluateLiteralComputes DEF EvaluateLiteral, Evaluated
<1>2. CASE EvaluateVariable
  BY <1>2, EvaluateVariableComputes DEF EvaluateVariable, Evaluated
<1>3. CASE EvaluateUnary
  BY <1>3, EvaluateUnaryComputes DEF EvaluateUnary, Evaluate
<1>4. CASE EvaluateBinary
  BY <1>4, EvaluateBinaryComputes DEF EvaluateBinary, Evaluate
<1>5. CASE EvaluateAssignment
  BY <1>5, EvaluateAssignmentComputes DEF EvaluateAssignment, Evaluate
<1>6. CASE ReturnFromUnary
  <2>1. evaluator'.fn # "trapped"
    BY <1>6 DEF ReturnFromUnary, Replace, Evaluated, Stopped
  <2> QED
    BY <1>6, <2>1, ReturnFromUnaryComputes
<1>7. CASE ReturnFromLeft
  BY <1>7, ReturnFromLeftComputes DEF ReturnFromLeft, Evaluate
<1>8. CASE ReturnFromRight
  <2>1. EvaluationInv' => evaluator'.fn # "trapped"
    BY DEF EvaluationInv, EvaluatorInv
  <2> QED
    BY <1>8, <2>1, ReturnFromRightComputes
<1>9. CASE ReturnFromAssignment
  BY <1>9, ReturnFromAssignmentComputes DEF ReturnFromAssignment, Evaluated
<1> QED
  BY <1>1, <1>2, <1>3, <1>4, <1>5, <1>6, <1>7, <1>8, <1>9 DEF EvaluatorNext

--------------------------------------------------------------------------------
(* The meaning and the steps of a session.                                      *)

\* The evaluator is started exactly when nobody reported anything.
LEMMA NothingReported ==
  ASSUME CompilationInv, phase = "binding"
  PROVE  (AllReports = <<>>) = (syntax.diagnostics = <<>> /\ reports = <<>>)
<1>1. reports \in Seq(BinderReports) /\ syntax.diagnostics \in Seq({ "lexical_error", "unexpected_token" })
  BY DEF CompilationInv, BinderInv, IsSyntaxTree
<1>2. PICK m, n \in Nat : m = Len(syntax.diagnostics) /\ n = Len(reports)
  <2>1. PICK m \in Nat : m = Len(syntax.diagnostics)
    BY <1>1
  <2>2. PICK n \in Nat : n = Len(reports)
    BY <1>1
  <2> QED
    BY <2>1, <2>2
<1>3. ASSUME AllReports = <<>> PROVE syntax.diagnostics = <<>> /\ reports = <<>>
  <2>1. Len(AllReports) = m + n
    BY <1>1, <1>2 DEF AllReports
  <2>2. m = 0 /\ n = 0
    BY <1>2, <1>3, <2>1
  <2> QED
    BY <1>1, <1>2, <2>2, EmptySeq
<1>4. ASSUME syntax.diagnostics = <<>>, reports = <<>> PROVE AllReports = <<>>
  BY <1>4 DEF AllReports
<1> QED
  BY <1>3, <1>4

\* The whole is asked for without a name.
LEMMA StartEvaluatorComputes ==
  ASSUME CompilationInv, Ruled, Made, StartEvaluator PROVE ComputingInv'
<1>1. /\ phase = "binding" /\ binder.fn = "done" /\ AllReports = <<>>
      /\ evaluator' = Evaluate(binder.node)
      /\ UNCHANGED << objects, variables, evaluator_stack, heap, syntax >>
  BY DEF StartEvaluator, binder_vars
<1>2. BinderInv /\ IsSyntaxTree(syntax) /\ evaluator_stack = <<>>
  BY <1>1 DEF CompilationInv, BinderInv
<1>3. syntax.diagnostics = <<>> /\ reports = <<>>
  BY <1>1, NothingReported
<1>4. PICK n : n = binder.node
  OBVIOUS
<1>5. heap \in Seq(Cell) /\ Typed(heap) /\ binder_stack = <<>> /\ n \in 1..Len(heap)
  BY <1>1, <1>2, <1>4, FinishedBinder DEF Builds
<1>6. PICK said, source : said = Said /\ Making(syntax, said, heap, source, binder, binder_stack)
  BY <1>1, <1>3 DEF Made, MakingInv
<1>7. Readable(said, source)
  BY <1>2, <1>3, <1>5, <1>6 DEF Readable, Making
<1>8. Expression \in 1..Len(syntax.nodes)
  BY <1>2 DEF IsSyntaxTree, Expression
<1>9. said[source[n]].typing = Typing[Expression] /\ said[source[n]].meaning = Meaning[Expression]
  <2>1. Len(<<>>) + 1 = 1
    OBVIOUS
  <2>2. Same(said, source[n], Expression)
    BY <1>1, <1>4, <1>5, <1>6, <2>1 DEF Making, Requested, Expression
  <2> QED
    BY <1>6, <1>8, <2>2, SaidIs DEF Same
<1>10. Typing[Expression][NoNames].ok
  BY <1>1, <1>3, ReportsFollow DEF ReportsIffIllTyped
<1>11. NoNames \in Environments(Objects) /\ TypesIn(NoNames) = NoNames /\ DOMAIN NoNames = {}
  BY DEF NoNames, Environments, TypesIn
<1>12. PICK root : root = Meaning[Expression][NoNames]
  OBVIOUS
<1>13. MeansAt(said, source, n, NoNames) = root /\ Fits(said, source, root, n, NoNames)
  <2>1. MeansAt(said, source, n, NoNames) = root
    BY <1>9, <1>12 DEF MeansAt
  <2> QED
    BY <1>5, <1>9, <1>10, <1>11, <2>1 DEF Fits, Leads
<1>14. PICK asked : asked = [ i \in 1..1 |-> Question(n, NoNames) ]
  OBVIOUS
<1>15. asked[1].node = n /\ asked[1].env = NoNames
  BY <1>14 DEF Question
<1>16. Len(<<>>) = 0 /\ 0 + 1 = 1 /\ 1..0 = {} /\ \A i \in 1..1 : i = 1
  OBVIOUS
<1>17. Wanted(said, source, root, objects, <<>>, asked)
  BY <1>13, <1>15, <1>16 DEF Wanted
<1>18. Given(objects, variables, NoNames)
  BY <1>11 DEF Given
<1>19. evaluator'.fn = "evaluate" /\ evaluator'.node = n
  BY <1>1, <1>4 DEF Evaluate
<1>20. Computes(said, source, root, objects', variables', evaluator', <<>>, asked, NoNames)
  BY <1>1, <1>15, <1>16, <1>17, <1>18, <1>19 DEF Computes
<1>21. evaluator_stack' = <<>>
  BY <1>1, <1>2
<1> QED
  BY <1>1, <1>7, <1>12, <1>20, <1>21, ComputedNow

\* And nobody waits for the value of the whole.
LEMMA WholeComputed ==
  ASSUME EvaluatorInv, ComputingInv, evaluator.fn = "return", evaluator_stack = <<>>,
         NEW root, root = Meaning[Expression][NoNames]
  PROVE  /\ evaluator.value \in DOMAIN objects /\ objects[evaluator.value] = root.value
         /\ Given(objects, variables, root.env)
<1>1. PICK said, source, asked, now :
         Computes(said, source, root, objects, variables, evaluator, evaluator_stack, asked, now)
  BY DEF ComputingInv
<1>2. Len(<<>>) + 1 = 1
  OBVIOUS
<1>3. root = Answer(objects[evaluator.value], now)
  BY <1>1, <1>2 DEF Computes, Wanted
<1> QED
  BY <1>1, <1>3 DEF EvaluatorInv, Computes, Answer

Meant ==
    /\ phase = "evaluating" => ComputingInv
    /\ phase = "dead" => Meaning[Expression][NoNames].value = Trap
    /\ ExpectsValue =>
          /\ result.value \in DOMAIN objects /\ objects[result.value] = Meaning[Expression][NoNames].value
          /\ Given(objects, variables, Meaning[Expression][NoNames].env)

LEMMA MeantNext == CompilationInv /\ CompilationInv' /\ Ruled /\ Made /\ Meant /\ [Next]_vars => Meant'
<1> SUFFICES ASSUME CompilationInv, CompilationInv', Ruled, Made, Meant, [Next]_vars PROVE Meant'
  OBVIOUS
<1>1. CASE phase' \in { "ready", "binding" }
  BY <1>1 DEF Meant, ExpectsValue
<1>2. CASE \E tree \in Trees : Submit(tree)
  BY <1>1, <1>2 DEF Submit
<1>3. CASE BindStep \/ PrintResult
  BY <1>1, <1>3 DEF BindStep, PrintResult
<1>4. CASE AnswerWithReports
  <2>1. phase' = "answered" /\ result'.diagnostics # <<>>
    BY <1>4 DEF AnswerWithReports
  <2> QED
    BY <2>1 DEF Meant, ExpectsValue
<1>5. CASE StartEvaluator
  <2>1. phase' = "evaluating" /\ ComputingInv'
    BY <1>5, StartEvaluatorComputes DEF StartEvaluator
  <2> QED
    BY <2>1 DEF Meant, ExpectsValue
<1>6. CASE EvaluateStep
  <2>1. /\ phase = "evaluating" /\ EvaluatorNext /\ syntax' = syntax
        /\ phase' = IF evaluator'.fn \in { "aborted", "trapped" } THEN "dead" ELSE phase
    BY <1>6 DEF EvaluateStep
  <2>2. EvaluationInv /\ ComputingInv
    BY <2>1 DEF CompilationInv, EvaluationInv, Meant, BinderInv, BoundBy
  <2>3. /\ EvaluationInv' => ComputingInv'
        /\ evaluator'.fn = "trapped" => Meaning[Expression][NoNames].value = Trap
    BY <2>1, <2>2, ComputesNext
  <2>4. Meaning' = Meaning /\ Expression' = Expression
    BY <2>1, SaidKept DEF Expression
  <2>5. CASE phase' = "dead"
    <3>1. evaluator'.fn = "trapped"
      BY <2>5 DEF CompilationInv
    <3> QED
      BY <2>3, <2>4, <2>5, <3>1 DEF Meant, ExpectsValue
  <2>6. CASE phase' = "evaluating"
    <3>1. EvaluationInv'
      BY <2>6 DEF CompilationInv, EvaluationInv, BinderInv, BoundBy
    <3> QED
      BY <2>3, <2>6, <3>1 DEF Meant, ExpectsValue
  <2> QED
    BY <2>1, <2>5, <2>6
<1>7. CASE AnswerWithValue
  <2>1. /\ phase = "evaluating" /\ phase' = "answered" /\ syntax' = syntax
        /\ evaluator.fn = "return" /\ evaluator_stack = <<>>
        /\ result'.value = evaluator.value /\ UNCHANGED << objects, variables >>
    BY <1>7 DEF AnswerWithValue
  <2>2. EvaluatorInv /\ ComputingInv
    BY <2>1 DEF CompilationInv, Meant
  <2>3. PICK root : root = Meaning[Expression][NoNames]
    OBVIOUS
  <2>4. /\ evaluator.value \in DOMAIN objects /\ objects[evaluator.value] = root.value
        /\ Given(objects, variables, root.env)
    BY <2>1, <2>2, <2>3, WholeComputed
  <2>5. Meaning[Expression][NoNames]' = root
    BY <2>1, <2>3, SaidKept DEF Expression
  <2> QED
    BY <2>1, <2>4, <2>5 DEF Meant, ExpectsValue, Given
<1>8. CASE UNCHANGED vars
  <2>1. UNCHANGED << syntax, heap, objects, variables, evaluator, evaluator_stack, phase, result >>
    BY <1>8 DEF vars, binder_vars, evaluator_vars
  <2>2. Meaning' = Meaning /\ Expression' = Expression
    BY <2>1, SaidKept DEF Expression
  <2>3. ComputingInv => ComputingInv'
    <3> SUFFICES ASSUME ComputingInv PROVE ComputingInv'
      OBVIOUS
    <3>1. PICK said, source, root, asked, now :
             /\ Readable(said, source) /\ root = Meaning[Expression][NoNames]
             /\ Computes(said, source, root, objects, variables, evaluator, evaluator_stack, asked, now)
      BY DEF ComputingInv
    <3>2. Computes(said, source, root, objects', variables', evaluator', evaluator_stack', asked, now)
      BY <2>1, <3>1
    <3> QED
      BY <2>1, <3>1, <3>2, ComputedNow
  <2> QED
    BY <2>1, <2>2, <2>3 DEF Meant, ExpectsValue, Given
<1> QED
  BY <1>2, <1>3, <1>4, <1>5, <1>6, <1>7, <1>8 DEF Next, CompilationStep

\* What is answered is a value, so it is no trap.
LEMMA MeaningFollows == CompilationInv /\ Meant => AnswerIsMeaning
<1> SUFFICES ASSUME CompilationInv, Meant, ExpectsValue \/ phase = "dead",
                    NEW root, root = Meaning[Expression][NoNames]
             PROVE  /\ phase = "dead" <=> root.value = Trap
                    /\ ExpectsValue =>
                          /\ result.value \in DOMAIN objects /\ objects[result.value] = root.value
                          /\ \A name \in DOMAIN root.env :
                                name \in DOMAIN variables /\ objects[variables[name].value] = root.env[name]
  BY DEF AnswerIsMeaning
<1>1. phase = "dead" => root.value = Trap
  BY DEF Meant
<1>2. ExpectsValue =>
         /\ result.value \in DOMAIN objects /\ objects[result.value] = root.value
         /\ Given(objects, variables, root.env)
  BY DEF Meant
<1>3. ExpectsValue => root.value \in Objects
  BY <1>2 DEF CompilationInv, Values, Blocks
<1> QED
  BY <1>1, <1>2, <1>3, TrapIsNoObject DEF Given

\* The answer of evaluator_evaluate to an accepted submission is what its syntax tree means:
\* the operands are evaluated in order and each of them, a variable that was read has the value
\* that was assigned before it in the same submission, one that was assigned keeps it for the
\* next one, and the process dies of a division exactly when it has no quotient, whatever the
\* submissions before, the names and the width of an integer.
THEOREM TheAnswerIsTheMeaning == Spec => []AnswerIsMeaning
<1>1. Init => Ruled /\ Made /\ Meant
  BY DEF Init, CompilationInit, Ruled, Made, Meant, ExpectsValue
<1>2. CompilationInv /\ Ruled /\ [Next]_vars => Ruled'
  BY RuledNext
<1>3. CompilationInv /\ Made /\ [Next]_vars => Made'
  BY MadeNext
<1>4. CompilationInv /\ CompilationInv' /\ Ruled /\ Made /\ Meant /\ [Next]_vars => Meant'
  BY MeantNext
<1>5. CompilationInv /\ Meant => AnswerIsMeaning
  BY MeaningFollows
<1> QED
  BY <1>1, <1>2, <1>3, <1>4, <1>5, CompilationInvariant, PTL DEF Spec

--------------------------------------------------------------------------------
(* What happens to the other variables while a submission is evaluated.         *)

\* A block more, or one less that no variable has.
LEMMA AllocatedValues ==
  ASSUME NEW objs, Blocks(objs), NEW map, Known(objs, map), NEW env, Given(objs, map, env), NEW value,
         NEW new, new = Allocate(objs, value)
  PROVE  Given(new, map, env) /\ Known(new, map)
<1>1. PICK fresh : fresh = Fresh(objs) /\ fresh \notin DOMAIN objs
  BY FreshIsNew
<1>2. DOMAIN new = DOMAIN objs \cup { fresh } /\ \A id \in DOMAIN objs : new[id] = objs[id]
  BY <1>1 DEF Allocate
<1> QED
  BY <1>2 DEF Given, Known

LEMMA ReleasedValues ==
  ASSUME NEW objs, Blocks(objs), NEW map, NEW calls, NEW hand, Owned(objs, map, calls, hand),
         NEW env, Given(objs, map, env), NEW rest, rest = Release(objs, { hand })
  PROVE  Blocks(rest) /\ Given(rest, map, env) /\ Known(rest, map)
<1>1. /\ Blocks(rest) /\ DOMAIN rest = DOMAIN objs \ { hand }
      /\ \A id \in DOMAIN objs \ { hand } : rest[id] = objs[id]
  BY ReleaseBlocks
<1>2. Known(objs, map) /\ Known(rest, map)
  BY OwnReleased, OwnedIsThere
<1> QED
  BY <1>1, <1>2, GivenKept DEF Keeps

\* But for the one step that assigns, no variable changes.
LEMMA OperandKeepsValues ==
  ASSUME EvaluationInv, EvaluateLiteral \/ EvaluateVariable, NEW env, Given(objects, variables, env)
  PROVE  variables' = variables /\ Given(objects', variables', env)
<1>1. variables' = variables /\ (objects' = objects \/ \E value : objects' = Allocate(objects, value))
  <2>1. CASE EvaluateLiteral
    BY <2>1 DEF EvaluateLiteral
  <2>2. CASE EvaluateVariable
    BY <2>2 DEF EvaluateVariable, DupIn
  <2> QED
    BY <2>1, <2>2
<1>2. Blocks(objects) /\ Known(objects, variables)
  BY OwnedIsThere DEF EvaluationInv, Values
<1> QED
  BY <1>1, <1>2, AllocatedValues

LEMMA UnaryKeepsValues ==
  ASSUME EvaluationInv, ReturnFromUnary, NEW env, Given(objects, variables, env)
  PROVE  variables' = variables /\ Given(objects', variables', env)
<1>1. PICK hand, calls : hand = evaluator.value /\ calls = EvaluatorPop
  OBVIOUS
<1>2. /\ Blocks(objects) /\ evaluator_stack \in Seq(EvaluatorFrame) /\ evaluator_stack # <<>>
      /\ EvaluatorTop \in EvaluatorFrame /\ Len(EvaluatorTop.held) = 0
      /\ Owned(objects, variables, evaluator_stack, hand)
  BY <1>1, ReturningTop DEF ReturnFromUnary
<1>3. EvaluatorTop.held = <<>>
  BY <1>2, EmptySeq DEF EvaluatorFrame
<1>4. Owned(objects, variables, calls, hand)
  BY <1>1, <1>2, <1>3, OwnPopped DEF EvaluatorPop, EvaluatorTop
<1>5. PICK rest : rest = Release(objects, { hand })
  OBVIOUS
<1>6. variables' = variables /\ (objects' = objects \/ \E value : objects' = Allocate(rest, value))
  BY <1>1, <1>5 DEF ReturnFromUnary, Replace
<1>7. Blocks(rest) /\ Given(rest, variables, env) /\ Known(rest, variables)
  BY <1>2, <1>4, <1>5, ReleasedValues
<1> QED
  BY <1>6, <1>7, AllocatedValues

LEMMA BinaryKeepsValues ==
  ASSUME EvaluationInv, ReturnFromRight, NEW env, Given(objects, variables, env)
  PROVE  variables' = variables /\ Given(objects', variables', env)
<1>1. PICK hand, calls, operand : hand = evaluator.value /\ calls = EvaluatorPop /\ operand = EvaluatorTop.held[1]
  OBVIOUS
<1>2. /\ Blocks(objects) /\ evaluator_stack \in Seq(EvaluatorFrame) /\ evaluator_stack # <<>>
      /\ Len(EvaluatorTop.held) = 1 /\ Owned(objects, variables, evaluator_stack, hand)
  BY <1>1, ReturningTop DEF ReturnFromRight
<1>3. EvaluatorTop.held # <<>>
  <2>1. Len(EvaluatorTop.held) # 0
    BY <1>2
  <2>2. Len(<<>>) = 0
    OBVIOUS
  <2> QED
    BY <2>1, <2>2
<1>4. PICK fewer, rest : fewer = Release(objects, { operand }) /\ rest = Release(fewer, { hand })
  OBVIOUS
<1>5. Owned(fewer, variables, calls, hand)
  BY <1>1, <1>2, <1>3, <1>4, OwnFreed DEF EvaluatorTop, EvaluatorPop
<1>6. Blocks(fewer) /\ Given(fewer, variables, env)
  <2>1. /\ Blocks(fewer) /\ DOMAIN fewer = DOMAIN objects \ { operand }
        /\ \A id \in DOMAIN objects \ { operand } : fewer[id] = objects[id]
    BY <1>2, <1>4, ReleaseBlocks
  <2>2. Known(objects, variables) /\ Known(fewer, variables)
    BY <1>2, <1>5, OwnedIsThere
  <2> QED
    BY <2>1, <2>2, GivenKept DEF Keeps
<1>7. Blocks(rest) /\ Given(rest, variables, env) /\ Known(rest, variables)
  BY <1>4, <1>5, <1>6, ReleasedValues
<1>8. Release(objects, { operand, hand }) = rest
  <2>1. DOMAIN fewer = DOMAIN objects \ { operand } /\ \A id \in DOMAIN fewer : fewer[id] = objects[id]
    BY <1>4 DEF Release
  <2>2. DOMAIN objects \ { operand, hand } = DOMAIN fewer \ { hand }
    BY <2>1
  <2> QED
    BY <1>4, <2>1, <2>2 DEF Release
<1>9. variables' = variables /\ (objects' = objects \/ \E value : objects' = Allocate(rest, value))
  BY <1>1, <1>8 DEF ReturnFromRight, Replace
<1> QED
  BY <1>7, <1>9, AllocatedValues

\* A variable that the submission does not assign keeps its value, and none but those it
\* assigns are defined.
LEMMA OthersKeepTheirValues ==
  ASSUME EvaluationInv, ComputingInv, EvaluatorNext, NEW names, names = DOMAIN Meaning[Expression][NoNames].env
  PROVE  /\ DOMAIN variables' \cup names = DOMAIN variables \cup names
         /\ \A any \in DOMAIN variables \ names : objects'[variables'[any].value] = objects[variables[any].value]
<1>1. CASE ~ReturnFromAssignment
  <2>1. PICK env : env = [ any \in DOMAIN variables |-> objects[variables[any].value] ]
    OBVIOUS
  <2>2. DOMAIN env = DOMAIN variables /\ Given(objects, variables, env)
    BY <2>1 DEF Given
  <2>3. variables' = variables /\ Given(objects', variables', env)
    <3>1. CASE EvaluateUnary \/ EvaluateBinary \/ EvaluateAssignment \/ ReturnFromLeft
      <4>1. UNCHANGED << objects, variables >>
        BY <3>1 DEF EvaluateUnary, EvaluateBinary, EvaluateAssignment, ReturnFromLeft
      <4> QED
        BY <2>2, <4>1
    <3> QED
      BY <1>1, <2>2, <3>1, OperandKeepsValues, UnaryKeepsValues, BinaryKeepsValues DEF EvaluatorNext
  <2> QED
    BY <2>1, <2>2, <2>3 DEF Given
<1>2. CASE ReturnFromAssignment
  <2>1. PICK n, hand, calls, name :
           /\ n = EvaluatorTop.node /\ hand = evaluator.value /\ calls = EvaluatorPop /\ name = NameAt(heap, n)
           /\ objects[hand] \in Objects /\ objects'[hand] = objects[hand]
           /\ Keeps(objects, objects') /\ Held(objects, calls) /\ Held(objects', calls)
           /\ Known(objects, variables) /\ Known(objects', variables')
           /\ DOMAIN variables' = DOMAIN variables \cup { name }
           /\ objects'[variables'[name].value] = objects[hand]
           /\ \A any \in DOMAIN variables : any # name => variables'[any] = variables[any]
           /\ evaluator' = Evaluated(n, hand) /\ evaluator_stack' = calls /\ heap' = heap
    BY <1>2, AssignmentSteps
  <2>2. name \in names
    <3>1. PICK value : value = objects[evaluator.value] /\ value \in Objects
      BY <2>1
    <3>2. PICK said, source, root, asked, now, env, last :
             /\ Readable(said, source) /\ root = Meaning[Expression][NoNames]
             /\ Wanted(said, source, root, objects, calls, asked)
             /\ asked[Len(calls) + 1].node = n /\ asked[Len(calls) + 1].env = env
             /\ last = Extended(now, name, value) /\ MeansAt(said, source, n, env) = Answer(value, last)
             /\ Given(objects, variables, now) /\ DOMAIN last \subseteq DOMAIN root.env
      BY <1>2, <2>1, <3>1, AskedToAssign
    <3> QED
      BY <3>2 DEF Extended
  <2>3. ASSUME NEW any \in DOMAIN variables \ names
        PROVE  objects'[variables'[any].value] = objects[variables[any].value]
    <3>1. variables'[any] = variables[any] /\ any \in DOMAIN variables'
      BY <2>1, <2>2
    <3>2. variables[any].value \in DOMAIN objects /\ variables[any].value \in DOMAIN objects'
      BY <2>1, <3>1 DEF Known
    <3> QED
      BY <2>1, <3>1, <3>2 DEF Keeps
  <2> QED
    BY <2>1, <2>2, <2>3
<1> QED
  BY <1>1, <1>2

--------------------------------------------------------------------------------
(* The session that the states of a compilation stand for.                      *)

\* A submission is one of the session, and says what it says until it is done with.
LEMMA DenotationIs == CompilationInv /\ phase # "ready" => Denotation \in OpenSession!Submission
<1> SUFFICES ASSUME CompilationInv, phase # "ready" PROVE Denotation \in OpenSession!Submission
  OBVIOUS
<1>1. IsSyntaxTree(syntax) /\ Expression \in 1..Len(syntax.nodes)
  BY DEF CompilationInv, BinderInv, IsSyntaxTree, Expression
<1>2. NoNames \in Environments(Objects) /\ TypesIn(NoNames) = NoNames
  BY DEF NoNames, Environments, TypesIn
<1>3. OpenSession!Stores = Environments(Objects)
  BY DEF OpenSession!Stores, Environments
<1>4. CASE syntax.diagnostics = <<>> /\ Typing[Expression][NoNames].ok
  <2>1. PICK typing : typing = Typing[Expression][TypesIn(NoNames)] /\ typing.ok
    BY <1>2, <1>4
  <2>2. PICK value \in Objects \cup { Trap }, after \in Environments(Objects) :
           Meaning[Expression][NoNames] = Answer(value, after)
    BY <1>1, <1>2, <1>4, <2>1, HasMeaning
  <2>3. Denotation = [ accepted |-> TRUE, value |-> value, assigns |-> after ]
    BY <1>4, <2>2 DEF Denotation, Answer
  <2> QED
    BY <1>3, <2>3 DEF OpenSession!Submission
<1>5. CASE ~(syntax.diagnostics = <<>> /\ Typing[Expression][NoNames].ok)
  <2>1. Denotation = [ accepted |-> FALSE, value |-> Trap, assigns |-> NoNames ]
    BY <1>5 DEF Denotation
  <2> QED
    BY <1>2, <1>3, <2>1 DEF OpenSession!Submission
<1> QED
  BY <1>4, <1>5

LEMMA DenotationKept == syntax' = syntax => Denotation' = Denotation
<1> SUFFICES ASSUME syntax' = syntax PROVE Denotation' = Denotation
  OBVIOUS
<1>1. Typing' = Typing /\ Meaning' = Meaning /\ Expression' = Expression
  BY TypingKept, SaidKept
<1> QED
  BY <1>1 DEF Denotation

\* It is accepted when nobody reported anything.
LEMMA Accepting ==
  ASSUME CompilationInv, Ruled, binder.fn = "done", syntax.diagnostics = <<>>, reports = <<>>,
         NEW root, root = Meaning[Expression][NoNames]
  PROVE  Denotation.accepted /\ Denotation.value = root.value /\ Denotation.assigns = root.env
<1>1. Typing[Expression][NoNames].ok
  BY ReportsFollow DEF ReportsIffIllTyped
<1>2. Denotation = [ accepted |-> TRUE, value |-> root.value, assigns |-> root.env ]
  BY <1>1 DEF Denotation
<1> QED
  BY <1>2

LEMMA Refusing ==
  ASSUME CompilationInv, Ruled, binder.fn = "done", ~(syntax.diagnostics = <<>> /\ reports = <<>>)
  PROVE  ~Denotation.accepted
<1>1. ~(syntax.diagnostics = <<>> /\ Typing[Expression][NoNames].ok)
  BY ReportsFollow DEF ReportsIffIllTyped
<1>2. Denotation = [ accepted |-> FALSE, value |-> Trap, assigns |-> NoNames ]
  BY <1>1 DEF Denotation
<1> QED
  BY <1>2

\* The store of the session, as the variables are and with what is yet to be assigned.
Stored(objs, map) == [ any \in DOMAIN map |-> objs[map[any].value] ]
StoredWith(objs, map, assigns) ==
    [ any \in DOMAIN map \cup DOMAIN assigns |->
        IF any \in DOMAIN assigns THEN assigns[any] ELSE objs[map[any].value] ]

LEMMA StoreAtRest == ~Running => SessionStore = Stored(objects, variables)
<1> SUFFICES ASSUME ~Running PROVE SessionStore = Stored(objects, variables)
  OBVIOUS
<1>1. DOMAIN NoNames = {}
  BY DEF NoNames
<1>2. DOMAIN variables \cup {} = DOMAIN variables
  OBVIOUS
<1> QED
  BY <1>1, <1>2 DEF SessionStore, Stored

LEMMA StoreRunning ==
  ASSUME Running, NEW assigns, assigns = Denotation.assigns
  PROVE  SessionStore = StoredWith(objects, variables, assigns)
BY DEF SessionStore, StoredWith

LEMMA StoreDone ==
  ASSUME NEW objs, NEW map, NEW assigns, Given(objs, map, assigns)
  PROVE  StoredWith(objs, map, assigns) = Stored(objs, map)
<1>1. DOMAIN map \cup DOMAIN assigns = DOMAIN map
  BY DEF Given
<1>2. \A any \in DOMAIN assigns : objs[map[any].value] = assigns[any]
  BY DEF Given
<1> QED
  BY <1>1, <1>2 DEF StoredWith, Stored

LEMMA StoreKept ==
  ASSUME NEW objs, NEW map, NEW new, NEW other, NEW assigns, NEW names, names = DOMAIN assigns,
         DOMAIN other \cup names = DOMAIN map \cup names,
         \A any \in DOMAIN map \ names : new[other[any].value] = objs[map[any].value]
  PROVE  StoredWith(new, other, assigns) = StoredWith(objs, map, assigns)
BY DEF StoredWith

\* Every step of a submission is one of the session, or none.
LEMMA SubmitsToSession ==
  ASSUME CompilationInv, CompilationInv', NEW tree, Submit(tree) PROVE OpenSession!Submit
<1>1. phase = "ready" /\ phase' = "binding" /\ UNCHANGED << objects, variables >>
  BY DEF Submit, evaluator_vars
<1>2. (CompilationInv /\ phase # "ready" => Denotation \in OpenSession!Submission)'
  BY DenotationIs, PTL
<1>3. Denotation' \in OpenSession!Submission
  BY <1>1, <1>2 DEF OpenSession!Submission, OpenSession!Stores
<1>4. SessionSubmission = <<>> /\ SessionSubmission' = << Denotation' >>
  BY <1>1 DEF SessionSubmission, UnderWay
<1>5. SessionReply = <<>> /\ SessionReply' = <<>>
  BY <1>1 DEF SessionReply, Running
<1>6. SessionStore' = SessionStore
  BY <1>1 DEF SessionStore, Running, NoNames
<1>7. << Denotation' >> # <<>> /\ << Denotation' >>[1] = Denotation'
  OBVIOUS
<1> QED
  BY <1>3, <1>4, <1>5, <1>6, <1>7 DEF OpenSession!Submit, OpenSession!None

LEMMA BindingIsNoStep == CompilationInv /\ BindStep => UNCHANGED OpenSession!session_vars
<1> SUFFICES ASSUME CompilationInv, BindStep PROVE UNCHANGED OpenSession!session_vars
  OBVIOUS
<1>1. phase = "binding" /\ phase' = "binding" /\ UNCHANGED << objects, variables >> /\ syntax' = syntax
  BY DEF BindStep, evaluator_vars, BinderNext, BindLiteral, BindUnary, BindBinary, BindParenthesized, BindDeclaredName,
         BindUndefinedName, BindAssignment, FinishUnary, FinishLeft, FinishBinary, FinishAssignment,
         FinishGlobalScope, TreeUnchanged
<1>2. SessionSubmission' = SessionSubmission
  BY <1>1, DenotationKept DEF SessionSubmission, UnderWay
<1>3. SessionReply' = SessionReply
  BY <1>1 DEF SessionReply, Running
<1>4. SessionStore' = SessionStore
  BY <1>1 DEF SessionStore, Running, NoNames
<1> QED
  BY <1>2, <1>3, <1>4 DEF OpenSession!session_vars

LEMMA ReportsAreRefusal == CompilationInv /\ Ruled /\ AnswerWithReports => OpenSession!Refuse
<1> SUFFICES ASSUME CompilationInv, Ruled, AnswerWithReports PROVE OpenSession!Refuse
  OBVIOUS
<1>1. /\ phase = "binding" /\ phase' = "answered" /\ binder.fn = "done" /\ AllReports # <<>>
      /\ result'.diagnostics # <<>> /\ UNCHANGED << objects, variables >> /\ syntax' = syntax
  BY DEF AnswerWithReports, evaluator_vars
<1>2. ~Denotation.accepted
  BY <1>1, NothingReported, Refusing
<1>3. SessionSubmission = << Denotation >> /\ SessionSubmission' = SessionSubmission
  BY <1>1, DenotationKept DEF SessionSubmission, UnderWay
<1>4. SessionReply = <<>> /\ SessionReply' = << [ type |-> "refusal" ] >>
  BY <1>1 DEF SessionReply, Running
<1>5. SessionStore' = SessionStore
  BY <1>1 DEF SessionStore, Running, NoNames
<1>6. << Denotation >> # <<>> /\ << Denotation >>[1] = Denotation
  OBVIOUS
<1> QED
  BY <1>2, <1>3, <1>4, <1>5, <1>6
  DEF OpenSession!Refuse, OpenSession!Waiting, OpenSession!None, OpenSession!The, OpenSession!Refusal

LEMMA StartCarriesOut == CompilationInv /\ Ruled /\ StartEvaluator => OpenSession!CarryOut
<1> SUFFICES ASSUME CompilationInv, Ruled, StartEvaluator PROVE OpenSession!CarryOut
  OBVIOUS
<1>1. /\ phase = "binding" /\ phase' = "evaluating" /\ binder.fn = "done" /\ AllReports = <<>>
      /\ UNCHANGED << objects, variables >> /\ syntax' = syntax
  BY DEF StartEvaluator, binder_vars
<1>2. Denotation.accepted
  BY <1>1, NothingReported, Accepting
<1>3. SessionSubmission = << Denotation >> /\ SessionSubmission' = SessionSubmission /\ Denotation' = Denotation
  BY <1>1, DenotationKept DEF SessionSubmission, UnderWay
<1>4. SessionReply = <<>> /\ SessionReply' = << Denotation.value >>
  BY <1>1, <1>3 DEF SessionReply, Running
<1>5. PICK assigns : assigns = Denotation.assigns
  OBVIOUS
<1>6. SessionStore' = StoredWith(objects, variables, assigns)
  <2>1. assigns = Denotation.assigns'
    BY <1>3, <1>5
  <2> QED
    BY <1>1, <2>1 DEF SessionStore, StoredWith, Running
<1>7. SessionStore = Stored(objects, variables)
  BY <1>1, StoreAtRest DEF Running
<1>8. SessionStore' = [ name \in DOMAIN SessionStore \cup DOMAIN assigns |->
                          IF name \in DOMAIN assigns THEN assigns[name] ELSE SessionStore[name] ]
  <2>1. DOMAIN SessionStore = DOMAIN variables
    BY <1>7 DEF Stored
  <2>2. \A name \in DOMAIN variables : SessionStore[name] = objects[variables[name].value]
    BY <1>7 DEF Stored
  <2> QED
    BY <1>6, <2>1, <2>2 DEF StoredWith
<1>9. << Denotation >> # <<>> /\ << Denotation >>[1] = Denotation
  OBVIOUS
<1> QED
  BY <1>2, <1>3, <1>4, <1>5, <1>8, <1>9
  DEF OpenSession!CarryOut, OpenSession!Waiting, OpenSession!None, OpenSession!The

LEMMA EvaluatingIsNoStep ==
  CompilationInv /\ Ruled /\ Meant /\ EvaluateStep => UNCHANGED OpenSession!session_vars
<1> SUFFICES ASSUME CompilationInv, Ruled, Meant, EvaluateStep PROVE UNCHANGED OpenSession!session_vars
  OBVIOUS
<1>1. phase = "evaluating" /\ EvaluatorNext /\ syntax' = syntax /\ phase' \in { "evaluating", "dead" }
  BY DEF EvaluateStep
<1>2. /\ EvaluationInv /\ ComputingInv /\ binder.fn = "done" /\ syntax.diagnostics = <<>> /\ reports = <<>>
  BY <1>1 DEF CompilationInv, EvaluationInv, Meant, BinderInv, BoundBy, Clean
<1>3. SessionSubmission' = SessionSubmission /\ Denotation' = Denotation
  BY <1>1, DenotationKept DEF SessionSubmission, UnderWay
<1>4. SessionReply' = SessionReply
  BY <1>1, <1>3 DEF SessionReply, Running
<1>5. PICK root, assigns : root = Meaning[Expression][NoNames] /\ assigns = root.env
  OBVIOUS
<1>6. Denotation.assigns = assigns /\ Denotation.assigns' = assigns
  BY <1>2, <1>3, <1>5, Accepting
<1>7. SessionStore = StoredWith(objects, variables, assigns) /\ SessionStore' = StoredWith(objects', variables', assigns)
  BY <1>1, <1>6 DEF SessionStore, StoredWith, Running
<1>8. PICK names : names = DOMAIN assigns
  OBVIOUS
<1>9. /\ DOMAIN variables' \cup names = DOMAIN variables \cup names
      /\ \A any \in DOMAIN variables \ names : objects'[variables'[any].value] = objects[variables[any].value]
  BY <1>1, <1>2, <1>5, <1>8, OthersKeepTheirValues
<1>10. SessionStore' = SessionStore
  BY <1>7, <1>8, <1>9, StoreKept
<1> QED
  BY <1>3, <1>4, <1>10 DEF OpenSession!session_vars

LEMMA AnsweringIsNoStep ==
  CompilationInv /\ Ruled /\ Meant /\ AnswerWithValue => UNCHANGED OpenSession!session_vars
<1> SUFFICES ASSUME CompilationInv, Ruled, Meant, AnswerWithValue PROVE UNCHANGED OpenSession!session_vars
  OBVIOUS
<1>1. /\ phase = "evaluating" /\ phase' = "answered" /\ syntax' = syntax
      /\ evaluator.fn = "return" /\ evaluator_stack = <<>>
      /\ result'.value = evaluator.value /\ result'.diagnostics = <<>> /\ UNCHANGED << objects, variables >>
  BY DEF AnswerWithValue
<1>2. /\ EvaluatorInv /\ ComputingInv /\ binder.fn = "done" /\ syntax.diagnostics = <<>> /\ reports = <<>>
  BY <1>1 DEF CompilationInv, Meant, Clean
<1>3. SessionSubmission' = SessionSubmission
  BY <1>1, DenotationKept DEF SessionSubmission, UnderWay
<1>4. PICK root, assigns : root = Meaning[Expression][NoNames] /\ assigns = root.env
  OBVIOUS
<1>5. Denotation.assigns = assigns /\ Denotation.value = root.value
  BY <1>2, <1>4, Accepting
<1>6. objects[evaluator.value] = root.value /\ Given(objects, variables, assigns)
  BY <1>1, <1>2, <1>4, WholeComputed
<1>7. SessionReply = << root.value >> /\ SessionReply' = << root.value >>
  BY <1>1, <1>5, <1>6 DEF SessionReply, Running
<1>8. SessionStore = StoredWith(objects, variables, assigns)
  BY <1>1, <1>5, StoreRunning DEF Running
<1>9. SessionStore' = Stored(objects, variables)
  <2>1. (~Running => SessionStore = Stored(objects, variables))'
    BY StoreAtRest, PTL
  <2> QED
    BY <1>1, <2>1 DEF Running, Stored
<1>10. SessionStore' = SessionStore
  BY <1>6, <1>8, <1>9, StoreDone
<1> QED
  BY <1>3, <1>7, <1>10 DEF OpenSession!session_vars

LEMMA PrintingDelivers == CompilationInv /\ Meant /\ PrintResult => OpenSession!Deliver
<1> SUFFICES ASSUME CompilationInv, Meant, PrintResult PROVE OpenSession!Deliver
  OBVIOUS
<1>1. /\ phase = "answered" /\ phase' = "ready" /\ variables' = variables
      /\ objects' = IF result.diagnostics = <<>> THEN Release(objects, { result.value }) ELSE objects
  BY DEF PrintResult
<1>2. SessionSubmission' = <<>> /\ SessionReply' = <<>>
  BY <1>1 DEF SessionSubmission, UnderWay, SessionReply, Running
<1>3. PICK reply : SessionReply = << reply >> /\ reply # Trap
  <2>1. CASE result.diagnostics = <<>>
    <3>1. objects[result.value] \in Objects
      BY <1>1, <2>1 DEF Meant, ExpectsValue, CompilationInv, Values, Blocks
    <3> QED
      BY <1>1, <2>1, <3>1, TrapIsNoObject DEF SessionReply, Running
  <2>2. CASE result.diagnostics # <<>>
    <3>1. [ type |-> "refusal" ] # Trap
      BY DEF Trap
    <3> QED
      BY <1>1, <2>2, <3>1 DEF SessionReply, Running
  <2> QED
    BY <2>1, <2>2
<1>4. SessionStore' = SessionStore
  <2>1. PICK env : env = Stored(objects, variables)
    OBVIOUS
  <2>2. DOMAIN env = DOMAIN variables /\ Given(objects, variables, env)
    BY <2>1 DEF Given, Stored
  <2>3. Given(objects', variables, env)
    <3>1. CASE result.diagnostics = <<>>
      <4>1. PICK hand : hand = result.value
        OBVIOUS
      <4>2. Blocks(objects) /\ Owned(objects, variables, evaluator_stack, hand)
        BY <1>1, <4>1 DEF CompilationInv, Values
      <4>3. objects' = Release(objects, { hand })
        BY <1>1, <3>1, <4>1
      <4> QED
        BY <2>2, <4>2, <4>3, ReleasedValues
    <3>2. CASE result.diagnostics # <<>>
      BY <1>1, <2>2, <3>2
    <3> QED
      BY <3>1, <3>2
  <2>4. Stored(objects', variables) = env
    <3>1. \A any \in DOMAIN variables : objects'[variables[any].value] = env[any]
      BY <2>2, <2>3 DEF Given
    <3> QED
      BY <2>1, <3>1 DEF Stored
  <2>5. SessionStore = env
    BY <1>1, <2>1, StoreAtRest DEF Running
  <2>6. SessionStore' = Stored(objects', variables')
    <3>1. (~Running => SessionStore = Stored(objects, variables))'
      BY StoreAtRest, PTL
    <3> QED
      BY <1>1, <3>1 DEF Running, Stored
  <2> QED
    BY <1>1, <2>4, <2>5, <2>6
<1>5. << reply >> # <<>> /\ << reply >>[1] = reply
  OBVIOUS
<1> QED
  BY <1>2, <1>3, <1>4, <1>5 DEF OpenSession!Deliver, OpenSession!None

LEMMA StutteringIsNoStep == UNCHANGED vars => UNCHANGED OpenSession!session_vars
<1> SUFFICES ASSUME UNCHANGED vars PROVE UNCHANGED OpenSession!session_vars
  OBVIOUS
<1>1. UNCHANGED << syntax, objects, variables, phase, result >>
  BY DEF vars, binder_vars, evaluator_vars
<1>2. Denotation' = Denotation
  BY <1>1, DenotationKept
<1>3. SessionSubmission' = SessionSubmission /\ SessionReply' = SessionReply /\ SessionStore' = SessionStore
  BY <1>1, <1>2 DEF SessionSubmission, UnderWay, SessionReply, SessionStore, Running, NoNames
<1> QED
  BY <1>3 DEF OpenSession!session_vars

LEMMA SessionStep ==
  CompilationInv /\ CompilationInv' /\ Ruled /\ Meant /\ [Next]_vars
    => [OpenSession!Next]_(OpenSession!session_vars)
BY SubmitsToSession, BindingIsNoStep, ReportsAreRefusal, StartCarriesOut, EvaluatingIsNoStep, AnsweringIsNoStep,
   PrintingDelivers, StutteringIsNoStep DEF Next, CompilationStep, OpenSession!Next

LEMMA SessionStart == Init => OpenSession!Init
<1> SUFFICES ASSUME Init PROVE OpenSession!Init
  OBVIOUS
<1>1. phase = "ready" /\ DOMAIN variables = {}
  BY DEF Init, CompilationInit
<1>2. SessionSubmission = <<>> /\ SessionReply = <<>>
  BY <1>1 DEF SessionSubmission, UnderWay, SessionReply, Running
<1>3. SessionStore = Stored(objects, variables)
  BY <1>1, StoreAtRest DEF Running
<1>4. SessionStore = [ name \in {} |-> Trap ]
  BY <1>1, <1>3 DEF Stored
<1> QED
  BY <1>2, <1>4 DEF OpenSession!Init, OpenSession!None, OpenSession!Empty

\* The safety part of ImplementsSession: the passes, the calls that wait for each other, the
\* scope that lives shorter than the variables and the tree that is built for its reports alone
\* cannot be told from a session that refuses a submission or carries it out at a stroke,
\* whatever is submitted, with whatever names and of whatever width an integer is.
THEOREM EveryStepIsOneOfTheSession == Spec => OpenSession!Safety
<1>1. Init => Ruled /\ Made /\ Meant
  BY DEF Init, CompilationInit, Ruled, Made, Meant, ExpectsValue
<1>2. CompilationInv /\ Ruled /\ [Next]_vars => Ruled'
  BY RuledNext
<1>3. CompilationInv /\ Made /\ [Next]_vars => Made'
  BY MadeNext
<1>4. CompilationInv /\ CompilationInv' /\ Ruled /\ Made /\ Meant /\ [Next]_vars => Meant'
  BY MeantNext
<1>5. Init => OpenSession!Init
  BY SessionStart
<1>6. CompilationInv /\ CompilationInv' /\ Ruled /\ Meant /\ [Next]_vars
        => [OpenSession!Next]_(OpenSession!session_vars)
  BY SessionStep
<1> QED
  BY <1>1, <1>2, <1>3, <1>4, <1>5, <1>6, CompilationInvariant, PTL DEF Spec, OpenSession!Safety

\* The parser of the loop, over the texts that the loop may give it.
LineLexings == { Lexing(lines) : lines \in Seq(Line) }
PP == INSTANCE ParserProofs WITH Token <- LineTokens, Lexings <- LineLexings

ParserInv == PP!TreeInv /\ PP!ReadsSentence /\ PP!KeepsTokens

\* A text is kept for another line only if it needs one, and compiled without a report
\* only if it needs none.
HoldsNoBlank(lines) == \A i \in 1..Len(lines) : lines[i].text # ""
KeepsUnfinished ==
    /\ repl = "prompt" =>
          HoldsNoBlank(text_builder) /\ (text_builder # <<>> => ~IsSentence(text_builder))
    /\ repl = "parsing" =>
          lexed = Lexing(text_builder) /\ (~is_blank => HoldsNoBlank(text_builder))
    /\ repl = "compiling" => (syntax.diagnostics = <<>> => IsSentence(text_builder))

ReplInv ==
    /\ repl \in { "prompt", "parsing", "compiling", "exited" }
    /\ repl = "compiling" <=> phase # "ready"
    /\ text_builder \in Seq(Line)
    /\ CompilationInv
    /\ repl = "parsing" => ParserInv
    /\ KeepsUnfinished
    /\ repl = "exited" => DOMAIN variables = {} /\ DOMAIN objects = {}

--------------------------------------------------------------------------------
(* The texts of some lines.                                                     *)

LEMMA TokensOfLines ==
  \A token \in LineTokens :
    /\ token.kind \in TokenKinds \cup TriviaKinds
    /\ token.kind = "IDENTIFIER_TOKEN" => token.text \in Name
    /\ token.kind = "NUMBER_TOKEN" => token.value \in Int64s \cup { NullObject }
<1> SUFFICES ASSUME NEW token \in LineTokens
             PROVE  /\ token.kind \in TokenKinds \cup TriviaKinds
                    /\ token.kind = "IDENTIFIER_TOKEN" => token.text \in Name
                    /\ token.kind = "NUMBER_TOKEN" => token.value \in Int64s \cup { NullObject }
  OBVIOUS
<1>1. CASE token \in { EndOfFile, Newline }
  BY <1>1 DEF EndOfFile, Newline, TokenKinds, TriviaKinds
<1>2. CASE token \notin { EndOfFile, Newline }
  <2>1. PICK line \in Line : token \in { line.tokens[i] : i \in 1..Len(line.tokens) }
    BY <1>2 DEF LineTokens
  <2>2. PICK i \in 1..Len(line.tokens) : token = line.tokens[i]
    BY <2>1
  <2> QED
    BY <2>2, LineAssumption
<1> QED
  BY <1>1, <1>2

\* No line has an end of file, and main ends each with a newline.
LEMMA LexingOfLines ==
  \A lines \in Seq(Line) : Lexing(lines) \in Seq(LineTokens) /\ PP!IsLexing(Lexing(lines))
<1> SUFFICES ASSUME NEW lines \in Seq(Line)
             PROVE  Lexing(lines) \in Seq(LineTokens) /\ PP!IsLexing(Lexing(lines))
  OBVIOUS
<1>1. PICK Word : Word = { token \in LineTokens : token.kind # "END_OF_FILE_TOKEN" }
  OBVIOUS
<1>2. Newline \in Word
  BY <1>1 DEF Newline, LineTokens
<1>3. ASSUME NEW line \in Line PROVE Append(line.tokens, Newline) \in Seq(Word)
  <2>1. PICK S : S = { line.tokens[i] : i \in 1..Len(line.tokens) }
    OBVIOUS
  <2>2. line.tokens \in Seq(S)
    BY <2>1, LineAssumption
  <2>3. S \subseteq LineTokens
    BY <2>1 DEF LineTokens
  <2>4. \A token \in S : token.kind # "END_OF_FILE_TOKEN"
    BY <2>1, LineAssumption
  <2>5. line.tokens \in Seq(Word)
    BY <1>1, <2>2, <2>3, <2>4
  <2> QED
    BY <1>2, <2>5
<1>4. PICK pieces : pieces = [ i \in 1..Len(lines) |-> Append(lines[i].tokens, Newline) ]
  OBVIOUS
<1>5. pieces \in Seq(Seq(Word))
  <2>1. PICK n \in Nat : n = Len(lines)
    OBVIOUS
  <2>2. \A i \in 1..n : lines[i] \in Line
    BY <2>1
  <2>3. pieces \in [ 1..n -> Seq(Word) ]
    BY <1>3, <1>4, <2>1, <2>2
  <2> QED
    BY <2>3
<1>6. PICK words \in Seq(Word) : words = Seqs!FlattenSeq(pieces)
  BY <1>5, FlattenTyped
<1>7. Lexing(lines) = Append(words, EndOfFile)
  BY <1>4, <1>6 DEF Lexing
<1>8. PICK n \in Nat : n = Len(words)
  OBVIOUS
<1>9. EndOfFile \in LineTokens /\ EndOfFile.kind = "END_OF_FILE_TOKEN"
  BY DEF EndOfFile, LineTokens
<1>10. words \in Seq(LineTokens) /\ \A i \in 1..n : words[i].kind # "END_OF_FILE_TOKEN"
  BY <1>1, <1>8
<1>11. PICK text : text = Append(words, EndOfFile)
  OBVIOUS
<1>12. /\ text \in Seq(LineTokens) /\ Len(text) = n + 1
       /\ \A i \in 1..n : text[i] = words[i]
       /\ text[n + 1] = EndOfFile
  BY <1>8, <1>9, <1>10, <1>11, PushOne
<1>13. \A i \in 1..n + 1 : text[i].kind = "END_OF_FILE_TOKEN" <=> i = n + 1
  BY <1>9, <1>10, <1>12
<1>14. text # <<>>
  BY <1>12
<1>15. PP!IsLexing(text)
  BY <1>12, <1>13, <1>14 DEF PP!IsLexing, PP!EOF
<1> QED
  BY <1>7, <1>11, <1>12, <1>15

\* What the module of the parser assumes of its constants.
LEMMA ParserAssumptions ==
  /\ \A t \in LineTokens : t.kind \in PP!TokenKinds \cup PP!TriviaKinds
  /\ \A s \in LineLexings : s \in Seq(LineTokens) /\ PP!IsLexing(s)
<1>1. \A t \in LineTokens : t.kind \in PP!TokenKinds \cup PP!TriviaKinds
  BY TokensOfLines DEF TokenKinds, TriviaKinds, PP!TokenKinds, PP!TriviaKinds,
     FixedTextKinds, OperatorKinds, ParenthesisKinds, KeywordKinds,
     PP!FixedTextKinds, PP!OperatorKinds, PP!ParenthesisKinds, PP!KeywordKinds
<1>2. \A s \in LineLexings : s \in Seq(LineTokens) /\ PP!IsLexing(s)
  BY LexingOfLines DEF LineLexings
<1> QED
  BY <1>1, <1>2

\* The parser starts in ParserInv and its steps keep it.
LEMMA ParserStarts == PP!Init => ParserInv
<1> SUFFICES ASSUME PP!Init PROVE ParserInv
  OBVIOUS
<1>1. PP!TreeInv
  BY ParserAssumptions, PP!InitTreeInv
<1>2. PP!ReadsSentence
  BY ParserAssumptions, PP!InitReads
<1>3. PP!KeepsTokens
  BY ParserAssumptions, PP!KeepsTokensInit
<1> QED
  BY <1>1, <1>2, <1>3 DEF ParserInv

LEMMA ParserGoesOn == ParserInv /\ [PP!Next]_PP!vars => ParserInv'
BY ParserAssumptions, PP!TreeInvKept, PP!ReadsSentenceKept, PP!KeepsTokensKept DEF ParserInv, PP!TreeInv

LEMMA ParserSteps == ParserInv /\ PP!Next => ParserInv'
BY ParserGoesOn

LEMMA ParserStutters ==
  ParserInv /\ UNCHANGED << lexed, read, tokens, position, diagnostics, nodes, stack, control >>
    => ParserInv'
BY ParserGoesOn DEF PP!vars

--------------------------------------------------------------------------------
(* The parser of module Repl takes the same steps, whatever its Lexings are.    *)

LEMMA SameFacts ==
  /\ Parse!EOF = PP!EOF /\ Parse!NoNode = PP!NoNode
  /\ Parse!TriviaKinds = PP!TriviaKinds /\ Parse!KeywordKinds = PP!KeywordKinds
  /\ \A token : Parse!LexicalError(token) <=> PP!LexicalError(token)
  /\ \A kind : /\ Parse!BinaryOperatorPrecedence(kind) = PP!BinaryOperatorPrecedence(kind)
               /\ Parse!UnaryOperatorPrecedence(kind) = PP!UnaryOperatorPrecedence(kind)
BY DEF Parse!EOF, PP!EOF, Parse!NoNode, PP!NoNode, Parse!TriviaKinds, PP!TriviaKinds,
       Parse!KeywordKinds, PP!KeywordKinds, Parse!LexicalError, PP!LexicalError,
       Parse!BinaryOperatorPrecedence, PP!BinaryOperatorPrecedence,
       Parse!UnaryOperatorPrecedence, PP!UnaryOperatorPrecedence

LEMMA SameRecords ==
  /\ \A i : Parse!Leaf(i) = PP!Leaf(i)
  /\ \A kind : Parse!Hole(kind) = PP!Hole(kind)
  /\ \A kind, kids : Parse!Inner(kind, kids) = PP!Inner(kind, kids)
  /\ \A fn, parent, node : Parse!Run(fn, parent, node) = PP!Run(fn, parent, node)
  /\ \A building, held, parent :
        Parse!Suspend(building, held, parent) = PP!Suspend(building, held, parent)
BY DEF Parse!Leaf, PP!Leaf, Parse!Hole, PP!Hole, Parse!Inner, PP!Inner, Parse!Run, PP!Run,
       Parse!Suspend, PP!Suspend

LEMMA SameState ==
  /\ Parse!Peek(0) = PP!Peek(0) /\ Parse!Peek(1) = PP!Peek(1)
  /\ Parse!Current = PP!Current /\ Parse!Top = PP!Top /\ Parse!Pop = PP!Pop
  /\ \A kind : Parse!Matches(kind) <=> PP!Matches(kind)
  /\ \A kind : Parse!Matched(kind) = PP!Matched(kind)
<1>1. Parse!Peek(0) = PP!Peek(0) /\ Parse!Peek(1) = PP!Peek(1)
  BY DEF Parse!Peek, PP!Peek
<1>2. Parse!Current = PP!Current /\ Parse!Top = PP!Top /\ Parse!Pop = PP!Pop
  BY <1>1 DEF Parse!Current, PP!Current, Parse!Top, PP!Top, Parse!Pop, PP!Pop
<1>3. \A kind : Parse!Matches(kind) <=> PP!Matches(kind)
  BY <1>2 DEF Parse!Matches, PP!Matches
<1>4. \A kind : Parse!Matched(kind) = PP!Matched(kind)
  BY <1>3, SameRecords DEF Parse!Matched, PP!Matched
<1> QED
  BY <1>1, <1>2, <1>3, <1>4

LEMMA SameChoices ==
  /\ Parse!StartsAssignment <=> PP!StartsAssignment
  /\ Parse!StartsUnary <=> PP!StartsUnary
  /\ Parse!Extends <=> PP!Extends
  /\ Parse!ParsesPrimary <=> PP!ParsesPrimary
  /\ \A building : Parse!Returning(building) <=> PP!Returning(building)
<1>1. Parse!StartsAssignment <=> PP!StartsAssignment
  BY SameState DEF Parse!StartsAssignment, PP!StartsAssignment
<1>2. Parse!StartsUnary <=> PP!StartsUnary
  BY SameFacts, SameState DEF Parse!StartsUnary, PP!StartsUnary
<1>3. Parse!Extends <=> PP!Extends
  BY SameFacts, SameState DEF Parse!Extends, PP!Extends
<1>4. Parse!ParsesPrimary <=> PP!ParsesPrimary
  BY <1>2 DEF Parse!ParsesPrimary, PP!ParsesPrimary
<1>5. \A building : Parse!Returning(building) <=> PP!Returning(building)
  BY SameState DEF Parse!Returning, PP!Returning
<1> QED
  BY <1>1, <1>2, <1>3, <1>4, <1>5

LEMMA SameMatching ==
  /\ Parse!InputUnchanged <=> PP!InputUnchanged
  /\ \A kind : Parse!MatchToken(kind) <=> PP!MatchToken(kind)
  /\ \A expression, kind : Parse!ParseSingle(expression, kind) <=> PP!ParseSingle(expression, kind)
  /\ \A building, closing, next :
        Parse!FinishWith(building, closing, next) <=> PP!FinishWith(building, closing, next)
<1>1. Parse!InputUnchanged <=> PP!InputUnchanged
  BY DEF Parse!InputUnchanged, PP!InputUnchanged
<1>2. \A kind : Parse!MatchToken(kind) <=> PP!MatchToken(kind)
  BY SameState DEF Parse!MatchToken, PP!MatchToken
<1>3. \A expression, kind : Parse!ParseSingle(expression, kind) <=> PP!ParseSingle(expression, kind)
  BY <1>1, <1>2, SameState, SameRecords DEF Parse!ParseSingle, PP!ParseSingle
<1>4. \A building, closing, next :
        Parse!FinishWith(building, closing, next) <=> PP!FinishWith(building, closing, next)
  BY <1>1, <1>2, SameState, SameChoices, SameRecords DEF Parse!FinishWith, PP!FinishWith
<1> QED
  BY <1>1, <1>2, <1>3, <1>4

LEMMA SameSteps == Parse!Next => PP!Next
<1>1. Parse!LexToken => PP!LexToken
  BY SameFacts, SameRecords DEF Parse!LexToken, PP!LexToken
<1>2. Parse!ParseAssignment \/ Parse!ParseNoAssignment => PP!ParseAssignment \/ PP!ParseNoAssignment
  BY SameFacts, SameRecords, SameChoices, SameMatching
  DEF Parse!ParseAssignment, PP!ParseAssignment, Parse!ParseNoAssignment, PP!ParseNoAssignment
<1>3. Parse!ParseUnary => PP!ParseUnary
  BY SameFacts, SameRecords, SameState, SameChoices, SameMatching
  DEF Parse!ParseUnary, PP!ParseUnary
<1>4. Parse!ParseParenthesized => PP!ParseParenthesized
  BY SameFacts, SameRecords, SameState, SameChoices, SameMatching
  DEF Parse!ParseParenthesized, PP!ParseParenthesized
<1>5. Parse!ParseBooleanLiteral => PP!ParseBooleanLiteral
  BY SameFacts, SameState, SameChoices, SameMatching
  DEF Parse!ParseBooleanLiteral, PP!ParseBooleanLiteral
<1>6. Parse!ParseNumberLiteral => PP!ParseNumberLiteral
  BY SameState, SameChoices, SameMatching DEF Parse!ParseNumberLiteral, PP!ParseNumberLiteral
<1>7. Parse!ParseName => PP!ParseName
  BY SameFacts, SameState, SameChoices, SameMatching DEF Parse!ParseName, PP!ParseName
<1>8. Parse!ParseBinaryRight => PP!ParseBinaryRight
  BY SameFacts, SameRecords, SameState, SameChoices, SameMatching
  DEF Parse!ParseBinaryRight, PP!ParseBinaryRight
<1>9. Parse!ReturnLeft => PP!ReturnLeft
  BY SameRecords, SameChoices, SameMatching DEF Parse!ReturnLeft, PP!ReturnLeft
<1>10. Parse!FinishOperator => PP!FinishOperator
  BY SameRecords, SameState, SameChoices, SameMatching DEF Parse!FinishOperator, PP!FinishOperator
<1>11. Parse!FinishAssignment => PP!FinishAssignment
  BY SameRecords, SameState, SameChoices, SameMatching
  DEF Parse!FinishAssignment, PP!FinishAssignment
<1>12. Parse!FinishParenthesized => PP!FinishParenthesized
  BY SameMatching DEF Parse!FinishParenthesized, PP!FinishParenthesized
<1>13. Parse!FinishCompilationUnit => PP!FinishCompilationUnit
  BY SameFacts, SameMatching DEF Parse!FinishCompilationUnit, PP!FinishCompilationUnit
<1> QED
  BY <1>1, <1>2, <1>3, <1>4, <1>5, <1>6, <1>7, <1>8, <1>9, <1>10, <1>11, <1>12, <1>13
  DEF Parse!Next, PP!Next

--------------------------------------------------------------------------------
(* The tree of a parser that is done is one the binder may cast.                *)

LEMMA ParserLeaves ==
  ASSUME ParserInv, control.fn = "done"
  PROVE  /\ nodes \in Seq(PP!Node) /\ tokens \in Seq(LineTokens)
         /\ diagnostics \in Seq({ "lexical_error", "unexpected_token" })
         /\ control.node \in 1..Len(nodes) /\ nodes[control.node].kind = "COMPILATION_UNIT"
         /\ \A n \in 1..Len(nodes) : /\ PP!WellBuilt(nodes, n)
                                     /\ PP!Casts(nodes, nodes[n].kind, nodes[n].kids)
                                     /\ PP!Copy(nodes[n], tokens)
         /\ diagnostics = <<>> => \A i \in 1..Len(tokens) : ~PP!LexicalError(tokens[i])
<1>1. PP!TypeOK /\ PP!TreeShape /\ PP!TreeCasts
  BY DEF ParserInv, PP!TreeInv, PP!IInv
<1>2. nodes \in Seq(PP!Node) /\ tokens \in Seq(LineTokens)
  BY <1>1 DEF PP!TypeOK, PP!KeptToken
<1>3. diagnostics \in Seq({ "lexical_error", "unexpected_token" })
  BY <1>1 DEF PP!TypeOK
<1>4. control.node \in 1..Len(nodes)
  BY <1>1 DEF PP!TreeShape, PP!ResultShape, PP!HasResult
<1>5. nodes[control.node].kind = "COMPILATION_UNIT"
  BY <1>1 DEF PP!TreeCasts, PP!CastsResult
<1>6. \A n \in 1..Len(nodes) : PP!WellBuilt(nodes, n)
  BY <1>1 DEF PP!TreeShape, PP!HeapShape
<1>7. \A n \in 1..Len(nodes) : PP!Casts(nodes, nodes[n].kind, nodes[n].kids) /\ PP!Copy(nodes[n], tokens)
  BY <1>1 DEF PP!TreeCasts, PP!NodesCast
<1>8. diagnostics = <<>> => \A i \in 1..Len(tokens) : ~PP!LexicalError(tokens[i])
  BY <1>1 DEF PP!TreeCasts
<1> QED
  BY <1>2, <1>3, <1>4, <1>5, <1>6, <1>7, <1>8

LEMMA ParsedTreeIsSyntaxTree ==
  ASSUME ParserInv, control.fn = "done"
  PROVE  IsSyntaxTree([ nodes |-> nodes, tokens |-> tokens, root |-> control.node,
                        diagnostics |-> diagnostics ])
<1>1. PICK tree : tree = [ nodes |-> nodes, tokens |-> tokens, root |-> control.node,
                           diagnostics |-> diagnostics ]
  OBVIOUS
<1>2. /\ tree.nodes = nodes /\ tree.tokens = tokens /\ tree.root = control.node
      /\ tree.diagnostics = diagnostics
  BY <1>1
<1>3. PICK size \in Nat : size = Len(nodes)
  BY ParserLeaves
<1>4. PICK Expressions : Expressions = { n \in 1..size : nodes[n].kind \in ExpressionKinds }
  OBVIOUS
<1>5. ExpressionKinds = PP!ExpressionKinds /\ KeywordKinds = PP!KeywordKinds
  BY DEF ExpressionKinds, PP!ExpressionKinds, KeywordKinds, PP!KeywordKinds
<1>6. \A n \in 1..size, k \in Nat :
         (nodes[n].kids[k] \in 1..n - 1 /\ PP!IsExpression(nodes, nodes[n].kids[k]))
            => nodes[n].kids[k] \in 1..n - 1 \cap Expressions
  BY <1>3, <1>4, <1>5 DEF PP!IsExpression
<1>7. ASSUME NEW n \in 1..size, NEW k \in 1..PP!Arity(nodes[n].kind)
      PROVE  nodes[n].kids[k] \in 1..n - 1 /\ nodes[n].kids[k] \in 1..size
  BY <1>3, ParserLeaves DEF PP!WellBuilt
<1>8. ASSUME NEW n \in 1..size PROVE PP!Casts(nodes, nodes[n].kind, nodes[n].kids)
  BY <1>3, ParserLeaves
<1>9. ASSUME NEW n \in 1..size, nodes[n].token # 0
      PROVE  /\ tokens[nodes[n].token].kind = nodes[n].kind
             /\ tokens[nodes[n].token] \in LineTokens
             /\ diagnostics = <<>> => ~PP!LexicalError(tokens[nodes[n].token])
  BY <1>3, <1>9, ParserLeaves DEF PP!Copy
<1>10. tree.nodes[tree.root].kids[1] \in Expressions
  <2>1. control.node \in 1..size /\ nodes[control.node].kind = "COMPILATION_UNIT"
    BY <1>3, ParserLeaves
  <2>2. 1 \in 1..PP!Arity("COMPILATION_UNIT")
    BY DEF PP!Arity
  <2>3. nodes[control.node].kids[1] \in 1..size
    BY <1>7, <2>1, <2>2
  <2>4. PP!IsExpression(nodes, nodes[control.node].kids[1])
    BY <1>8, <2>1 DEF PP!Casts
  <2> QED
    BY <1>2, <1>4, <1>5, <2>3, <2>4 DEF PP!IsExpression
<1>11. ASSUME NEW n \in 1..size, nodes[n].kind = "LITERAL_EXPRESSION"
       PROVE  LET leaf == nodes[nodes[n].kids[1]] IN
              \/ leaf.kind \in KeywordKinds
              \/ /\ leaf.kind = "NUMBER_TOKEN"
                 /\ tokens[leaf.token].value \in
                       IF diagnostics = <<>> THEN Int64s ELSE Int64s \cup { NullObject }
  <2>1. 1 \in 1..PP!Arity("LITERAL_EXPRESSION")
    BY DEF PP!Arity
  <2>2. PICK leaf \in 1..size : leaf = nodes[n].kids[1]
    BY <1>7, <1>11, <2>1
  <2>3. nodes[leaf].kind \in KeywordKinds \cup { "NUMBER_TOKEN" } /\ nodes[leaf].token # 0
    BY <1>5, <1>8, <1>11, <2>2 DEF PP!Casts
  <2>4. ASSUME nodes[leaf].kind = "NUMBER_TOKEN"
        PROVE  tokens[nodes[leaf].token].value \in
                  IF diagnostics = <<>> THEN Int64s ELSE Int64s \cup { NullObject }
    <3>1. PICK token \in LineTokens : token = tokens[nodes[leaf].token]
      BY <1>9, <2>3
    <3>2. token.kind = "NUMBER_TOKEN" /\ (diagnostics = <<>> => ~PP!LexicalError(token))
      BY <1>9, <2>3, <2>4, <3>1
    <3>3. token.value \in Int64s \cup { NullObject }
      BY <3>2, TokensOfLines
    <3>4. diagnostics = <<>> => token.value # NullObject
      BY <3>2 DEF PP!LexicalError, NullObject
    <3> QED
      BY <3>1, <3>3, <3>4
  <2> QED
    BY <2>2, <2>3, <2>4
<1>12. ASSUME NEW n \in 1..size, nodes[n].kind = "NAME_EXPRESSION"
       PROVE  LET leaf == nodes[nodes[n].kids[1]] IN
              (IF leaf.token = 0 THEN NoName ELSE tokens[leaf.token].text) \in Names
  <2>1. 1 \in 1..PP!Arity("NAME_EXPRESSION")
    BY DEF PP!Arity
  <2>2. PICK leaf \in 1..size : leaf = nodes[n].kids[1]
    BY <1>7, <1>12, <2>1
  <2>3. nodes[leaf].kind = "IDENTIFIER_TOKEN"
    BY <1>8, <1>12, <2>2 DEF PP!Casts
  <2>4. nodes[leaf].token # 0 => tokens[nodes[leaf].token].text \in Name
    BY <1>9, <2>3, TokensOfLines
  <2> QED
    BY <2>2, <2>4 DEF Names
<1>13. ASSUME NEW n \in 1..size, nodes[n].kind = "ASSIGNMENT_EXPRESSION"
       PROVE  LET leaf == nodes[nodes[n].kids[1]] IN
              /\ (IF leaf.token = 0 THEN NoName ELSE tokens[leaf.token].text) \in Name
              /\ nodes[n].kids[3] \in 1..n - 1 \cap Expressions
  <2>1. 1 \in 1..PP!Arity("ASSIGNMENT_EXPRESSION") /\ 3 \in 1..PP!Arity("ASSIGNMENT_EXPRESSION")
    BY DEF PP!Arity
  <2>2. PICK leaf \in 1..size : leaf = nodes[n].kids[1]
    BY <1>7, <1>13, <2>1
  <2>3. /\ nodes[leaf].kind = "IDENTIFIER_TOKEN" /\ nodes[leaf].token # 0
        /\ PP!IsExpression(nodes, nodes[n].kids[3])
    BY <1>8, <1>13, <2>2 DEF PP!Casts
  <2>4. tokens[nodes[leaf].token].text \in Name
    BY <1>9, <2>3, TokensOfLines
  <2>5. nodes[n].kids[3] \in 1..n - 1
    BY <1>7, <1>13, <2>1
  <2>6. nodes[n].kids[3] \in 1..n - 1 \cap Expressions
    BY <1>6, <2>3, <2>5
  <2> QED
    BY <2>2, <2>3, <2>4, <2>6
<1>14. ASSUME NEW n \in 1..size, nodes[n].kind \in { "PARENTHESIZED_EXPRESSION", "UNARY_EXPRESSION" }
       PROVE  nodes[n].kids[2] \in 1..n - 1 \cap Expressions
  <2>1. 2 \in 1..PP!Arity(nodes[n].kind)
    BY <1>14 DEF PP!Arity
  <2>2. PP!IsExpression(nodes, nodes[n].kids[2])
    BY <1>8, <1>14 DEF PP!Casts
  <2> QED
    BY <1>6, <1>7, <2>1, <2>2
<1>15. ASSUME NEW n \in 1..size, nodes[n].kind = "BINARY_EXPRESSION"
       PROVE  /\ nodes[n].kids[1] \in 1..n - 1 \cap Expressions
              /\ nodes[n].kids[3] \in 1..n - 1 \cap Expressions
  <2>1. 1 \in 1..PP!Arity("BINARY_EXPRESSION") /\ 3 \in 1..PP!Arity("BINARY_EXPRESSION")
    BY DEF PP!Arity
  <2>2. PP!IsExpression(nodes, nodes[n].kids[1]) /\ PP!IsExpression(nodes, nodes[n].kids[3])
    BY <1>8, <1>15 DEF PP!Casts
  <2>3. nodes[n].kids[1] \in 1..n - 1 /\ nodes[n].kids[3] \in 1..n - 1
    BY <1>7, <1>15, <2>1
  <2> QED
    BY <1>6, <2>2, <2>3
<1>16. tree.diagnostics \in Seq({ "lexical_error", "unexpected_token" })
  BY <1>2, ParserLeaves
<1>17. tree.nodes \in Seq([ kind : SyntaxKinds, kids : Seq(Nat), token : Nat ])
  <2>1. PP!LeafKinds \cup PP!NodeKinds \subseteq SyntaxKinds
    BY DEF PP!LeafKinds, PP!NodeKinds, PP!TokenKinds, PP!FixedTextKinds, PP!OperatorKinds, PP!ParenthesisKinds,
           PP!KeywordKinds, PP!ExpressionKinds, SyntaxKinds, TokenKinds, FixedTextKinds, OperatorKinds,
           ParenthesisKinds, KeywordKinds, ExpressionKinds
  <2>2. PP!Node \subseteq [ kind : SyntaxKinds, kids : Seq(Nat), token : Nat ]
    BY <2>1 DEF PP!Node
  <2>3. PICK N, S : N = PP!Node /\ S = [ kind : SyntaxKinds, kids : Seq(Nat), token : Nat ]
    OBVIOUS
  <2>4. nodes \in Seq(N) /\ N \subseteq S
    BY <2>2, <2>3, ParserLeaves
  <2>5. nodes \in Seq(S)
    BY <2>4
  <2> QED
    BY <1>2, <2>3, <2>5
<1>18. IsSyntaxTree(tree)
  <2> DEFINE Kinds(kind)  == { n \in 1..Len(tree.nodes) : tree.nodes[n].kind = kind }
             Those        == { n \in 1..Len(tree.nodes) : tree.nodes[n].kind \in ExpressionKinds }
             kid(n, k)    == tree.nodes[tree.nodes[n].kids[k]]
             before(n, k) == tree.nodes[n].kids[k] \in 1..n - 1 \cap Those
             text(leaf)   == IF leaf.token = 0 THEN NoName ELSE tree.tokens[leaf.token].text
  <2>1. Those = Expressions
    BY <1>2, <1>3, <1>4
  <2>2. \A kind : Kinds(kind) = { n \in 1..size : nodes[n].kind = kind }
    BY <1>2, <1>3
  <2>3. tree.nodes[tree.root].kids[1] \in Those
    BY <1>10, <2>1
  <2>4. \A n \in Kinds("LITERAL_EXPRESSION") :
           \/ kid(n, 1).kind \in KeywordKinds
           \/ /\ kid(n, 1).kind = "NUMBER_TOKEN"
              /\ tree.tokens[kid(n, 1).token].value \in
                    IF tree.diagnostics = <<>> THEN Int64s ELSE Int64s \cup { NullObject }
    BY <1>2, <1>11, <2>2
  <2>5. \A n \in Kinds("NAME_EXPRESSION") : text(kid(n, 1)) \in Names
    BY <1>2, <1>12, <2>2
  <2>6. \A n \in Kinds("ASSIGNMENT_EXPRESSION") : text(kid(n, 1)) \in Name /\ before(n, 3)
    BY <1>2, <1>13, <2>1, <2>2
  <2>7. \A n \in Kinds("PARENTHESIZED_EXPRESSION") \cup Kinds("UNARY_EXPRESSION") : before(n, 2)
    BY <1>2, <1>14, <2>1, <2>2
  <2>8. \A n \in Kinds("BINARY_EXPRESSION") : before(n, 1) /\ before(n, 3)
    BY <1>2, <1>15, <2>1, <2>2
  <2> QED
    BY <1>16, <1>17, <2>3, <2>4, <2>5, <2>6, <2>7, <2>8 DEF IsSyntaxTree
<1> QED
  BY <1>1, <1>18

--------------------------------------------------------------------------------
(* The language of the parser is that of module Repl.                           *)

LEMMA SameDerivations == \A text : Parse!Derivations(text) = PP!Derivations(text)
BY Zenon DEF Parse!Derivations, PP!Derivations, Parse!Symbols, PP!Symbols, Parse!IsA, PP!IsA,
     Parse!IsB, PP!IsB, Parse!IsP, PP!IsP, Parse!KeywordKinds, PP!KeywordKinds,
     Parse!UnaryOperatorKinds, PP!UnaryOperatorKinds, Parse!BinaryOperatorKinds,
     PP!BinaryOperatorKinds, Parse!UnaryOperatorPrecedence, PP!UnaryOperatorPrecedence,
     Parse!BinaryOperatorPrecedence, PP!BinaryOperatorPrecedence, Parse!SyntaxKinds, PP!SyntaxKinds,
     Parse!TokenKinds, PP!TokenKinds, Parse!TriviaKinds, PP!TriviaKinds, Parse!ExpressionKinds,
     PP!ExpressionKinds, Parse!FixedTextKinds, PP!FixedTextKinds, Parse!OperatorKinds,
     PP!OperatorKinds, Parse!ParenthesisKinds, PP!ParenthesisKinds

LEMMA SameLanguage ==
  \A text : Parse!Kept(text) = PP!Kept(text) /\ (Parse!IsSentence(text) <=> PP!IsSentence(text))
<1>1. \A text : Parse!Kept(text) = PP!Kept(text)
  BY Zenon DEF Parse!Kept, PP!Kept, Parse!TriviaKinds, PP!TriviaKinds,
     Parse!Seqs!FlattenSeq, PP!Seqs!FlattenSeq
<1>2. \A text : Parse!IsSentence(text) <=> PP!IsSentence(text)
  BY SameDerivations DEF Parse!IsSentence, PP!IsSentence
<1> QED
  BY <1>1, <1>2

\* The parser has nothing to say about sentences alone.
LEMMA SentencesAreClean ==
  ASSUME ParserInv, KeepsUnfinished, repl = "parsing", control.fn = "done"
  PROVE  diagnostics = <<>> <=> IsSentence(text_builder)
<1>1. lexed = Lexing(text_builder)
  BY DEF KeepsUnfinished
<1>2. diagnostics = <<>>
         <=> (\A i \in 1..Len(lexed) : ~PP!LexicalError(lexed[i])) /\ PP!IsSentence(PP!Kept(lexed))
  BY ParserAssumptions, PP!NothingIsReported DEF ParserInv
<1>3. IsSentence(text_builder)
         <=> (\A i \in 1..Len(lexed) : ~PP!LexicalError(lexed[i])) /\ PP!IsSentence(PP!Kept(lexed))
  BY <1>1, SameFacts, SameLanguage DEF IsSentence
<1> QED
  BY <1>2, <1>3

--------------------------------------------------------------------------------
(* The loop.                                                                    *)

\* The text stays what the parser reads, and the tree what is compiled.
LEMMA TextIsKept == PP!Next => lexed' = lexed
<1>1. PP!InputUnchanged => lexed' = lexed
  BY DEF PP!InputUnchanged
<1> QED
  BY <1>1
  DEF PP!Next, PP!LexToken, PP!ParseAssignment, PP!ParseNoAssignment, PP!ParseUnary, PP!ParseParenthesized,
      PP!ParseBooleanLiteral, PP!ParseNumberLiteral, PP!ParseName, PP!ParseSingle, PP!ParseBinaryRight,
      PP!ReturnLeft, PP!FinishOperator, PP!FinishAssignment, PP!FinishParenthesized,
      PP!FinishCompilationUnit, PP!FinishWith

LEMMA TreeIsKept == CompilationStep /\ phase' # "ready" => syntax' = syntax
<1>1. TreeUnchanged => syntax' = syntax
  BY DEF TreeUnchanged
<1>2. BinderNext => syntax' = syntax
  <2>1. BindLiteral \/ BindUnary \/ BindBinary \/ BindParenthesized => syntax' = syntax
    BY <1>1 DEF BindLiteral, BindUnary, BindBinary, BindParenthesized
  <2>2. BindDeclaredName \/ BindUndefinedName \/ BindAssignment => syntax' = syntax
    BY <1>1 DEF BindDeclaredName, BindUndefinedName, BindAssignment
  <2>3. FinishUnary \/ FinishLeft \/ FinishBinary => syntax' = syntax
    BY <1>1 DEF FinishUnary, FinishLeft, FinishBinary
  <2>4. FinishAssignment \/ FinishGlobalScope => syntax' = syntax
    BY <1>1 DEF FinishAssignment, FinishGlobalScope
  <2> QED
    BY <2>1, <2>2, <2>3, <2>4 DEF BinderNext
<1> QED
  BY <1>2 DEF CompilationStep, BindStep, AnswerWithReports, StartEvaluator, EvaluateStep, AnswerWithValue,
              PrintResult, binder_vars

LEMMA ReplInitInv == ReplInit => ReplInv
<1> SUFFICES ASSUME ReplInit PROVE ReplInv
  OBVIOUS
<1>1. CompilationInv
  BY CompilationInitInv DEF ReplInit, Init
<1>2. phase = "ready"
  BY DEF ReplInit, CompilationInit
<1>3. KeepsUnfinished
  BY DEF ReplInit, KeepsUnfinished, HoldsNoBlank
<1> QED
  BY <1>1, <1>2, <1>3 DEF ReplInit, ReplInv

\* A command, and a line that is added to the text.
LEMMA ReadCommandInv == \A line \in Line : ReplInv /\ ReadCommand(line) => ReplInv'
<1> SUFFICES ASSUME NEW line \in Line, ReplInv, ReadCommand(line) PROVE ReplInv'
  OBVIOUS
<1>1. repl = "prompt" /\ UNCHANGED << repl, text_builder, vars >>
  BY DEF ReadCommand, Prompted, compilation_vars
<1>2. CompilationInv' /\ phase' = phase
  BY <1>1, CompilationStutterInv DEF ReplInv, vars
<1>3. KeepsUnfinished'
  BY <1>1 DEF ReplInv, KeepsUnfinished
<1> QED
  BY <1>1, <1>2, <1>3 DEF ReplInv

LEMMA ReadTextInv == \A line \in Line : ReplInv /\ ReadText(line) => ReplInv'
<1> SUFFICES ASSUME NEW line \in Line, ReplInv, ReadText(line) PROVE ReplInv'
  OBVIOUS
<1>1. /\ repl = "prompt" /\ repl' = "parsing" /\ UNCHANGED vars
      /\ text_builder' = Append(text_builder, line) /\ StartParser(text_builder')
  BY DEF ReadText, Prompted, compilation_vars
<1>2. CompilationInv' /\ phase' = phase
  BY <1>1, CompilationStutterInv DEF ReplInv, vars
<1>3. text_builder' \in Seq(Line)
  BY <1>1 DEF ReplInv
<1>4. PP!Init'
  BY <1>1, <1>3 DEF StartParser, ParserOver, ParserAt, LineLexings, PP!Init, PP!Run, PP!NoNode
<1>5. PP!Init' => ParserInv'
  BY ParserStarts, PTL
<1>6. lexed' = Lexing(text_builder')
  BY <1>1 DEF StartParser, ParserOver
<1>7. ~is_blank' => HoldsNoBlank(text_builder')
  <2>1. HoldsNoBlank(text_builder) /\ text_builder \in Seq(Line)
    BY <1>1 DEF ReplInv, KeepsUnfinished
  <2>2. PICK n \in Nat : n = Len(text_builder)
    BY <2>1
  <2>3. PICK lines : lines = Append(text_builder, line)
    OBVIOUS
  <2>4. /\ Len(lines) = n + 1 /\ lines[n + 1] = line
        /\ \A i \in 1..n : lines[i] = text_builder[i]
    BY <2>1, <2>2, <2>3, PushOne
  <2>5. \A i \in 1..n + 1 : i \in 1..n \/ i = n + 1
    BY <2>2
  <2>6. line.text # "" => HoldsNoBlank(lines)
    BY <2>1, <2>2, <2>4, <2>5 DEF HoldsNoBlank
  <2>7. is_blank' = (line.text = "")
    BY DEF ReadText
  <2> QED
    BY <1>1, <2>3, <2>6, <2>7
<1>8. KeepsUnfinished'
  BY <1>1, <1>6, <1>7 DEF KeepsUnfinished
<1> QED
  BY <1>1, <1>2, <1>3, <1>4, <1>5, <1>8 DEF ReplInv

\* At the prompt the variables own whatever Objects there are.
LEMMA EndOfInputInv == ReplInv /\ EndOfInput => ReplInv'
<1> SUFFICES ASSUME ReplInv, EndOfInput PROVE ReplInv'
  OBVIOUS
<1>1. PICK values : values = { variables[name].value : name \in DOMAIN variables }
  OBVIOUS
<1>2. /\ repl = "prompt" /\ repl' = "exited" /\ text_builder' = <<>>
      /\ objects' = Release(objects, values) /\ DOMAIN variables' = {}
      /\ UNCHANGED << evaluator, evaluator_stack, phase, result >>
      /\ UNCHANGED << heap, freed, scope, declared, reports, binder, binder_stack >>
  BY <1>1 DEF EndOfInput, Prompted, binder_vars
<1>3. /\ phase = "ready" /\ phase' = "ready" /\ CompilationInv
      /\ Blocks(objects) /\ Values
      /\ Owned(objects, variables, evaluator_stack, evaluator.value)
      /\ evaluator = Nothing /\ evaluator_stack = <<>> /\ Nothing.value = Null
  BY <1>2 DEF ReplInv, CompilationInv, Values, Nothing
<1>4. Null \notin DOMAIN objects
  BY <1>3 DEF Blocks, Pointer, Null
<1>5. \A id \in DOMAIN objects : id \in values
  BY <1>1, <1>3, <1>4 DEF Owned
<1>6. Blocks(objects') /\ DOMAIN objects' = {}
  <2>1. Blocks(Release(objects, values)) /\ DOMAIN Release(objects, values) = DOMAIN objects \ values
    BY <1>3, ReleaseBlocks
  <2> QED
    BY <1>2, <1>5, <2>1
<1>7. Values'
  BY <1>2, <1>3, <1>6 DEF Values
<1>8. Owned(objects', variables', evaluator_stack', evaluator'.value)
  BY <1>2, <1>3, <1>6 DEF Owned
<1>9. CompilationInv'
  BY <1>2, <1>3, <1>7, <1>8 DEF CompilationInv, Phases
<1>10. KeepsUnfinished'
  BY <1>2 DEF KeepsUnfinished
<1> QED
  BY <1>2, <1>3, <1>6, <1>9, <1>10 DEF ReplInv

\* The parser, and what becomes of its tree.
LEMMA ParserStepInv == ReplInv /\ ParserStep => ReplInv'
<1> SUFFICES ASSUME ReplInv, ParserStep PROVE ReplInv'
  OBVIOUS
<1>1. repl = "parsing" /\ Parse!Next /\ UNCHANGED << repl, text_builder, is_blank, vars >>
  BY DEF ParserStep, compilation_vars
<1>2. CompilationInv' /\ phase' = phase
  BY <1>1, CompilationStutterInv DEF ReplInv, vars
<1>3. ParserInv'
  BY <1>1, SameSteps, ParserSteps DEF ReplInv
<1>4. lexed' = lexed
  BY <1>1, SameSteps, TextIsKept
<1>5. KeepsUnfinished'
  BY <1>1, <1>4 DEF ReplInv, KeepsUnfinished
<1> QED
  BY <1>1, <1>2, <1>3, <1>5 DEF ReplInv

LEMMA ReadOnInv == ReplInv /\ ReadOn => ReplInv'
<1> SUFFICES ASSUME ReplInv, ReadOn PROVE ReplInv'
  OBVIOUS
<1>1. repl = "parsing" /\ repl' = "prompt" /\ UNCHANGED << text_builder, vars >>
  BY DEF ReadOn, Parsed, compilation_vars
<1>2. CompilationInv' /\ phase' = phase
  BY <1>1, CompilationStutterInv DEF ReplInv, vars
<1>3. control.fn = "done" /\ ~is_blank /\ diagnostics # <<>>
  BY DEF ReadOn, Parsed, KeepsReading
<1>4. ~IsSentence(text_builder)
  BY <1>1, <1>3, SentencesAreClean DEF ReplInv
<1>5. HoldsNoBlank(text_builder)
  BY <1>1, <1>3 DEF ReplInv, KeepsUnfinished
<1>6. KeepsUnfinished'
  BY <1>1, <1>4, <1>5 DEF KeepsUnfinished
<1> QED
  BY <1>1, <1>2, <1>6 DEF ReplInv

LEMMA CompileInv == ReplInv /\ Compile => ReplInv'
<1> SUFFICES ASSUME ReplInv, Compile PROVE ReplInv'
  OBVIOUS
<1>1. PICK tree : tree = [ nodes |-> nodes, tokens |-> tokens, root |-> control.node,
                           diagnostics |-> diagnostics ]
  OBVIOUS
<1>2. /\ repl = "parsing" /\ control.fn = "done" /\ repl' = "compiling"
      /\ UNCHANGED text_builder /\ Submit(tree)
  BY <1>1 DEF Compile, Parsed
<1>3. IsSyntaxTree(tree)
  BY <1>1, <1>2, ParsedTreeIsSyntaxTree DEF ReplInv
<1>4. CompilationInv' /\ phase' = "binding"
  BY <1>2, <1>3, SubmitInv DEF ReplInv, Submit
<1>5. syntax'.diagnostics = diagnostics
  BY <1>1, <1>2 DEF Submit, BindGlobalScope
<1>6. diagnostics = <<>> => IsSentence(text_builder)
  BY <1>2, SentencesAreClean DEF ReplInv
<1>7. KeepsUnfinished'
  BY <1>2, <1>5, <1>6 DEF KeepsUnfinished
<1> QED
  BY <1>2, <1>4, <1>7 DEF ReplInv

LEMMA CompileStepInv == ReplInv /\ CompileStep => ReplInv'
<1> SUFFICES ASSUME ReplInv, CompileStep PROVE ReplInv'
  OBVIOUS
<1>1. /\ repl = "compiling" /\ CompilationStep
      /\ IF phase' = "ready" THEN repl' = "prompt" /\ text_builder' = <<>>
                             ELSE UNCHANGED << repl, text_builder >>
  BY DEF CompileStep
<1>2. CompilationInv'
  BY <1>1, BindStepInv, AnswerWithReportsInv, StartEvaluatorInv, EvaluateStepInv,
     AnswerWithValueInv, PrintResultInv DEF ReplInv, CompilationStep
<1>3. CASE phase' = "ready"
  <2>1. repl' = "prompt" /\ text_builder' = <<>>
    BY <1>1, <1>3
  <2>2. KeepsUnfinished'
    BY <2>1 DEF KeepsUnfinished, HoldsNoBlank
  <2> QED
    BY <1>2, <1>3, <2>1, <2>2 DEF ReplInv
<1>4. CASE phase' # "ready"
  <2>1. repl' = "compiling" /\ text_builder' = text_builder
    BY <1>1, <1>4
  <2>2. syntax' = syntax
    BY <1>1, <1>4, TreeIsKept
  <2>3. KeepsUnfinished'
    BY <1>1, <2>1, <2>2 DEF ReplInv, KeepsUnfinished
  <2> QED
    BY <1>2, <1>4, <2>1, <2>3 DEF ReplInv
<1> QED
  BY <1>3, <1>4

LEMMA ReplStutterInv == ReplInv /\ UNCHANGED repl_vars => ReplInv'
<1> SUFFICES ASSUME ReplInv, UNCHANGED repl_vars PROVE ReplInv'
  OBVIOUS
<1>1. /\ UNCHANGED << repl, text_builder, is_blank, vars >>
      /\ UNCHANGED << lexed, read, tokens, position, diagnostics, nodes, stack, control >>
  BY DEF repl_vars, parser_vars, compilation_vars
<1>2. CompilationInv' /\ UNCHANGED << phase, objects, variables >>
  BY <1>1, CompilationStutterInv DEF ReplInv, vars, evaluator_vars
<1>3. ParserInv => ParserInv'
  BY <1>1, ParserStutters
<1>4. syntax' = syntax
  BY <1>1 DEF vars, binder_vars
<1>5. KeepsUnfinished'
  BY <1>1, <1>4 DEF ReplInv, KeepsUnfinished
<1> QED
  BY <1>1, <1>2, <1>3, <1>5 DEF ReplInv

\* Whatever is typed, in lines and in whatever order: parser and compilation stay in their
\* invariants, and no tree is submitted that binder.c may not cast.
THEOREM ReplInvariant == ReplSpec => []ReplInv
<1>1. ReplInit => ReplInv
  BY ReplInitInv
<1>2. ReplInv /\ [ReplNext]_repl_vars => ReplInv'
  BY ReadCommandInv, ReadTextInv, EndOfInputInv, ParserStepInv, ReadOnInv, CompileInv,
     CompileStepInv, ReplStutterInv DEF ReplNext, ReplStep
<1> QED
  BY <1>1, <1>2, PTL DEF ReplSpec

\* The end of the input may come after any session: it frees every Object there is.
THEOREM EveryExitFreesEverything == ReplSpec => []ExitFreesEverything
<1>1. ReplInv => ExitFreesEverything
  BY DEF ReplInv, ExitFreesEverything
<1> QED
  BY <1>1, ReplInvariant, PTL

\* What TLAPS shows of the compilation of any tree that binder.c may cast holds of what is
\* typed: no text makes the evaluator unwrap what is not there.
THEOREM WhatIsTypedIsSound == ReplSpec => []TypeSoundness
<1>1. ReplInv => TypeSoundness
  BY SoundnessFollows DEF ReplInv
<1> QED
  BY <1>1, ReplInvariant, PTL

\* ... and no line of a session loses, shares or frees twice an Object.
THEOREM EverySessionOwnsOnce == ReplSpec => []ObjectsOwnedOnce
<1>1. ReplInv => ObjectsOwnedOnce
  BY OwnershipFollows DEF ReplInv
<1> QED
  BY <1>1, ReplInvariant, PTL

\* The evaluator runs for sentences only, whatever was typed before and however a blank line
\* forced unfinished text through the parser and the binder.
THEOREM EverythingEvaluatedIsASentence == ReplSpec => []OnlySentencesAreEvaluated
<1>1. ReplInv => OnlySentencesAreEvaluated
  <2> SUFFICES ASSUME ReplInv, phase = "evaluating" PROVE IsSentence(text_builder)
    BY DEF OnlySentencesAreEvaluated
  <2>1. repl = "compiling" /\ syntax.diagnostics = <<>>
    BY DEF ReplInv, CompilationInv, Clean
  <2> QED
    BY <2>1 DEF ReplInv, KeepsUnfinished
<1> QED
  BY <1>1, ReplInvariant, PTL

\* Text that waits for another line could not have been answered as it stands, however many
\* lines it has.
THEOREM EveryTextKeptIsUnfinished == ReplSpec => []KeptTextIsUnfinished
<1>1. ReplInv => KeptTextIsUnfinished
  BY DEF ReplInv, KeepsUnfinished, HoldsNoBlank, KeptTextIsUnfinished
<1> QED
  BY <1>1, ReplInvariant, PTL

\* A step of the loop is one of the compilation, submits a tree, or leaves it ready for one.
LEMMA LoopSteps ==
  ASSUME ReplInv, [ReplNext]_repl_vars
  PROVE  [Next]_vars \/ (\E tree : IsSyntaxTree(tree) /\ Submit(tree)) \/ phase' = "ready"
<1>1. CASE \E line \in Line : ReadCommand(line) \/ ReadText(line)
  <2>1. \A line : ReadCommand(line) => UNCHANGED vars
    BY DEF ReadCommand, compilation_vars
  <2>2. ASSUME NEW line, ReadText(line) PROVE UNCHANGED vars
    BY <2>2, Zenon DEF ReadText, Prompted, compilation_vars
  <2> QED
    BY <1>1, <2>1, <2>2
<1>2. CASE EndOfInput
  <2>1. phase' = phase /\ repl = "prompt"
    BY <1>2 DEF EndOfInput, Prompted
  <2> QED
    BY <2>1 DEF ReplInv
<1>3. CASE ParserStep \/ ReadOn
  BY <1>3 DEF ParserStep, ReadOn, Parsed, compilation_vars
<1>4. CASE Compile
  <2>1. PICK tree : tree = [ nodes |-> nodes, tokens |-> tokens, root |-> control.node,
                             diagnostics |-> diagnostics ]
    OBVIOUS
  <2>2. repl = "parsing" /\ control.fn = "done" /\ Submit(tree)
    BY <1>4, <2>1 DEF Compile, Parsed
  <2>3. IsSyntaxTree(tree)
    BY <2>1, <2>2, ParsedTreeIsSyntaxTree DEF ReplInv
  <2> QED
    BY <2>2, <2>3
<1>5. CASE CompileStep
  BY <1>5 DEF CompileStep, Next
<1>6. CASE UNCHANGED repl_vars
  BY <1>6 DEF repl_vars, compilation_vars
<1> QED
  BY <1>1, <1>2, <1>3, <1>4, <1>5, <1>6 DEF ReplNext, ReplStep

\* Of what is typed, the binder reports something exactly when it has no type.
THEOREM TheRulesDecideWhatIsTyped == ReplSpec => []ReportsIffIllTyped
<1>1. ReplInit => Ruled
  BY DEF ReplInit, CompilationInit, Ruled
<1>2. ReplInv /\ Ruled /\ [ReplNext]_repl_vars => Ruled'
  BY LoopSteps, RuledNext, SubmitRules DEF ReplInv, Ruled
<1>3. ReplInv /\ Ruled => ReportsIffIllTyped
  BY ReportsFollow DEF ReplInv
<1> QED
  BY <1>1, <1>2, <1>3, ReplInvariant, PTL DEF ReplSpec

\* The cells of the bound trees of the loop are owned once too, and each answer leaves but
\* the refused copies of its own text.
THEOREM EveryCellTypedIsOwnedOnce == ReplSpec => []CellsOwnedOnce
<1>1. ReplInit => CellsInv
  BY DEF ReplInit, CompilationInit, CellsInv
<1>2. ASSUME ReplInv, CellsInv, [ReplNext]_repl_vars PROVE CellsInv'
  <2>1. CASE [Next]_vars
    BY <1>2, <2>1, CellsNext DEF ReplInv
  <2>2. CASE \E tree : IsSyntaxTree(tree) /\ Submit(tree)
    <3>1. PICK tree : BindGlobalScope(tree) /\ phase' = "binding"
      BY <2>2 DEF Submit
    <3>2. CellsCounted'
      BY <3>1, CountedSubmission
    <3> QED
      BY <3>1, <3>2 DEF CellsInv
  <2>3. CASE phase' = "ready"
    BY <2>3 DEF CellsInv
  <2> QED
    BY <1>2, <2>1, <2>2, <2>3, LoopSteps
<1>3. ReplInv /\ CellsInv => CellsOwnedOnce
  BY CellsFollow DEF ReplInv
<1> QED
  BY <1>1, <1>2, <1>3, ReplInvariant, PTL DEF ReplSpec

LEMMA LoopMakes == ReplInv /\ Made /\ [ReplNext]_repl_vars => Made'
<1> SUFFICES ASSUME ReplInv, Made, [ReplNext]_repl_vars PROVE Made'
  OBVIOUS
<1>1. CASE [Next]_vars
  BY <1>1, MadeNext DEF ReplInv
<1>2. CASE \E tree : IsSyntaxTree(tree) /\ Submit(tree)
  BY <1>2, SubmitMakes DEF Made
<1>3. CASE phase' = "ready"
  BY <1>3 DEF Made
<1> QED
  BY <1>1, <1>2, <1>3, LoopSteps

LEMMA LoopMeans ==
  ReplInv /\ ReplInv' /\ Ruled /\ Made /\ Meant /\ [ReplNext]_repl_vars => Meant'
<1> SUFFICES ASSUME ReplInv, ReplInv', Ruled, Made, Meant, [ReplNext]_repl_vars PROVE Meant'
  OBVIOUS
<1>1. CASE [Next]_vars
  <2>1. CompilationInv /\ CompilationInv'
    BY DEF ReplInv
  <2> QED
    BY <1>1, <2>1, MeantNext
<1>2. CASE \E tree : IsSyntaxTree(tree) /\ Submit(tree)
  BY <1>2 DEF Submit, Meant, ExpectsValue
<1>3. CASE phase' = "ready"
  BY <1>3 DEF Meant, ExpectsValue
<1> QED
  BY <1>1, <1>2, <1>3, LoopSteps

\* What the loop prints for a text, of one line or of many, is what the text means after the
\* ones before it: nothing that was parsed in vain on the way has left a trace in it.
THEOREM TheLoopAnswersTheMeaning == ReplSpec => []AnswerIsMeaning
<1>1. ReplInit => Ruled /\ Made /\ Meant
  BY DEF ReplInit, CompilationInit, Ruled, Made, Meant, ExpectsValue
<1>2. ReplInv /\ Ruled /\ [ReplNext]_repl_vars => Ruled'
  BY LoopSteps, RuledNext, SubmitRules DEF ReplInv, Ruled
<1>3. ReplInv /\ Made /\ [ReplNext]_repl_vars => Made'
  BY LoopMakes
<1>4. ReplInv /\ ReplInv' /\ Ruled /\ Made /\ Meant /\ [ReplNext]_repl_vars => Meant'
  BY LoopMeans
<1>5. ReplInv /\ Meant => AnswerIsMeaning
  BY MeaningFollows DEF ReplInv
<1> QED
  BY <1>1, <1>2, <1>3, <1>4, <1>5, ReplInvariant, PTL DEF ReplSpec

--------------------------------------------------------------------------------
(* The session that the states of the loop stand for.                           *)

\* While the input lasts, the session of a compilation is that of the loop.
LEMMA WhileOpen ==
  ASSUME repl # "exited", repl' # "exited", [OpenSession!Next]_(OpenSession!session_vars)
  PROVE  [TheSession!Next]_(TheSession!session_vars)
<1>1. (repl # "exited") = TRUE /\ (repl' # "exited") = TRUE
  OBVIOUS
<1>2. CASE OpenSession!Submit
  BY <1>1, <1>2, Zenon DEF OpenSession!Submit, OpenSession!None, OpenSession!Submission, OpenSession!Stores,
     TheSession!Submit, TheSession!None, TheSession!Submission, TheSession!Stores, TheSession!Next
<1>3. CASE OpenSession!Refuse
  BY <1>1, <1>3, Zenon DEF OpenSession!Refuse, OpenSession!Waiting, OpenSession!None, OpenSession!The, OpenSession!Refusal,
     TheSession!Refuse, TheSession!Waiting, TheSession!None, TheSession!The, TheSession!Refusal, TheSession!Next
<1>4. CASE OpenSession!CarryOut
  BY <1>1, <1>4, Zenon DEF OpenSession!CarryOut, OpenSession!Waiting, OpenSession!None, OpenSession!The,
     TheSession!CarryOut, TheSession!Waiting, TheSession!None, TheSession!The, TheSession!Next
<1>5. CASE OpenSession!Deliver
  BY <1>1, <1>5, Zenon DEF OpenSession!Deliver, OpenSession!None, TheSession!Deliver, TheSession!None, TheSession!Next
<1>6. ~OpenSession!Close
  BY DEF OpenSession!Close
<1>7. CASE UNCHANGED OpenSession!session_vars
  BY <1>1, <1>7, Zenon DEF OpenSession!session_vars, TheSession!session_vars
<1> QED
  BY <1>2, <1>3, <1>4, <1>5, <1>6, <1>7 DEF OpenSession!Next

\* The end of the input closes the session.
LEMMA EndCloses == ReplInv /\ EndOfInput => TheSession!Close
<1> SUFFICES ASSUME ReplInv, EndOfInput PROVE TheSession!Close
  OBVIOUS
<1>1. repl = "prompt" /\ repl' = "exited" /\ phase' = phase /\ DOMAIN variables' = {}
  BY DEF EndOfInput, Prompted
<1>2. phase = "ready" /\ phase' = "ready"
  BY <1>1 DEF ReplInv
<1>3. SessionSubmission = <<>> /\ SessionSubmission' = <<>> /\ SessionReply = <<>> /\ SessionReply' = <<>>
  BY <1>2 DEF SessionSubmission, UnderWay, SessionReply, Running
<1>4. (~Running => SessionStore = Stored(objects, variables))'
  BY StoreAtRest, PTL
<1>5. SessionStore' = Stored(objects', variables')
  BY <1>2, <1>4 DEF Running
<1>6. SessionStore' = [ name \in {} |-> Trap ]
  BY <1>1, <1>5 DEF Stored
<1>7. (repl # "exited") = TRUE /\ (repl' # "exited") = FALSE
  BY <1>1
<1> QED
  BY <1>3, <1>6, <1>7, Zenon DEF TheSession!Close, TheSession!None, TheSession!Empty

LEMMA LoopSessionStep ==
  ReplInv /\ ReplInv' /\ Ruled /\ Meant /\ [ReplNext]_repl_vars => [TheSession!Next]_(TheSession!session_vars)
<1> SUFFICES ASSUME ReplInv, ReplInv', Ruled, Meant, [ReplNext]_repl_vars
             PROVE  [TheSession!Next]_(TheSession!session_vars)
  OBVIOUS
<1>1. CompilationInv /\ CompilationInv'
  BY DEF ReplInv
<1>2. CASE EndOfInput
  BY <1>2, EndCloses DEF TheSession!Next
<1>3. CASE \E line \in Line : ReadCommand(line) \/ ReadText(line)
  <2>1. UNCHANGED vars /\ repl # "exited" /\ repl' # "exited"
    BY <1>3 DEF ReadCommand, ReadText, Prompted, compilation_vars
  <2> QED
    BY <2>1, StutteringIsNoStep, WhileOpen
<1>4. CASE ParserStep \/ ReadOn
  <2>1. UNCHANGED vars /\ repl # "exited" /\ repl' # "exited"
    BY <1>4 DEF ParserStep, ReadOn, Parsed, compilation_vars
  <2> QED
    BY <2>1, StutteringIsNoStep, WhileOpen
<1>5. CASE Compile
  <2>1. PICK tree : tree = [ nodes |-> nodes, tokens |-> tokens, root |-> control.node,
                             diagnostics |-> diagnostics ]
    OBVIOUS
  <2>2. repl = "parsing" /\ repl' = "compiling" /\ Submit(tree)
    BY <1>5, <2>1 DEF Compile, Parsed
  <2>3. OpenSession!Submit
    BY <1>1, <2>2, SubmitsToSession
  <2> QED
    BY <2>2, <2>3, WhileOpen DEF OpenSession!Next
<1>6. CASE CompileStep
  <2>1. repl = "compiling" /\ repl' \in { "prompt", "compiling" } /\ Next
    BY <1>6 DEF CompileStep, Next
  <2>2. [OpenSession!Next]_(OpenSession!session_vars)
    BY <1>1, <2>1, SessionStep
  <2> QED
    BY <2>1, <2>2, WhileOpen
<1>7. CASE UNCHANGED repl_vars
  <2>1. UNCHANGED vars /\ repl' = repl
    BY <1>7 DEF repl_vars, compilation_vars
  <2>2. UNCHANGED OpenSession!session_vars
    BY <2>1, StutteringIsNoStep
  <2> QED
    BY <2>1, <2>2, Zenon DEF OpenSession!session_vars, TheSession!session_vars
<1> QED
  BY <1>2, <1>3, <1>4, <1>5, <1>6, <1>7 DEF ReplNext, ReplStep

\* The safety part of ReplImplementsSession: lines that wait for more, commands, blank lines and
\* trees that were parsed in vain are no part of the session, and the end of the input closes it
\* with nothing stored, whatever lines are typed and however many of them.
THEOREM EveryStepOfTheLoopIsOneOfTheSession == ReplSpec => TheSession!Safety
<1>1. ReplInit => Ruled /\ Made /\ Meant
  BY DEF ReplInit, CompilationInit, Ruled, Made, Meant, ExpectsValue
<1>2. ReplInv /\ Ruled /\ [ReplNext]_repl_vars => Ruled'
  BY LoopSteps, RuledNext, SubmitRules DEF ReplInv, Ruled
<1>3. ReplInv /\ Made /\ [ReplNext]_repl_vars => Made'
  BY LoopMakes
<1>4. ReplInv /\ ReplInv' /\ Ruled /\ Made /\ Meant /\ [ReplNext]_repl_vars => Meant'
  BY LoopMeans
<1>5. ReplInit => TheSession!Init
  <2> SUFFICES ASSUME ReplInit PROVE TheSession!Init
    OBVIOUS
  <2>1. phase = "ready" /\ DOMAIN variables = {} /\ repl = "prompt"
    BY DEF ReplInit, CompilationInit
  <2>2. SessionSubmission = <<>> /\ SessionReply = <<>>
    BY <2>1 DEF SessionSubmission, UnderWay, SessionReply, Running
  <2>3. SessionStore = Stored(objects, variables)
    BY <2>1, StoreAtRest DEF Running
  <2>4. SessionStore = [ name \in {} |-> Trap ]
    BY <2>1, <2>3 DEF Stored
  <2>5. (repl # "exited") = TRUE
    BY <2>1
  <2> QED
    BY <2>2, <2>4, <2>5, Zenon DEF TheSession!Init, TheSession!None, TheSession!Empty
<1>6. ReplInv /\ ReplInv' /\ Ruled /\ Meant /\ [ReplNext]_repl_vars
        => [TheSession!Next]_(TheSession!session_vars)
  BY LoopSessionStep
<1> QED
  BY <1>1, <1>2, <1>3, <1>4, <1>5, <1>6, ReplInvariant, PTL DEF ReplSpec, TheSession!Safety
================================================================================
