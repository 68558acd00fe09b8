------------------------------ MODULE MCCompilation ------------------------------
(* Sessions of any length over small expressions: a few shapes for every operator   *)
(* over one variable and some expressions over two, or shallow ones only.          *)
EXTENDS MCTreeLayout

Leaves   == { Num(1), True, Var("a") }
Binaries == { "PLUS_TOKEN", "SLASH_TOKEN", "AMPERSAND_AMPERSAND_TOKEN", "EQUALS_EQUALS_TOKEN" }
Assigns  == { Asg("a", e) : e \in Leaves }
Unaries  == { Un(op, e) : op \in { "MINUS_TOKEN", "BANG_TOKEN" }, e \in Leaves }
Sums     == { Bin(op, l, r) : op \in Binaries, l \in Leaves, r \in Leaves }

\* Assignments inside operators, and operators inside assignments and operators.
Nested ==
    { Bin(op, l, r) : op \in Binaries, l \in Assigns, r \in Leaves \cup Assigns }
      \cup { Bin(op, l, r) : op \in Binaries, l \in Leaves, r \in Assigns }
      \cup { Asg("a", e) : e \in Sums \cup Unaries \cup Assigns }
      \cup { Un(op, e) : op \in { "PLUS_TOKEN", "BANG_TOKEN" }, e \in Assigns }

\* -2 / -1 and -2 * -2 with two bits; x / 0; operators the other sets leave out;
\* texts the parser could not make sense of.
MinusTwo == Bin("PLUS_TOKEN", Num(1), Num(1))
Corners ==
    { Bin("SLASH_TOKEN", MinusTwo, Un("MINUS_TOKEN", Num(1))),
      Bin("STAR_TOKEN", MinusTwo, MinusTwo),
      Bin("MINUS_TOKEN", Asg("a", Num(0)), Bin("PLUS_TOKEN", Var("a"), Num(1))),
      Bin("SLASH_TOKEN", Asg("a", Num(1)), Num(0)),
      Bin("BANG_EQUALS_TOKEN", Asg("a", True), Var("a")),
      Bin("PIPE_PIPE_TOKEN", Bin("BANG_EQUALS_TOKEN", Num(1), Num(1)), Asg("a", True)),
      Bin("PIPE_PIPE_TOKEN", True, Asg("a", False)),
      Bin("AMPERSAND_AMPERSAND_TOKEN", False, Asg("a", True)),
      Bin("PLUS_TOKEN", True, Bin("PLUS_TOKEN", Asg("a", Num(1)), Asg("a", Num(0)))),
      Missing, Bin("PLUS_TOKEN", Asg("a", Num(1)), Missing), TooLarge,
      Asg("a", TooLarge), Un("MINUS_TOKEN", TooLarge) }

OneVariable ==
    { Tree(e) : e \in Leaves \cup Assigns \cup Unaries \cup Sums \cup Nested \cup Corners }

TwoVariables ==
    { Tree(e) : e \in
        { Asg(n, e) : n \in { "a", "b" }, e \in { Num(1), True } }
        \cup { Bin("EQUALS_EQUALS_TOKEN", Asg("a", Num(1)), Bin(op, Asg("b", e), Var("a"))) :
                 op \in { "PLUS_TOKEN", "EQUALS_EQUALS_TOKEN" }, e \in { Num(1), True, Var("a") } }
        \cup { Asg("a", Asg("b", Num(1))), Asg("a", Bin("PLUS_TOKEN", Asg("a", Num(1)), Asg("b", Num(1)))),
               Bin("PLUS_TOKEN", Var("b"), Asg("b", Num(1))),
               Bin("PLUS_TOKEN", Asg("a", Num(0)), Bin("SLASH_TOKEN", Asg("b", Num(1)), Var("a"))) } }

Shapes == OneVariable \cup TwoVariables

\* Two variables, shallow: whole, refused in the middle, and ended by a trap.
Shallow ==
    { Tree(e) : e \in
        { Asg("a", Num(1)), Asg("a", False), Asg("b", True),
          Asg("a", Asg("b", Num(0))), Bin("MINUS_TOKEN", Asg("b", Num(0)), Asg("a", Num(1))),
          Bin("PLUS_TOKEN", Asg("a", Num(0)), Asg("b", True)),
          Bin("EQUALS_EQUALS_TOKEN", Asg("a", Num(0)), Var("a")),
          Asg("b", Var("a")), Asg("a", TooLarge),
          Bin("SLASH_TOKEN", Asg("b", Num(1)), Num(0)) } }
================================================================================
