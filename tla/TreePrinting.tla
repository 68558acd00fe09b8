------------------------------ MODULE TreePrinting ------------------------------
(***************************************************************************)
(* The two walks of the program over a finished tree: syntax_node.c draws  *)
(* it for #showTree by recursion, the indentation of a line being handed   *)
(* down to the lines below, and flatten of asserting_iterator.c lists its  *)
(* nodes for the parser's tests with a stack of its own.                   *)
(***************************************************************************)
EXTENDS ParserProperties

LOCAL INSTANCE SequencesExt

\* What stands in one column of a line: "│   " or "    " in its indentation, and
\* "├───" or "└───" where its node hangs from its parent.
Indents == { "bar", "blank" }
Markers == { "tee", "corner" }
DrawnLine == [ indent : Seq(Indents), marker : Markers, node : NodeIds ]

\* Mutant: i compared with the length itself, which no index reaches.
IsLastPastTheEnd(i, children) == i = Len(children) + 1

IsLast(i, children) == i = Len(children)

\* What pretty_print writes for the call of these arguments.
PrettyPrint ==
    LET print[root \in NodeIds, indent \in Seq(Indents), isLast \in BOOLEAN] ==
            LET children  == nodes[root].kids
                newIndent == Append(indent, IF isLast THEN "blank" ELSE "bar")
            IN << [ indent |-> indent, marker |-> IF isLast THEN "corner" ELSE "tee", node |-> root ] >>
                 \o FlattenSeq([ i \in 1..Len(children) |->
                                    print[children[i], newIndent, IsLast(i, children)] ])
    IN print

\* syntax_node_pretty_print.
Drawing(root) == PrettyPrint[root, <<>>, TRUE]

\* What flatten has yet to list when these nodes are on its stack: it pushes the
\* children from the last to the first, to pop the first one next.
Flatten ==
    LET walk[waiting \in Seq(NodeIds)] ==
            IF waiting = <<>> THEN <<>>
            ELSE << Last(waiting) >> \o walk[Front(waiting) \o Reverse(nodes[Last(waiting)].kids)]
    IN walk

--------------------------------------------------------------------------------
(* What a reader of the drawing goes by.                                        *)

Depth(line) == Len(line.indent)

\* Below line l of the drawing, and before anything further left, a node hangs in
\* the column after depth.
HangsBelow(drawing, l, depth) ==
    \E m \in l + 1 .. Len(drawing) :
        /\ Depth(drawing[m]) = depth
        /\ \A between \in l + 1 .. m - 1 : Depth(drawing[between]) > depth

\* The line a reader takes for the parent of line l: the nearest one above it that is
\* indented less.
ReadParent(drawing, l) ==
    CHOOSE m \in 1 .. l - 1 :
        /\ Depth(drawing[m]) < Depth(drawing[l])
        /\ \A between \in m + 1 .. l - 1 : Depth(drawing[between]) >= Depth(drawing[l])

\* The drawing tells the tree and no other: its lines are the nodes in the order in
\* which flatten lists them, every node under its parent, and a branch goes down a
\* column exactly as long as a node is to hang from it.
DrawingTellsTheTree ==
    control.fn = "done" =>
        LET drawing == Drawing(control.node) IN
        /\ [ l \in 1..Len(drawing) |-> drawing[l].node ] = Flatten[<< control.node >>]
        /\ \A l \in 1..Len(drawing) :
              /\ drawing[l] \in DrawnLine
              /\ l > 1 => \E i \in 1..3 :
                    LET siblings == nodes[drawing[ReadParent(drawing, l)].node].kids
                    IN i <= Len(siblings) /\ siblings[i] = drawing[l].node
              /\ drawing[l].marker = "tee" <=> HangsBelow(drawing, l, Depth(drawing[l]))
              /\ \A c \in 1..Depth(drawing[l]) :
                    drawing[l].indent[c] = "bar" <=> HangsBelow(drawing, l, c - 1)
================================================================================
