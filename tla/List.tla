---------------------------------- MODULE List ----------------------------------
(***************************************************************************)
(* What a BUF promises its users, without blocks, capacities or moves: each *)
(* name stands for a list, an operation happens at a stroke, and it changes *)
(* the lists it names and no other one.                                     *)
(***************************************************************************)
EXTENDS Integers, Sequences

CONSTANTS Handle, Item, Array

VARIABLE list              \* name -> list

Init == list = [ h \in Handle |-> <<>> ]

Push(h, x)     == list' = [ list EXCEPT ![h] = Append(@, x) ]
Pop(h)         == list[h] # <<>> /\ list' = [ list EXCEPT ![h] = SubSeq(@, 1, Len(@) - 1) ]
PopFirst(h)    == list[h] # <<>> /\ list' = [ list EXCEPT ![h] = Tail(@) ]
Clear(h)       == list' = [ list EXCEPT ![h] = <<>> ]
Concat(h, g)   == list' = [ list EXCEPT ![h] = @ \o list[g], ![g] = <<>> ]
Move(h, g)     == list[g] = <<>> /\ list' = [ list EXCEPT ![g] = list[h], ![h] = <<>> ]
View(h, g)     == list[g] = <<>> /\ list' = [ list EXCEPT ![g] = list[h] ]
ListArray(h)   == list[h] = <<>> /\ list' = [ list EXCEPT ![h] = Array ]

Next ==
    \E h \in Handle :
        \/ \E x \in Item : Push(h, x)
        \/ Pop(h) \/ PopFirst(h) \/ Clear(h) \/ ListArray(h)
        \/ \E g \in Handle \ {h} : Concat(h, g) \/ Move(h, g) \/ View(h, g)

Spec == Init /\ [][Next]_list
================================================================================
