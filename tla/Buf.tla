----------------------------------- MODULE Buf -----------------------------------
(***************************************************************************)
(* buf.h, the growable array under every other part, with the functions    *)
(* that hand such arrays on: the bags of diagnostics, which are moved,     *)
(* viewed and concatenated, and the string builder, which is cleared.      *)
(*                                                                         *)
(* An address is a number, NULL is 0; a block is a function on 1..its size *)
(* in items, and what nobody has written there is Garbage.                 *)
(***************************************************************************)
EXTENDS Integers, Sequences

CONSTANTS Handle,          \* the C variables of a BUF type
          Item,            \* what they hold
          Garbage,         \* the content of memory nobody has written
          Array,           \* the items of a static array
          MaxBlocks,       \* bound: blocks at a time
          MaxLen           \* bound: the length of a buf

ASSUME GarbageAssumption == Garbage \notin Item
ASSUME ArrayAssumption == Array \in Seq(Item)
ASSUME BlocksAssumption == MaxBlocks \in Nat /\ MaxLen \in Nat

VARIABLES bufs,            \* the struct each variable holds, from BUF_NEW on
          memory,          \* the block at an address
          copying,         \* BUF_CONCAT, while its loop runs
          aborted

vars == << bufs, memory, copying, aborted >>

NULL == 0
StaticAddress == MaxBlocks + 1

NewBuf == [ ptr |-> NULL, len |-> 0, cap |-> 0, ref |-> FALSE ]                 \* BUF_NEW
BufRef(p, n) == [ ptr |-> p, len |-> n, cap |-> n, ref |-> TRUE ]
BufType == [ ptr : 0..StaticAddress, len : Nat, cap : Nat, ref : BOOLEAN ]

NotCopying == [ on |-> FALSE ]
Copies(h, g, i) == [ on |-> TRUE, to |-> h, from |-> g, i |-> i ]

StaticBlock == [ i \in 1..Len(Array) |-> Array[i] ]

Init ==
    /\ bufs = [ h \in Handle |-> NewBuf ]
    /\ memory = [ a \in {StaticAddress} |-> StaticBlock ]
    /\ copying = NotCopying
    /\ aborted = FALSE

Idle == ~aborted /\ copying = NotCopying

\* Nobody changes an array that somebody else has a view of, nor a view, and only a
\* variable that owns nothing is overwritten.
Viewed(h) == \E v \in Handle \ {h} : bufs[v].ref /\ bufs[v].ptr = bufs[h].ptr
Mine(h)   == ~bufs[h].ref /\ (bufs[h].ptr # NULL => ~Viewed(h))
Unused(h) == bufs[h] = NewBuf

--------------------------------------------------------------------------------

NewCapacity(h) == IF bufs[h].cap = 0 THEN 1 ELSE bufs[h].cap * 2

Without(a) == DOMAIN memory \ {a}
FreshAddresses == (1..MaxBlocks) \ DOMAIN memory

\* Mutant: malloc in its place.
ReallocatedAnew(h, a, n) ==
    [ b \in Without(bufs[h].ptr) \cup {a} |->
        IF b # a THEN memory[b] ELSE [ i \in 1..n |-> Garbage ] ]

(***************************************************************************)
(* BUF_PUSH.  realloc gives out a block with the items of the old one, in  *)
(* its place or in another one, and then the old one is gone.              *)
(***************************************************************************)
Reallocated(h, a, n) ==
    LET old == bufs[h].ptr IN
    [ b \in Without(old) \cup {a} |->
        IF b # a THEN memory[b]
        ELSE [ i \in 1..n |->
                 IF old # NULL /\ i <= bufs[h].cap THEN memory[old][i] ELSE Garbage ] ]

PushInPlace(h, x) ==
    /\ bufs[h].len # bufs[h].cap
    /\ bufs' = [ bufs EXCEPT ![h].len = @ + 1 ]
    /\ memory' = [ memory EXCEPT ![bufs[h].ptr][bufs[h].len + 1] = x ]

PushGrowing(h, x) ==
    LET n == NewCapacity(h) IN
    /\ bufs[h].len = bufs[h].cap
    /\ \E a \in FreshAddresses \cup ({bufs[h].ptr} \ {NULL}) :
        /\ memory' = [ Reallocated(h, a, n) EXCEPT ![a][bufs[h].len + 1] = x ]
        /\ bufs' = [ bufs EXCEPT ![h] = [ ptr |-> a, len |-> bufs[h].len + 1,
                                          cap |-> n, ref |-> FALSE ] ]

PushItem(h, x) == PushInPlace(h, x) \/ PushGrowing(h, x)

Push(h, x) ==
    /\ Idle /\ Mine(h) /\ bufs[h].len < MaxLen
    /\ PushItem(h, x)
    /\ UNCHANGED << copying, aborted >>

\* BUF_ASSERT: realloc may have nothing to give.
Abort(h) ==
    /\ ~aborted
    /\ bufs[h].len = bufs[h].cap
    /\ \/ copying = NotCopying /\ Mine(h)
       \/ copying # NotCopying /\ copying.to = h /\ copying.i < bufs[copying.from].len
    /\ aborted' = TRUE
    /\ UNCHANGED << bufs, memory, copying >>

\* Its users ask for len > 0 first, as asserting_iterator.c does.
Pop(h) ==
    /\ Idle /\ Mine(h) /\ bufs[h].len > 0
    /\ bufs' = [ bufs EXCEPT ![h].len = @ - 1 ]
    /\ UNCHANGED << memory, copying, aborted >>

PopFirst(h) ==
    /\ Idle /\ Mine(h) /\ bufs[h].len > 0
    /\ bufs' = [ bufs EXCEPT ![h].len = @ - 1 ]
    /\ memory' = [ memory EXCEPT ![bufs[h].ptr] =
                    [ i \in DOMAIN @ |-> IF i < bufs[h].len THEN @[i + 1] ELSE @[i] ] ]
    /\ UNCHANGED << copying, aborted >>

\* string_builder_clear keeps the block for what is added next.
Clear(h) ==
    /\ Idle /\ Mine(h)
    /\ bufs' = [ bufs EXCEPT ![h].len = 0 ]
    /\ UNCHANGED << memory, copying, aborted >>

Freed(h) == IF bufs[h].ref THEN memory ELSE [ a \in Without(bufs[h].ptr) |-> memory[a] ]

\* BUF_FREE, after which the variable is gone, or is given BUF_NEW.
Free(h) ==
    /\ Idle /\ (~bufs[h].ref => Mine(h))
    /\ memory' = Freed(h)
    /\ bufs' = [ bufs EXCEPT ![h] = NewBuf ]
    /\ UNCHANGED << copying, aborted >>

--------------------------------------------------------------------------------

\* diagnostic_bag_iter: the view ends when its user lets go of it.
View(h, v) ==
    /\ Idle /\ h # v /\ Unused(v)
    /\ bufs' = [ bufs EXCEPT ![v] = BufRef(bufs[h].ptr, bufs[h].len) ]
    /\ UNCHANGED << memory, copying, aborted >>

ViewArray(v) ==
    /\ Idle /\ Unused(v)
    /\ bufs' = [ bufs EXCEPT ![v] = BufRef(StaticAddress, Len(Array)) ]
    /\ UNCHANGED << memory, copying, aborted >>

\* Mutant: the bag keeps the array it has handed out.
MoveShared(h, g) ==
    /\ Idle /\ Mine(h) /\ h # g /\ Unused(g)
    /\ bufs' = [ bufs EXCEPT ![g] = bufs[h] ]
    /\ UNCHANGED << memory, copying, aborted >>

\* diagnostic_bag_to_array
Move(h, g) ==
    /\ Idle /\ Mine(h) /\ h # g /\ Unused(g)
    /\ bufs' = [ bufs EXCEPT ![g] = bufs[h], ![h] = NewBuf ]
    /\ UNCHANGED << memory, copying, aborted >>

\* diagnostic_bag_concat: one push for each item of other, then other is freed.
StartConcat(h, g) ==
    /\ Idle /\ h # g /\ Mine(h)
    /\ ~bufs[g].ref => Mine(g)
    /\ bufs[h].len + bufs[g].len <= MaxLen
    /\ copying' = Copies(h, g, 0)
    /\ UNCHANGED << bufs, memory, aborted >>

ConcatItem ==
    /\ ~aborted /\ copying # NotCopying /\ copying.i < bufs[copying.from].len
    /\ PushItem(copying.to, memory[bufs[copying.from].ptr][copying.i + 1])
    /\ copying' = [ copying EXCEPT !.i = @ + 1 ]
    /\ UNCHANGED aborted

FinishConcat ==
    /\ ~aborted /\ copying # NotCopying /\ copying.i = bufs[copying.from].len
    /\ memory' = Freed(copying.from)
    /\ bufs' = [ bufs EXCEPT ![copying.from] = NewBuf ]
    /\ copying' = NotCopying
    /\ UNCHANGED aborted

Next ==
    \/ \E h \in Handle :
        \/ Pop(h) \/ PopFirst(h) \/ Clear(h) \/ Free(h) \/ Abort(h) \/ ViewArray(h)
        \/ \E x \in Item : Push(h, x)
        \/ \E g \in Handle : View(h, g) \/ Move(h, g) \/ StartConcat(h, g)
    \/ ConcatItem \/ FinishConcat

Spec == Init /\ [][Next]_vars

--------------------------------------------------------------------------------

TypeOK ==
    /\ bufs \in [ Handle -> BufType ]
    /\ StaticAddress \in DOMAIN memory /\ DOMAIN memory \subseteq 1..StaticAddress
    /\ \/ copying = NotCopying
       \/ \E h, g \in Handle : \E i \in Nat : h # g /\ copying = Copies(h, g, i)
    /\ aborted \in BOOLEAN

Holds(h) == bufs[h].ptr \in DOMAIN memory \ {StaticAddress}

(***************************************************************************)
(* Every block has one owner, whose cap is its size, and nobody else's     *)
(* pointer but a view's leads to it; no view outlives the block it looks   *)
(* at, and none sees more than was written: wherever realloc puts things,  *)
(* and in whatever order arrays are moved, viewed, joined and freed.       *)
(***************************************************************************)
BlocksOwnedOnce ==
    /\ \A a \in DOMAIN memory \ {StaticAddress} :
        \E h \in Handle : /\ ~bufs[h].ref /\ bufs[h].ptr = a
                        /\ \A g \in Handle \ {h} : bufs[g].ptr = a => bufs[g].ref
    /\ \A h \in Handle :
        /\ bufs[h].len <= bufs[h].cap
        /\ bufs[h].cap > 0 => bufs[h].ptr \in DOMAIN memory
        /\ ~bufs[h].ref /\ bufs[h].ptr # NULL =>
              Holds(h) /\ DOMAIN memory[bufs[h].ptr] = 1..bufs[h].cap
        /\ \A i \in 1..bufs[h].len : memory[bufs[h].ptr][i] \in Item

\* What a variable shows: while it is concatenated to, what it had before.
Shown(h) == IF copying # NotCopying /\ copying.to = h THEN bufs[h].len - copying.i
                                                      ELSE bufs[h].len

Contents == [ h \in Handle |-> [ i \in 1..Shown(h) |-> memory[bufs[h].ptr][i] ] ]

TheLists == INSTANCE List WITH list <- Contents

(***************************************************************************)
(* A buf is a list: growing, moving and sharing blocks cannot be told from *)
(* operations on lists that never touch each other.                        *)
(***************************************************************************)
BufImplementsList == TheLists!Spec

================================================================================
