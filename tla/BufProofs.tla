------------------------------- MODULE BufProofs -------------------------------
(***************************************************************************)
(* Whatever the number of variables, blocks and items: every block has one *)
(* owner, and bufs implement lists that do not touch each other.           *)
(***************************************************************************)
EXTENDS Buf, SequenceLemmas

Owns(h) == ~bufs[h].ref /\ bufs[h].ptr # NULL

Typed ==
    /\ bufs \in [ Handle -> BufType ]
    /\ memory = [ a \in DOMAIN memory |-> memory[a] ]
    /\ StaticAddress \in DOMAIN memory /\ DOMAIN memory \subseteq 1..StaticAddress
    /\ memory[StaticAddress] = StaticBlock

Shaped == \A h \in Handle : /\ bufs[h].len <= bufs[h].cap
                            /\ bufs[h].ptr = NULL => bufs[h].cap = 0

\* An owner's block is its own, and of the size it thinks it is.
Owned ==
    \A h \in Handle : Owns(h) =>
        /\ bufs[h].ptr \in 1..MaxBlocks /\ bufs[h].ptr \in DOMAIN memory
        /\ memory[bufs[h].ptr] = [ i \in 1..bufs[h].cap |-> memory[bufs[h].ptr][i] ]
Unshared ==
    \A h, g \in Handle : h # g /\ Owns(h) /\ Owns(g) => bufs[h].ptr # bufs[g].ptr
NothingLost ==
    \A a \in DOMAIN memory \ {StaticAddress} : \E h \in Handle : Owns(h) /\ bufs[h].ptr = a

\* Owners and views alike look at live blocks, and at items only.
Filled ==
    \A h \in Handle : bufs[h].ptr # NULL =>
        /\ bufs[h].ptr \in DOMAIN memory
        /\ \A i \in 1..bufs[h].len : memory[bufs[h].ptr][i] \in Item

Heap == Typed /\ Shaped /\ Owned /\ Unshared /\ NothingLost /\ Filled

\* The first i items of the one are the last i items of the other.
IsCopying(h, g, i) ==
    /\ copying = Copies(h, g, i)
    /\ h # g /\ Mine(h) /\ (~bufs[g].ref => Mine(g))
    /\ i <= bufs[g].len /\ i <= bufs[h].len
    /\ \A k \in 1..i : memory[bufs[h].ptr][bufs[h].len - i + k] = memory[bufs[g].ptr][k]
CopyOK ==
    copying = NotCopying \/ \E h, g \in Handle : \E i \in Nat : IsCopying(h, g, i)

Inv == Heap /\ CopyOK /\ aborted \in BOOLEAN

--------------------------------------------------------------------------------
(* What a step leaves of a variable it does not name.                           *)

Kept(g) ==
    /\ bufs'[g] = bufs[g]
    /\ bufs[g].ptr # NULL => memory'[bufs[g].ptr] = memory[bufs[g].ptr]
OthersKept(h) == \A g \in Handle \ {h} : Kept(g)

LEMMA Fields ==
  ASSUME Typed, NEW h \in Handle
  PROVE  /\ bufs[h] = [ ptr |-> bufs[h].ptr, len |-> bufs[h].len,
                        cap |-> bufs[h].cap, ref |-> bufs[h].ref ]
         /\ bufs[h].ptr \in 0..StaticAddress /\ bufs[h].ptr \in Nat
         /\ bufs[h].len \in Nat /\ bufs[h].cap \in Nat
         /\ bufs[h].ref \in BOOLEAN
<1>1. bufs[h] \in BufType
  BY DEF Typed
<1> QED
  BY <1>1, BlocksAssumption DEF BufType, StaticAddress

\* A variable that is neither a view nor viewed shares its block with nobody.
LEMMA MineAlone ==
  ASSUME Heap, NEW h \in Handle, Mine(h), NEW g \in Handle \ {h}, bufs[h].ptr # NULL
  PROVE  bufs[g].ptr # bufs[h].ptr
<1>1. CASE bufs[g].ref
  BY <1>1 DEF Mine, Viewed
<1>2. CASE ~bufs[g].ref
  BY <1>2 DEF Heap, Unshared, Owns, Mine
<1> QED
  BY <1>1, <1>2

\* Its block is a live one, unless it has none.
LEMMA LenFits ==
  ASSUME Heap, NEW h \in Handle
  PROVE  bufs[h].len <= bufs[h].cap /\ (bufs[h].ptr = NULL => bufs[h].len = 0)
<1>1. bufs[h].len \in Nat /\ bufs[h].cap \in Nat
  BY Fields DEF Heap
<1>2. bufs[h].len <= bufs[h].cap /\ (bufs[h].ptr = NULL => bufs[h].cap = 0)
  BY DEF Heap, Shaped
<1> QED
  BY <1>1, <1>2

LEMMA MineBlock ==
  ASSUME Heap, NEW h \in Handle, Mine(h), bufs[h].ptr # NULL
  PROVE  /\ bufs[h].ptr \in 1..MaxBlocks /\ bufs[h].ptr \in DOMAIN memory
         /\ memory[bufs[h].ptr] = [ i \in 1..bufs[h].cap |-> memory[bufs[h].ptr][i] ]
         /\ bufs[h].ptr # StaticAddress
<1>1. /\ bufs[h].ptr \in 1..MaxBlocks /\ bufs[h].ptr \in DOMAIN memory
      /\ memory[bufs[h].ptr] = [ i \in 1..bufs[h].cap |-> memory[bufs[h].ptr][i] ]
  BY DEF Heap, Owned, Owns, Mine
<1>2. bufs[h].ptr # StaticAddress
  BY <1>1, BlocksAssumption DEF StaticAddress
<1> QED
  BY <1>1, <1>2

--------------------------------------------------------------------------------
(* BUF_PUSH.                                                                    *)

Grew(h, x) ==
    /\ bufs' \in [ Handle -> BufType ] /\ \A g \in Handle \ {h} : bufs'[g] = bufs[g]
    /\ ~bufs'[h].ref /\ bufs'[h].len = bufs[h].len + 1 /\ bufs'[h].len <= bufs'[h].cap
    /\ bufs'[h].ptr \in 1..MaxBlocks
    /\ bufs'[h].ptr = bufs[h].ptr \/ bufs'[h].ptr \notin DOMAIN memory
    /\ memory' = [ a \in DOMAIN memory' |-> memory'[a] ]
    /\ DOMAIN memory' = Without(bufs[h].ptr) \cup { bufs'[h].ptr }
    /\ \A a \in Without(bufs[h].ptr) : memory'[a] = memory[a]
    /\ memory'[bufs'[h].ptr] = [ i \in 1..bufs'[h].cap |-> memory'[bufs'[h].ptr][i] ]
    /\ \A i \in 1..bufs[h].len : memory'[bufs'[h].ptr][i] = memory[bufs[h].ptr][i]
    /\ memory'[bufs'[h].ptr][bufs[h].len + 1] = x

LEMMA PushInPlaceGrew ==
  ASSUME Heap, NEW h \in Handle, Mine(h), NEW x, PushInPlace(h, x)
  PROVE  Grew(h, x)
<1> DEFINE p == bufs[h].ptr
           n == bufs[h].len
           c == bufs[h].cap
<1>1. /\ bufs[h] = [ ptr |-> p, len |-> n, cap |-> c, ref |-> bufs[h].ref ]
      /\ n \in Nat /\ c \in Nat /\ p \in 0..StaticAddress /\ bufs[h].ref \in BOOLEAN
  BY Fields DEF Heap
<1>2. bufs' = [ bufs EXCEPT ![h].len = n + 1 ] /\ n # c
  BY DEF PushInPlace
<1>3. bufs \in [ Handle -> BufType ]
  BY DEF Heap, Typed
<1>4. n < c
  <2>1. n <= c
    BY LenFits
  <2> QED
    BY <1>1, <1>2, <2>1
<1>5. p # NULL
  <2>1. p = NULL => c = 0
    BY DEF Heap, Shaped
  <2> QED
    BY <1>1, <1>4, <2>1
<1>6. /\ p \in 1..MaxBlocks /\ p \in DOMAIN memory
      /\ memory[p] = [ i \in 1..c |-> memory[p][i] ]
  BY <1>5, MineBlock
<1>7. bufs'[h] = [ ptr |-> p, len |-> n + 1, cap |-> c, ref |-> bufs[h].ref ]
  BY <1>1, <1>2, <1>3
<1>8. \A g \in Handle \ {h} : bufs'[g] = bufs[g]
  BY <1>2, <1>3
<1>9. bufs'[h] \in BufType
  BY <1>1, <1>7 DEF BufType
<1>10. bufs' \in [ Handle -> BufType ]
  <2>1. bufs' = [ bufs EXCEPT ![h] = bufs'[h] ]
    BY <1>2, <1>3
  <2> QED
    BY <2>1, <1>3, <1>9
<1>11. ~bufs[h].ref
  BY DEF Mine
<1>12. memory' = [ memory EXCEPT ![p][n + 1] = x ]
  BY DEF PushInPlace
<1>13. memory = [ a \in DOMAIN memory |-> memory[a] ]
  BY DEF Heap, Typed
<1>14. /\ DOMAIN memory' = DOMAIN memory
       /\ memory' = [ a \in DOMAIN memory' |-> memory'[a] ]
       /\ memory'[p] = [ memory[p] EXCEPT ![n + 1] = x ]
       /\ \A a \in DOMAIN memory \ {p} : memory'[a] = memory[a]
  BY <1>6, <1>12, <1>13
<1>15. n + 1 \in 1..c /\ \A i \in 1..n : i # n + 1 /\ i \in 1..c
  BY <1>1, <1>4
<1>16. /\ memory'[p] = [ i \in 1..c |-> memory'[p][i] ]
       /\ memory'[p][n + 1] = x
       /\ \A i \in 1..n : memory'[p][i] = memory[p][i]
  BY <1>6, <1>14, <1>15
<1>17. bufs'[h].ptr = p /\ bufs'[h].len = n + 1 /\ bufs'[h].cap = c /\ ~bufs'[h].ref
  BY <1>7, <1>11
<1>18. n + 1 <= c
  BY <1>15, <1>1
<1> QED
  <2> HIDE DEF p, n, c
  <2>1. p = bufs[h].ptr /\ n = bufs[h].len
    BY DEF p, n
  <2>2. /\ bufs'[h].ptr \in 1..MaxBlocks /\ bufs'[h].ptr = bufs[h].ptr
        /\ bufs'[h].len = bufs[h].len + 1 /\ bufs'[h].len <= bufs'[h].cap
    BY <1>6, <1>17, <1>18, <2>1
  <2>3. DOMAIN memory' = Without(bufs[h].ptr) \cup { bufs'[h].ptr }
    BY <1>6, <1>14, <2>1, <2>2 DEF Without
  <2>4. \A a \in Without(bufs[h].ptr) : memory'[a] = memory[a]
    BY <1>14, <2>1 DEF Without
  <2>5. /\ memory'[bufs'[h].ptr] = [ i \in 1..bufs'[h].cap |-> memory'[bufs'[h].ptr][i] ]
        /\ \A i \in 1..bufs[h].len : memory'[bufs'[h].ptr][i] = memory[bufs[h].ptr][i]
        /\ memory'[bufs'[h].ptr][bufs[h].len + 1] = x
    BY <1>16, <1>17, <2>1
  <2> QED
    BY <1>8, <1>10, <1>14, <1>17, <2>2, <2>3, <2>4, <2>5 DEF Grew

LEMMA PushGrowingGrew ==
  ASSUME Heap, NEW h \in Handle, Mine(h), NEW x, PushGrowing(h, x)
  PROVE  Grew(h, x)
<1> DEFINE p == bufs[h].ptr
           n == bufs[h].len
<1>1. n \in Nat /\ bufs[h].cap \in Nat /\ p \in Nat /\ n = bufs[h].cap
  BY Fields DEF Heap, PushGrowing
<1>2. PICK c \in Nat : c = NewCapacity(h) /\ n < c
  <2>1. NewCapacity(h) \in Nat /\ n < NewCapacity(h)
    BY <1>1 DEF NewCapacity
  <2> QED
    BY <2>1
<1>3. PICK a \in FreshAddresses \cup ({p} \ {NULL}) :
        /\ memory' = [ Reallocated(h, a, c) EXCEPT ![a][n + 1] = x ]
        /\ bufs' = [ bufs EXCEPT ![h] = [ ptr |-> a, len |-> n + 1, cap |-> c, ref |-> FALSE ] ]
  BY <1>2 DEF PushGrowing
<1>4. /\ a \in 1..MaxBlocks /\ (a = p \/ a \notin DOMAIN memory)
  <2>1. CASE a \in FreshAddresses
    BY <2>1 DEF FreshAddresses
  <2>2. CASE a = p /\ p # NULL
    BY <2>2, MineBlock
  <2> QED
    BY <2>1, <2>2
<1>5. bufs \in [ Handle -> BufType ]
  BY DEF Heap, Typed
<1>6. /\ bufs'[h] = [ ptr |-> a, len |-> n + 1, cap |-> c, ref |-> FALSE ]
      /\ \A g \in Handle \ {h} : bufs'[g] = bufs[g]
  BY <1>3, <1>5
<1>7. bufs' \in [ Handle -> BufType ]
  <2>1. a \in 0..StaticAddress /\ n + 1 \in Nat
    BY <1>1, <1>4, BlocksAssumption DEF StaticAddress
  <2>2. [ ptr |-> a, len |-> n + 1, cap |-> c, ref |-> FALSE ] \in BufType
    BY <2>1 DEF BufType
  <2> QED
    BY <2>2, <1>3, <1>5
<1> DEFINE new == [ i \in 1..c |-> IF p # NULL /\ i <= bufs[h].cap THEN memory[p][i] ELSE Garbage ]
           r == [ b \in Without(p) \cup {a} |-> IF b # a THEN memory[b] ELSE new ]
<1>8. Reallocated(h, a, c) = r
  BY DEF Reallocated
<1>9. r[a] = new /\ DOMAIN r = Without(p) \cup {a} /\ \A b \in Without(p) \ {a} : r[b] = memory[b]
  OBVIOUS
<1>10. memory' = [ r EXCEPT ![a] = [ new EXCEPT ![n + 1] = x ] ]
  <2> HIDE DEF r, new
  <2> QED
    BY <1>3, <1>8, <1>9
<1>11. a \notin Without(p)
  BY <1>4 DEF Without
<1>12. /\ DOMAIN memory' = Without(p) \cup {a}
       /\ memory' = [ b \in DOMAIN memory' |-> memory'[b] ]
       /\ memory'[a] = [ new EXCEPT ![n + 1] = x ]
       /\ \A b \in Without(p) : memory'[b] = memory[b]
  <2>1. r = [ b \in Without(p) \cup {a} |-> r[b] ]
    OBVIOUS
  <2> HIDE DEF r, new
  <2> QED
    BY <1>9, <1>10, <1>11, <2>1
<1>13. n + 1 \in 1..c /\ \A i \in 1..n : i # n + 1 /\ i \in 1..c /\ i <= bufs[h].cap
  BY <1>1, <1>2
<1>14. p = NULL => n = 0
  BY LenFits
<1>15. \A i \in 1..n : new[i] = memory[p][i]
  <2> TAKE i \in 1..n
  <2>1. p # NULL
    BY <1>14, <1>1
  <2> QED
    BY <2>1, <1>13
<1>16. /\ memory'[a] = [ i \in 1..c |-> memory'[a][i] ]
       /\ memory'[a][n + 1] = x
       /\ \A i \in 1..n : memory'[a][i] = memory[p][i]
  <2>1. new = [ i \in 1..c |-> new[i] ]
    OBVIOUS
  <2> HIDE DEF new
  <2> QED
    BY <1>12, <1>13, <1>15, <2>1
<1>17. bufs'[h].ptr = a /\ bufs'[h].len = n + 1 /\ bufs'[h].cap = c /\ ~bufs'[h].ref /\ n + 1 <= c
  BY <1>1, <1>2, <1>6
<1> QED
  <2> HIDE DEF p, n
  <2>1. p = bufs[h].ptr /\ n = bufs[h].len
    BY DEF p, n
  <2> QED
    BY <1>4, <1>6, <1>7, <1>12, <1>16, <1>17, <2>1 DEF Grew

LEMMA PushItemGrew ==
  ASSUME Heap, NEW h \in Handle, Mine(h), NEW x, PushItem(h, x)
  PROVE  Grew(h, x)
BY PushInPlaceGrew, PushGrowingGrew DEF PushItem

\* The other variables look elsewhere: not at what is given up, nor at what is taken.
LEMMA GrewElsewhere ==
  ASSUME Heap, NEW h \in Handle, Mine(h), NEW x \in Item, Grew(h, x)
  PROVE  \A g \in Handle \ {h} :
            /\ Kept(g)
            /\ bufs[g].ptr # NULL => bufs[g].ptr # bufs'[h].ptr /\ bufs[g].ptr \in DOMAIN memory'
<1> TAKE g \in Handle \ {h}
<1>1. bufs'[g] = bufs[g]
  BY DEF Grew
<1>2. ASSUME bufs[g].ptr # NULL
      PROVE  /\ memory'[bufs[g].ptr] = memory[bufs[g].ptr]
             /\ bufs[g].ptr # bufs'[h].ptr /\ bufs[g].ptr \in DOMAIN memory'
  <2>1. bufs[g].ptr \in DOMAIN memory
    BY <1>2 DEF Heap, Filled
  <2>2. bufs[g].ptr # bufs[h].ptr
    BY <1>2, MineAlone
  <2>3. bufs[g].ptr \in Without(bufs[h].ptr)
    BY <2>1, <2>2 DEF Without
  <2>4. bufs'[h].ptr = bufs[h].ptr \/ bufs'[h].ptr \notin DOMAIN memory
    BY DEF Grew
  <2>5. /\ memory'[bufs[g].ptr] = memory[bufs[g].ptr]
        /\ bufs[g].ptr \in DOMAIN memory'
    BY <2>3 DEF Grew
  <2> QED
    BY <2>1, <2>2, <2>4, <2>5
<1> QED
  BY <1>1, <1>2 DEF Kept

LEMMA GrewMine ==
  ASSUME Heap, NEW h \in Handle, Mine(h), NEW x \in Item, Grew(h, x), NEW g \in Handle, Mine(g)
  PROVE  Mine(g)'
<1>1. ~bufs'[h].ref /\ \A v \in Handle \ {h} : bufs'[v] = bufs[v]
  BY DEF Grew
<1>2. CASE g = h
  <2> SUFFICES ASSUME NEW v \in Handle \ {h}, bufs'[v].ref, bufs'[v].ptr = bufs'[h].ptr,
                      bufs'[h].ptr # NULL
               PROVE  FALSE
    BY <1>1, <1>2 DEF Mine, Viewed
  <2> QED
    BY <1>1, GrewElsewhere
<1>3. CASE g # h
  <2> SUFFICES ASSUME NEW v \in Handle \ {g}, bufs'[v].ref, bufs'[v].ptr = bufs'[g].ptr,
                      bufs'[g].ptr # NULL
               PROVE  FALSE
    BY <1>1, <1>3 DEF Mine, Viewed
  <2>1. v # h
    BY <1>1
  <2> QED
    BY <2>1, <1>1, <1>3 DEF Mine, Viewed
<1> QED
  BY <1>2, <1>3

LEMMA GrewHeap ==
  ASSUME Heap, NEW h \in Handle, Mine(h), NEW x \in Item, Grew(h, x)
  PROVE  Heap'
<1>1. /\ bufs' \in [ Handle -> BufType ] /\ \A g \in Handle \ {h} : bufs'[g] = bufs[g]
      /\ ~bufs'[h].ref /\ bufs'[h].len = bufs[h].len + 1 /\ bufs'[h].len <= bufs'[h].cap
      /\ bufs'[h].ptr \in 1..MaxBlocks
      /\ DOMAIN memory' = Without(bufs[h].ptr) \cup { bufs'[h].ptr }
      /\ \A a \in Without(bufs[h].ptr) : memory'[a] = memory[a]
  BY DEF Grew
<1>2. bufs'[h].ptr # NULL /\ bufs'[h].ptr # StaticAddress
  BY <1>1, BlocksAssumption DEF StaticAddress, NULL
<1>3. \A g \in Handle \ {h} :
         /\ bufs'[g] = bufs[g]
         /\ bufs[g].ptr # NULL => /\ memory'[bufs[g].ptr] = memory[bufs[g].ptr]
                                  /\ bufs[g].ptr # bufs'[h].ptr /\ bufs[g].ptr \in DOMAIN memory'
  BY GrewElsewhere DEF Kept
<1>4. Typed'
  <2>1. StaticAddress # bufs[h].ptr
    <3>1. CASE bufs[h].ptr = NULL
      BY <3>1, BlocksAssumption DEF StaticAddress, NULL
    <3>2. CASE bufs[h].ptr # NULL
      BY <3>2, MineBlock
    <3> QED
      BY <3>1, <3>2
  <2>2. StaticAddress \in Without(bufs[h].ptr)
    BY <2>1 DEF Without, Heap, Typed
  <2>3. DOMAIN memory' \subseteq 1..StaticAddress
    <3>1. bufs'[h].ptr \in 1..StaticAddress
      BY <1>1, BlocksAssumption DEF StaticAddress
    <3> QED
      BY <1>1, <3>1 DEF Without, Heap, Typed
  <2>4. memory'[StaticAddress] = StaticBlock
    BY <1>1, <2>2 DEF Heap, Typed
  <2>5. memory' = [ a \in DOMAIN memory' |-> memory'[a] ]
    BY DEF Grew
  <2> QED
    BY <1>1, <2>2, <2>3, <2>4, <2>5 DEF Typed, StaticAddress, StaticBlock
<1>5. Shaped'
  BY <1>1, <1>2 DEF Heap, Shaped
<1>6. Owned'
  <2>1. memory'[bufs'[h].ptr] = [ i \in 1..bufs'[h].cap |-> memory'[bufs'[h].ptr][i] ]
    BY DEF Grew
  <2>2. ASSUME NEW g \in Handle \ {h}, Owns(g)'
        PROVE  /\ bufs'[g].ptr \in 1..MaxBlocks /\ bufs'[g].ptr \in DOMAIN memory'
               /\ memory'[bufs'[g].ptr] = [ i \in 1..bufs'[g].cap |-> memory'[bufs'[g].ptr][i] ]
    <3>1. Owns(g)
      BY <2>2, <1>3 DEF Owns
    <3>2. /\ bufs[g].ptr \in 1..MaxBlocks
          /\ memory[bufs[g].ptr] = [ i \in 1..bufs[g].cap |-> memory[bufs[g].ptr][i] ]
      BY <3>1 DEF Heap, Owned
    <3>3. bufs[g].ptr # NULL
      BY <3>1 DEF Owns
    <3>4. /\ bufs'[g].ptr = bufs[g].ptr /\ bufs'[g].cap = bufs[g].cap
          /\ memory'[bufs[g].ptr] = memory[bufs[g].ptr] /\ bufs[g].ptr \in DOMAIN memory'
      BY <3>3, <1>3
    <3> QED
      BY SMTT(30), <3>2, <3>4
  <2> QED
    BY <1>1, <2>1, <2>2 DEF Owned
<1>7. Unshared'
  BY <1>3 DEF Heap, Unshared, Owns
<1>8. NothingLost'
  <2> SUFFICES ASSUME NEW a \in DOMAIN memory' \ {StaticAddress}
               PROVE  \E g \in Handle : Owns(g)' /\ bufs'[g].ptr = a
    BY DEF NothingLost, StaticAddress
  <2>1. CASE a = bufs'[h].ptr
    BY <2>1, <1>1, <1>2 DEF Owns
  <2>2. CASE a \in DOMAIN memory /\ a # bufs[h].ptr
    <3>1. PICK g \in Handle : Owns(g) /\ bufs[g].ptr = a
      BY <2>2 DEF Heap, NothingLost
    <3> QED
      BY <3>1, <2>2, <1>3 DEF Owns
  <2> QED
    BY <1>1, <2>1, <2>2 DEF Without
<1>9. Filled'
  <2>1. ASSUME NEW i \in 1..bufs'[h].len
        PROVE  memory'[bufs'[h].ptr][i] \in Item
    <3>1. bufs[h].len \in Nat
      BY Fields DEF Heap
    <3>2. CASE i = bufs[h].len + 1
      BY <3>2 DEF Grew
    <3>3. CASE i \in 1..bufs[h].len
      <4>1. bufs[h].ptr # NULL
        BY <3>1, <3>3, LenFits
      <4>2. memory[bufs[h].ptr][i] \in Item
        BY <3>3, <4>1 DEF Heap, Filled
      <4> QED
        BY <3>3, <4>2 DEF Grew
    <3> QED
      BY <1>1, <3>1, <3>2, <3>3
  <2>2. ASSUME NEW g \in Handle \ {h}, bufs'[g].ptr # NULL
        PROVE  /\ bufs'[g].ptr \in DOMAIN memory'
               /\ \A i \in 1..bufs'[g].len : memory'[bufs'[g].ptr][i] \in Item
    <3>1. \A i \in 1..bufs[g].len : memory[bufs[g].ptr][i] \in Item
      BY <2>2, <1>3 DEF Heap, Filled
    <3> QED
      BY <3>1, <2>2, <1>3
  <2> QED
    BY <1>1, <2>1, <2>2 DEF Filled
<1> QED
  BY <1>4, <1>5, <1>6, <1>7, <1>8, <1>9 DEF Heap

--------------------------------------------------------------------------------
(* The other ways to change a variable: it is freed, shortened or made a view.  *)

LEMMA FreedElsewhere ==
  ASSUME Heap, NEW h \in Handle, ~bufs[h].ref => Mine(h), memory' = Freed(h),
         bufs' = [ bufs EXCEPT ![h] = NewBuf ]
  PROVE  /\ DOMAIN memory' \subseteq DOMAIN memory
         /\ memory' = [ a \in DOMAIN memory' |-> memory[a] ]
         /\ ~bufs[h].ref => bufs[h].ptr \notin DOMAIN memory'
         /\ bufs'[h] = NewBuf
         /\ \A g \in Handle \ {h} :
               Kept(g) /\ (bufs[g].ptr # NULL => bufs[g].ptr \in DOMAIN memory')
<1>1. \A g \in Handle \ {h} : bufs[g].ptr # NULL => bufs[g].ptr \in DOMAIN memory
  BY DEF Heap, Filled
<1>2. bufs'[h] = NewBuf /\ \A g \in Handle \ {h} : bufs'[g] = bufs[g]
  BY DEF Heap, Typed
<1>3. CASE bufs[h].ref
  <2>1. memory' = memory /\ memory = [ a \in DOMAIN memory |-> memory[a] ]
    BY <1>3 DEF Freed, Heap, Typed
  <2> QED
    BY <2>1, <1>1, <1>2, <1>3 DEF Kept
<1>4. CASE ~bufs[h].ref
  <2>1. memory' = [ a \in DOMAIN memory \ {bufs[h].ptr} |-> memory[a] ]
    BY <1>4 DEF Freed, Without
  <2>2. ASSUME NEW g \in Handle \ {h}, bufs[g].ptr # NULL
        PROVE  bufs[g].ptr \in DOMAIN memory' /\ memory'[bufs[g].ptr] = memory[bufs[g].ptr]
    <3>1. bufs[g].ptr # bufs[h].ptr
      BY <1>4, <2>2, MineAlone
    <3> QED
      BY <1>1, <2>1, <2>2, <3>1
  <2> QED
    BY <2>1, <2>2, <1>2 DEF Kept
<1> QED
  BY <1>3, <1>4

LEMMA FreedHeap ==
  ASSUME Heap, NEW h \in Handle, ~bufs[h].ref => Mine(h), memory' = Freed(h),
         bufs' = [ bufs EXCEPT ![h] = NewBuf ]
  PROVE  Heap'
<1>1. /\ DOMAIN memory' \subseteq DOMAIN memory
      /\ memory' = [ a \in DOMAIN memory' |-> memory[a] ]
      /\ ~bufs[h].ref => bufs[h].ptr \notin DOMAIN memory'
      /\ bufs'[h] = NewBuf
      /\ \A g \in Handle \ {h} : /\ bufs'[g] = bufs[g]
                                 /\ bufs[g].ptr # NULL => /\ bufs[g].ptr \in DOMAIN memory'
                                                          /\ memory'[bufs[g].ptr] = memory[bufs[g].ptr]
  BY FreedElsewhere DEF Kept
<1>2. bufs'[h].ptr = NULL /\ bufs'[h].len = 0 /\ bufs'[h].cap = 0 /\ ~bufs'[h].ref
  BY <1>1 DEF NewBuf
<1>3. Typed'
  <2>1. NewBuf \in BufType
    BY BlocksAssumption DEF NewBuf, BufType, StaticAddress, NULL
  <2>2. StaticAddress \in DOMAIN memory'
    <3>1. StaticAddress \in DOMAIN memory
      BY DEF Heap, Typed
    <3>2. CASE bufs[h].ref
      BY <3>1, <3>2 DEF Freed
    <3>3. CASE ~bufs[h].ref
      <4>1. StaticAddress # bufs[h].ptr
        <5>1. CASE bufs[h].ptr = NULL
          BY <5>1, BlocksAssumption DEF StaticAddress, NULL
        <5>2. CASE bufs[h].ptr # NULL
          BY <5>2, <3>3, MineBlock
        <5> QED
          BY <5>1, <5>2
      <4> QED
        BY <3>1, <3>3, <4>1 DEF Freed, Without
    <3> QED
      BY <3>2, <3>3
  <2>3. bufs' \in [ Handle -> BufType ]
    BY <2>1 DEF Heap, Typed
  <2>4. memory' = [ a \in DOMAIN memory' |-> memory'[a] ] /\ memory'[StaticAddress] = memory[StaticAddress]
    BY <1>1, <2>2
  <2> QED
    BY <1>1, <2>2, <2>3, <2>4 DEF Heap, Typed, StaticAddress, StaticBlock
<1>4. Shaped'
  BY <1>1, <1>2 DEF Heap, Shaped
<1>5. Owned'
  <2> SUFFICES ASSUME NEW g \in Handle, Owns(g)'
               PROVE  /\ bufs'[g].ptr \in 1..MaxBlocks /\ bufs'[g].ptr \in DOMAIN memory'
                      /\ memory'[bufs'[g].ptr] = [ i \in 1..bufs'[g].cap |-> memory'[bufs'[g].ptr][i] ]
    BY DEF Owned
  <2>1. g # h /\ Owns(g)
    BY <1>1, <1>2 DEF Owns
  <2>2. /\ bufs[g].ptr \in 1..MaxBlocks /\ bufs[g].ptr # NULL
        /\ memory[bufs[g].ptr] = [ i \in 1..bufs[g].cap |-> memory[bufs[g].ptr][i] ]
    BY <2>1 DEF Heap, Owned, Owns
  <2>3. /\ bufs'[g] = bufs[g] /\ bufs[g].ptr \in DOMAIN memory'
        /\ memory'[bufs[g].ptr] = memory[bufs[g].ptr]
    BY <2>1, <2>2, <1>1
  <2> QED
    BY <2>2, <2>3
<1>6. Unshared'
  BY <1>1, <1>2 DEF Heap, Unshared, Owns
<1>7. NothingLost'
  <2> SUFFICES ASSUME NEW a \in DOMAIN memory' \ {StaticAddress}
               PROVE  \E g \in Handle : Owns(g)' /\ bufs'[g].ptr = a
    BY DEF NothingLost, StaticAddress
  <2>1. PICK g \in Handle : Owns(g) /\ bufs[g].ptr = a
    BY <1>1 DEF Heap, NothingLost
  <2>2. g # h
    BY <2>1, <1>1 DEF Owns
  <2> QED
    BY <2>1, <2>2, <1>1 DEF Owns
<1>8. Filled'
  BY <1>1, <1>2 DEF Heap, Filled
<1> QED
  BY <1>3, <1>4, <1>5, <1>6, <1>7, <1>8 DEF Heap

\* Pop, PopFirst, Clear.
Shrunk(h, n) ==
    /\ bufs' = [ bufs EXCEPT ![h].len = n ]
    /\ memory' = [ a \in DOMAIN memory |-> memory'[a] ]
    /\ \A a \in DOMAIN memory \ {bufs[h].ptr} : memory'[a] = memory[a]
    /\ bufs[h].ptr # NULL =>
          memory'[bufs[h].ptr] = [ i \in 1..bufs[h].cap |-> memory'[bufs[h].ptr][i] ]
    /\ \A i \in 1..n : memory'[bufs[h].ptr][i] \in Item

LEMMA ShrunkFields ==
  ASSUME Heap, NEW h \in Handle, NEW n \in Nat, Shrunk(h, n)
  PROVE  /\ bufs' \in [ Handle -> BufType ]
         /\ \A g \in Handle \ {h} : bufs'[g] = bufs[g]
         /\ bufs'[h].ptr = bufs[h].ptr /\ bufs'[h].len = n /\ bufs'[h].cap = bufs[h].cap
         /\ bufs'[h].ref = bufs[h].ref
<1>1. /\ bufs \in [ Handle -> BufType ]
      /\ bufs[h] = [ ptr |-> bufs[h].ptr, len |-> bufs[h].len,
                     cap |-> bufs[h].cap, ref |-> bufs[h].ref ]
      /\ bufs[h].ptr \in 0..StaticAddress /\ bufs[h].cap \in Nat /\ bufs[h].ref \in BOOLEAN
  BY Fields DEF Heap, Typed
<1>2. bufs' = [ bufs EXCEPT ![h].len = n ]
  BY DEF Shrunk
<1>3. /\ bufs'[h] = [ ptr |-> bufs[h].ptr, len |-> n, cap |-> bufs[h].cap, ref |-> bufs[h].ref ]
      /\ \A g \in Handle \ {h} : bufs'[g] = bufs[g]
  BY <1>1, <1>2
<1>4. bufs'[h] \in BufType
  BY <1>1, <1>3 DEF BufType
<1>5. bufs' = [ bufs EXCEPT ![h] = bufs'[h] ]
  BY <1>1, <1>2
<1> QED
  BY <1>1, <1>3, <1>4, <1>5

LEMMA ShrunkElsewhere ==
  ASSUME Heap, NEW h \in Handle, Mine(h), NEW n \in Nat, Shrunk(h, n)
  PROVE  OthersKept(h)
<1> SUFFICES ASSUME NEW g \in Handle \ {h} PROVE Kept(g)
  BY DEF OthersKept
<1>1. bufs'[g] = bufs[g]
  BY ShrunkFields
<1>2. ASSUME bufs[g].ptr # NULL
      PROVE  memory'[bufs[g].ptr] = memory[bufs[g].ptr]
  <2>1. bufs[g].ptr \in DOMAIN memory
    BY <1>2 DEF Heap, Filled
  <2>2. bufs[g].ptr # bufs[h].ptr
    BY <1>2, MineAlone
  <2> QED
    BY <2>1, <2>2 DEF Shrunk
<1> QED
  BY <1>1, <1>2 DEF Kept

LEMMA ShrunkHeap ==
  ASSUME Heap, NEW h \in Handle, Mine(h), NEW n \in Nat, n <= bufs[h].len, Shrunk(h, n)
  PROVE  Heap'
<1>1. /\ bufs' \in [ Handle -> BufType ]
      /\ bufs'[h].ptr = bufs[h].ptr /\ bufs'[h].len = n /\ bufs'[h].cap = bufs[h].cap
      /\ bufs'[h].ref = bufs[h].ref
      /\ DOMAIN memory' = DOMAIN memory
  BY ShrunkFields DEF Shrunk
<1>2. \A g \in Handle \ {h} :
         /\ bufs'[g] = bufs[g]
         /\ bufs[g].ptr # NULL => memory'[bufs[g].ptr] = memory[bufs[g].ptr]
  BY ShrunkElsewhere DEF OthersKept, Kept
<1>3. Typed'
  <2>1. memory' = [ a \in DOMAIN memory' |-> memory'[a] ]
    BY <1>1 DEF Shrunk
  <2>2. StaticAddress # bufs[h].ptr
    <3>1. CASE bufs[h].ptr = NULL
      BY <3>1, BlocksAssumption DEF StaticAddress, NULL
    <3>2. CASE bufs[h].ptr # NULL
      BY <3>2, MineBlock
    <3> QED
      BY <3>1, <3>2
  <2>3. memory'[StaticAddress] = memory[StaticAddress]
    BY <2>2 DEF Shrunk, Heap, Typed
  <2> QED
    BY <1>1, <2>1, <2>3 DEF Heap, Typed, StaticAddress, StaticBlock
<1>4. Shaped'
  <2>1. bufs[h].len \in Nat /\ bufs[h].cap \in Nat /\ bufs[h].len <= bufs[h].cap
    BY Fields, LenFits DEF Heap
  <2>2. n <= bufs[h].cap
    BY <2>1
  <2> QED
    BY <1>1, <1>2, <2>2 DEF Heap, Shaped
<1>5. Owned'
  <2> SUFFICES ASSUME NEW g \in Handle, Owns(g)'
               PROVE  /\ bufs'[g].ptr \in 1..MaxBlocks /\ bufs'[g].ptr \in DOMAIN memory'
                      /\ memory'[bufs'[g].ptr] = [ i \in 1..bufs'[g].cap |-> memory'[bufs'[g].ptr][i] ]
    BY DEF Owned
  <2>1. Owns(g) /\ bufs'[g].ptr = bufs[g].ptr /\ bufs'[g].cap = bufs[g].cap
    BY <1>1, <1>2 DEF Owns
  <2>2. /\ bufs[g].ptr \in 1..MaxBlocks /\ bufs[g].ptr \in DOMAIN memory /\ bufs[g].ptr # NULL
        /\ memory[bufs[g].ptr] = [ i \in 1..bufs[g].cap |-> memory[bufs[g].ptr][i] ]
    BY <2>1 DEF Heap, Owned, Owns
  <2>3. CASE g = h
    BY <2>1, <2>2, <2>3, <1>1 DEF Shrunk
  <2>4. CASE g # h
    <3>1. bufs'[g] = bufs[g] /\ memory'[bufs[g].ptr] = memory[bufs[g].ptr]
      BY <2>2, <2>4, <1>2
    <3> QED
      BY <2>2, <3>1, <1>1
  <2> QED
    BY <2>3, <2>4
<1>6. \A g \in Handle : (Owns(g)' <=> Owns(g)) /\ bufs'[g].ptr = bufs[g].ptr
  BY <1>1, <1>2 DEF Owns
<1>7. Unshared'
  BY <1>6 DEF Heap, Unshared
<1>8. NothingLost'
  BY <1>1, <1>6 DEF Heap, NothingLost, StaticAddress
<1>9. Filled'
  <2>1. bufs[h].ptr # NULL => \A i \in 1..bufs'[h].len : memory'[bufs'[h].ptr][i] \in Item
    BY <1>1 DEF Shrunk
  <2> QED
    BY <1>1, <1>2, <2>1 DEF Heap, Filled
<1> QED
  BY <1>3, <1>4, <1>5, <1>7, <1>8, <1>9 DEF Heap

\* An unused variable is made to look at what is there already.
LEMMA ViewedHeap ==
  ASSUME Heap, NEW v \in Handle, Unused(v), NEW p \in 0..StaticAddress, NEW n \in Nat,
         p = NULL => n = 0,
         p # NULL => p \in DOMAIN memory /\ \A i \in 1..n : memory[p][i] \in Item,
         bufs' = [ bufs EXCEPT ![v] = BufRef(p, n) ], UNCHANGED memory
  PROVE  Heap' /\ OthersKept(v)
<1>1. bufs \in [ Handle -> BufType ]
  BY DEF Heap, Typed
<1>2. /\ bufs'[v] = BufRef(p, n) /\ \A g \in Handle \ {v} : bufs'[g] = bufs[g]
      /\ memory' = memory
  BY <1>1
<1>3. bufs'[v].ptr = p /\ bufs'[v].len = n /\ bufs'[v].cap = n /\ bufs'[v].ref = TRUE
  BY <1>2 DEF BufRef
<1>4. ~Owns(v) /\ ~Owns(v)'
  BY <1>3 DEF Owns, Unused, NewBuf
<1>5. \A g \in Handle : Owns(g)' => g # v /\ Owns(g) /\ bufs'[g] = bufs[g]
  BY <1>2, <1>4 DEF Owns
<1>6. \A g \in Handle : Owns(g) => g # v /\ Owns(g)' /\ bufs'[g] = bufs[g]
  BY <1>2, <1>4 DEF Owns
<1>7. Typed'
  <2>1. BufRef(p, n) \in BufType
    BY DEF BufRef, BufType
  <2>2. bufs' \in [ Handle -> BufType ]
    BY <1>1, <2>1
  <2> QED
    BY <1>2, <2>2 DEF Heap, Typed, StaticAddress, StaticBlock
<1>8. Shaped'
  BY <1>2, <1>3 DEF Heap, Shaped
<1>9. Owned'
  BY <1>2, <1>5 DEF Heap, Owned
<1>10. Unshared'
  BY <1>5 DEF Heap, Unshared
<1>11. NothingLost'
  BY <1>2, <1>6 DEF Heap, NothingLost, StaticAddress
<1>12. Filled'
  BY <1>2, <1>3 DEF Heap, Filled
<1>13. OthersKept(v)
  BY <1>2 DEF OthersKept, Kept
<1> QED
  BY <1>7, <1>8, <1>9, <1>10, <1>11, <1>12, <1>13 DEF Heap

\* An array changes hands.
LEMMA MovedHeap ==
  ASSUME Heap, NEW h \in Handle, NEW g \in Handle, h # g, Mine(h), Unused(g),
         bufs' = [ bufs EXCEPT ![g] = bufs[h], ![h] = NewBuf ], UNCHANGED memory
  PROVE  Heap'
<1>1. bufs \in [ Handle -> BufType ]
  BY DEF Heap, Typed
<1>2. /\ bufs'[g] = bufs[h] /\ bufs'[h] = NewBuf
      /\ \A v \in Handle \ {h, g} : bufs'[v] = bufs[v]
      /\ memory' = memory
  BY <1>1
<1>3. bufs'[h].ptr = NULL /\ bufs'[h].len = 0 /\ bufs'[h].cap = 0 /\ ~bufs'[h].ref
  BY <1>2 DEF NewBuf
<1>4. ~Owns(h)' /\ ~Owns(g) /\ (Owns(g)' <=> Owns(h))
  BY <1>2, <1>3 DEF Owns, Unused, NewBuf
<1>5. \A v \in Handle \ {h, g} : Owns(v)' <=> Owns(v)
  BY <1>2 DEF Owns
<1>6. Typed'
  <2>1. NewBuf \in BufType
    BY BlocksAssumption DEF NewBuf, BufType, StaticAddress, NULL
  <2>2. bufs' \in [ Handle -> BufType ]
    BY <1>1, <2>1
  <2> QED
    BY <1>2, <2>2 DEF Heap, Typed, StaticAddress, StaticBlock
<1>7. \A v \in Handle \ {h} : \E u \in Handle :
          bufs'[v] = bufs[u] /\ (Owns(v)' <=> Owns(u)) /\ u = IF v = g THEN h ELSE v
  BY <1>2, <1>4, <1>5
<1>8. Shaped'
  <2> SUFFICES ASSUME NEW v \in Handle
               PROVE  bufs'[v].len <= bufs'[v].cap /\ (bufs'[v].ptr = NULL => bufs'[v].cap = 0)
    BY DEF Shaped
  <2>1. CASE v = h
    BY <2>1, <1>3
  <2>2. CASE v # h
    <3>1. PICK u \in Handle : bufs'[v] = bufs[u]
      BY <2>2, <1>7
    <3> QED
      BY <3>1 DEF Heap, Shaped
  <2> QED
    BY <2>1, <2>2
<1>9. Owned'
  <2> SUFFICES ASSUME NEW v \in Handle, Owns(v)'
               PROVE  /\ bufs'[v].ptr \in 1..MaxBlocks /\ bufs'[v].ptr \in DOMAIN memory'
                      /\ memory'[bufs'[v].ptr] = [ i \in 1..bufs'[v].cap |-> memory'[bufs'[v].ptr][i] ]
    BY DEF Owned
  <2>1. PICK u \in Handle : bufs'[v] = bufs[u] /\ Owns(u)
    BY <1>4, <1>7
  <2>2. /\ bufs[u].ptr \in 1..MaxBlocks /\ bufs[u].ptr \in DOMAIN memory
        /\ memory[bufs[u].ptr] = [ i \in 1..bufs[u].cap |-> memory[bufs[u].ptr][i] ]
    BY <2>1 DEF Heap, Owned
  <2> QED
    BY <1>2, <2>1, <2>2
<1>10. Unshared'
  <2> SUFFICES ASSUME NEW v \in Handle, NEW w \in Handle, v # w, Owns(v)', Owns(w)'
               PROVE  bufs'[v].ptr # bufs'[w].ptr
    BY DEF Unshared
  <2>1. v # h /\ w # h
    BY <1>4
  <2>2. PICK u \in Handle : bufs'[v] = bufs[u] /\ Owns(u) /\ u = IF v = g THEN h ELSE v
    BY <2>1, <1>7
  <2>3. PICK t \in Handle : bufs'[w] = bufs[t] /\ Owns(t) /\ t = IF w = g THEN h ELSE w
    BY <2>1, <1>7
  <2> QED
    BY <2>1, <2>2, <2>3 DEF Heap, Unshared
<1>11. NothingLost'
  <2> SUFFICES ASSUME NEW a \in DOMAIN memory \ {StaticAddress}
               PROVE  \E v \in Handle : Owns(v)' /\ bufs'[v].ptr = a
    BY <1>2 DEF NothingLost, StaticAddress
  <2>1. PICK v \in Handle : Owns(v) /\ bufs[v].ptr = a
    BY DEF Heap, NothingLost
  <2>2. v # g
    BY <2>1, <1>4
  <2>3. CASE v = h
    BY <2>1, <2>3, <1>2, <1>4
  <2>4. CASE v # h
    BY <2>1, <2>2, <2>4, <1>2, <1>5
  <2> QED
    BY <2>3, <2>4
<1>12. Filled'
  <2> SUFFICES ASSUME NEW v \in Handle, bufs'[v].ptr # NULL
               PROVE  /\ bufs'[v].ptr \in DOMAIN memory'
                      /\ \A i \in 1..bufs'[v].len : memory'[bufs'[v].ptr][i] \in Item
    BY DEF Filled
  <2>1. PICK u \in Handle : bufs'[v] = bufs[u]
    BY <1>3, <1>7
  <2>2. /\ bufs[u].ptr \in DOMAIN memory
        /\ \A i \in 1..bufs[u].len : memory[bufs[u].ptr][i] \in Item
    BY <2>1 DEF Heap, Filled
  <2> QED
    BY <2>1, <2>2, <1>2
<1> QED
  BY <1>6, <1>8, <1>9, <1>10, <1>11, <1>12 DEF Heap

LEMMA PopFirstShrunk ==
  ASSUME Heap, NEW h \in Handle, Mine(h), PopFirst(h)
  PROVE  bufs[h].len - 1 \in Nat /\ Shrunk(h, bufs[h].len - 1)
<1> DEFINE p == bufs[h].ptr
           n == bufs[h].len
           c == bufs[h].cap
<1>1. n \in Nat /\ c \in Nat /\ n > 0 /\ n <= c /\ p # NULL
  <2>1. n > 0
    BY DEF PopFirst
  <2>2. n \in Nat /\ c \in Nat /\ n <= c /\ (p = NULL => n = 0)
    BY Fields, LenFits DEF Heap
  <2> QED
    BY <2>1, <2>2
<1>2. /\ p \in DOMAIN memory
      /\ memory[p] = [ i \in 1..c |-> memory[p][i] ]
  BY <1>1, MineBlock
<1>3. memory = [ a \in DOMAIN memory |-> memory[a] ]
  BY DEF Heap, Typed
<1> DEFINE shifted == [ i \in DOMAIN memory[p] |-> IF i < n THEN memory[p][i + 1] ELSE memory[p][i] ]
<1>4. memory' = [ memory EXCEPT ![p] = shifted ]
  BY DEF PopFirst
<1>5. /\ memory' = [ a \in DOMAIN memory |-> memory'[a] ]
      /\ \A a \in DOMAIN memory \ {p} : memory'[a] = memory[a]
      /\ memory'[p] = shifted
  <2> HIDE DEF p, shifted
  <2> QED
    BY <1>2, <1>3, <1>4
<1>6. DOMAIN memory[p] = 1..c
  BY <1>2
<1>7. memory'[p] = [ i \in 1..c |-> memory'[p][i] ]
  BY <1>5, <1>6
<1>8. \A i \in 1..(n - 1) : memory'[p][i] = memory[p][i + 1] /\ i + 1 \in 1..n
  BY <1>1, <1>5, <1>6
<1>9. \A i \in 1..n : memory[p][i] \in Item
  BY <1>1 DEF Heap, Filled
<1>10. \A i \in 1..(n - 1) : memory'[p][i] \in Item
  <2> HIDE DEF p, n
  <2> QED
    BY <1>8, <1>9
<1>11. bufs' = [ bufs EXCEPT ![h].len = n - 1 ]
  BY DEF PopFirst
<1>12. n - 1 \in Nat
  BY <1>1
<1> QED
  <2> DEFINE m == n - 1
  <2>1. bufs' = [ bufs EXCEPT ![h].len = m ] /\ \A i \in 1..m : memory'[p][i] \in Item
    BY <1>10, <1>11
  <2> HIDE DEF m
  <2>2. Shrunk(h, m)
    BY <1>5, <1>7, <2>1 DEF Shrunk
  <2> QED
    BY <1>12, <2>2 DEF m

\* What Pop and Clear do: they write nothing.
LEMMA ForgetShrunk ==
  ASSUME Heap, NEW h \in Handle, Mine(h), NEW n \in Nat, n <= bufs[h].len,
         bufs' = [ bufs EXCEPT ![h].len = n ], UNCHANGED memory
  PROVE  Shrunk(h, n)
<1>1. memory' = memory /\ memory = [ a \in DOMAIN memory |-> memory[a] ]
  BY DEF Heap, Typed
<1>2. bufs[h].ptr # NULL =>
        memory[bufs[h].ptr] = [ i \in 1..bufs[h].cap |-> memory[bufs[h].ptr][i] ]
  BY MineBlock
<1>3. ASSUME NEW i \in 1..n PROVE memory[bufs[h].ptr][i] \in Item
  <2>1. bufs[h].len \in Nat /\ (bufs[h].ptr = NULL => bufs[h].len = 0)
    BY Fields, LenFits DEF Heap
  <2>2. i \in 1..bufs[h].len /\ bufs[h].ptr # NULL
    BY <2>1
  <2> QED
    BY <2>2 DEF Heap, Filled
<1> QED
  BY <1>1, <1>2, <1>3 DEF Shrunk

LEMMA PopShrunk ==
  ASSUME Heap, NEW h \in Handle, Mine(h), Pop(h)
  PROVE  bufs[h].len - 1 \in Nat /\ Shrunk(h, bufs[h].len - 1)
<1>1. bufs[h].len \in Nat /\ bufs[h].len > 0
  BY Fields DEF Heap, Pop
<1>2. bufs[h].len - 1 \in Nat /\ bufs[h].len - 1 <= bufs[h].len
  BY <1>1
<1>3. bufs' = [ bufs EXCEPT ![h].len = bufs[h].len - 1 ] /\ UNCHANGED memory
  BY DEF Pop
<1> QED
  BY <1>2, <1>3, ForgetShrunk

LEMMA ClearShrunk ==
  ASSUME Heap, NEW h \in Handle, Mine(h), Clear(h)
  PROVE  Shrunk(h, 0)
<1>1. bufs[h].len \in Nat
  BY Fields DEF Heap
<1>2. 0 <= bufs[h].len /\ 0 \in Nat
  BY <1>1
<1>3. bufs' = [ bufs EXCEPT ![h].len = 0 ] /\ UNCHANGED memory
  BY DEF Clear
<1> QED
  BY <1>2, <1>3, ForgetShrunk

\* What there is to look at.
LEMMA ViewShows ==
  ASSUME Heap, NEW h \in Handle, NEW v \in Handle, View(h, v)
  PROVE  Heap' /\ OthersKept(v)
<1>1. /\ bufs[h].ptr \in 0..StaticAddress /\ bufs[h].len \in Nat
      /\ bufs[h].ptr = NULL => bufs[h].len = 0
  BY Fields, LenFits DEF Heap
<1>2. bufs[h].ptr # NULL => /\ bufs[h].ptr \in DOMAIN memory
                           /\ \A i \in 1..bufs[h].len : memory[bufs[h].ptr][i] \in Item
  BY DEF Heap, Filled
<1> QED
  BY <1>1, <1>2, ViewedHeap DEF View

LEMMA ViewArrayShows ==
  ASSUME Heap, NEW v \in Handle, ViewArray(v)
  PROVE  Heap' /\ OthersKept(v)
<1>1. StaticAddress \in 0..StaticAddress /\ StaticAddress # NULL
  BY BlocksAssumption DEF StaticAddress, NULL
<1>2. Len(Array) \in Nat /\ \A i \in 1..Len(Array) : Array[i] \in Item
  BY ArrayAssumption
<1>3. StaticAddress \in DOMAIN memory /\ \A i \in 1..Len(Array) : memory[StaticAddress][i] \in Item
  BY <1>2 DEF Heap, Typed, StaticBlock
<1> DEFINE n == Len(Array)
<1> HIDE DEF n
<1>4. /\ n \in Nat /\ \A i \in 1..n : memory[StaticAddress][i] \in Item
      /\ bufs' = [ bufs EXCEPT ![v] = BufRef(StaticAddress, n) ]
  BY <1>2, <1>3 DEF n, ViewArray
<1> QED
  BY <1>1, <1>3, <1>4, ViewedHeap DEF ViewArray

--------------------------------------------------------------------------------
(* The invariant.                                                               *)

LEMMA InitInv == Init => Inv
<1> SUFFICES ASSUME Init PROVE Inv
  OBVIOUS
<1>1. /\ bufs = [ h \in Handle |-> NewBuf ] /\ memory = [ a \in {StaticAddress} |-> StaticBlock ]
      /\ copying = NotCopying /\ aborted = FALSE
  BY DEF Init
<1>2. StaticAddress \in 1..StaticAddress
  BY BlocksAssumption DEF StaticAddress
<1>3. NewBuf \in BufType
  BY <1>2 DEF NewBuf, BufType, NULL
<1>4. \A h \in Handle : bufs[h].ptr = NULL /\ bufs[h].len = 0 /\ bufs[h].cap = 0
  BY <1>1 DEF NewBuf
<1>5. Typed
  BY <1>1, <1>2, <1>3 DEF Typed
<1>6. DOMAIN memory \ {StaticAddress} = {}
  BY <1>1
<1>7. \A h \in Handle : ~Owns(h)
  BY <1>4 DEF Owns
<1>8. Shaped
  <2> SUFFICES ASSUME NEW h \in Handle
               PROVE  bufs[h].len <= bufs[h].cap /\ (bufs[h].ptr = NULL => bufs[h].cap = 0)
    BY DEF Shaped
  <2>1. bufs[h].len = 0 /\ bufs[h].cap = 0
    BY <1>4
  <2>2. 0 <= 0
    OBVIOUS
  <2> QED
    BY <2>1, <2>2
<1>9. Owned /\ Unshared /\ NothingLost /\ Filled
  BY <1>4, <1>6, <1>7 DEF Owned, Unshared, NothingLost, Filled
<1>10. Heap
  BY <1>5, <1>8, <1>9 DEF Heap
<1>11. CopyOK /\ aborted \in BOOLEAN
  BY <1>1 DEF CopyOK
<1> QED
  BY <1>10, <1>11 DEF Inv

LEMMA Untouched ==
  ASSUME Heap, UNCHANGED << bufs, memory >>
  PROVE  Heap'
BY DEF Heap, Typed, Shaped, Owned, Unshared, NothingLost, Filled, Owns, StaticAddress, StaticBlock

LEMMA NoCopying ==
  ASSUME Idle, aborted \in BOOLEAN, UNCHANGED << copying, aborted >>
  PROVE  CopyOK' /\ aborted' \in BOOLEAN
BY DEF Idle, CopyOK, NotCopying

LEMMA AbortInv ==
  ASSUME Inv, NEW h \in Handle, Abort(h)
  PROVE  Inv'
<1>1. UNCHANGED << bufs, memory, copying >> /\ aborted' = TRUE
  BY DEF Abort
<1>2. Heap'
  BY <1>1, Untouched DEF Inv
<1>3. CopyOK'
  BY <1>1 DEF Inv, CopyOK, IsCopying, Mine, Viewed, NotCopying, Copies
<1> QED
  BY <1>1, <1>2, <1>3 DEF Inv

LEMMA StartConcatInv ==
  ASSUME Inv, NEW h \in Handle, NEW g \in Handle, StartConcat(h, g)
  PROVE  Inv'
<1>1. /\ UNCHANGED << bufs, memory, aborted >> /\ copying' = Copies(h, g, 0)
      /\ h # g /\ Mine(h) /\ (~bufs[g].ref => Mine(g))
  BY DEF StartConcat
<1>2. Heap'
  BY <1>1, Untouched DEF Inv
<1>3. bufs[h].len \in Nat /\ bufs[g].len \in Nat
  BY Fields DEF Inv, Heap
<1>4. 0 <= bufs[g].len /\ 0 <= bufs[h].len /\ 1..0 = {} /\ 0 \in Nat
  BY <1>3
<1>5. IsCopying(h, g, 0)'
  BY <1>1, <1>4 DEF IsCopying, Mine, Viewed, Copies
<1>6. CopyOK'
  BY <1>4, <1>5 DEF CopyOK
<1> QED
  BY <1>1, <1>2, <1>6 DEF Inv

\* One more item is pushed: what ConcatItem says, once to and from are named.
LEMMA ConcatItemPushes ==
  ASSUME Inv, NEW h \in Handle, NEW g \in Handle, NEW i \in Nat, IsCopying(h, g, i), ConcatItem
  PROVE  /\ Heap /\ Mine(h) /\ i < bufs[g].len
         /\ bufs[g].ptr # NULL /\ memory[bufs[g].ptr][i + 1] \in Item
         /\ Grew(h, memory[bufs[g].ptr][i + 1])
         /\ copying' = Copies(h, g, i + 1) /\ aborted' = aborted
<1>1. copying = Copies(h, g, i) /\ Mine(h) /\ Heap
  BY DEF IsCopying, Inv
<1>2. copying.i = i /\ copying.to = h /\ copying.from = g
  BY <1>1 DEF Copies
<1>3. /\ i < bufs[g].len /\ PushItem(h, memory[bufs[g].ptr][i + 1])
      /\ copying' = [ copying EXCEPT !.i = i + 1 ] /\ aborted' = aborted
  BY <1>2 DEF ConcatItem
<1>4. copying' = Copies(h, g, i + 1)
  BY <1>1, <1>3 DEF Copies
<1>5. bufs[g].len \in Nat /\ (bufs[g].ptr = NULL => bufs[g].len = 0)
  BY <1>1, Fields, LenFits DEF Heap
<1>6. bufs[g].ptr # NULL /\ i + 1 \in 1..bufs[g].len
  BY <1>3, <1>5
<1>7. memory[bufs[g].ptr][i + 1] \in Item
  BY <1>1, <1>6 DEF Heap, Filled
<1>8. Grew(h, memory[bufs[g].ptr][i + 1])
  BY <1>1, <1>3, PushItemGrew
<1> QED
  BY <1>1, <1>3, <1>4, <1>6, <1>7, <1>8

LEMMA ConcatItemCopies ==
  ASSUME Inv, NEW h \in Handle, NEW g \in Handle, NEW i \in Nat, IsCopying(h, g, i), ConcatItem
  PROVE  IsCopying(h, g, i + 1)'
<1> DEFINE x == memory[bufs[g].ptr][i + 1]
           n == bufs[h].len
<1>1. /\ Heap /\ Mine(h) /\ i < bufs[g].len /\ bufs[g].ptr # NULL /\ x \in Item /\ Grew(h, x)
      /\ copying' = Copies(h, g, i + 1)
  BY ConcatItemPushes
<1>2. /\ h # g /\ (~bufs[g].ref => Mine(g)) /\ i <= n
      /\ \A k \in 1..i : memory[bufs[h].ptr][n - i + k] = memory[bufs[g].ptr][k]
  BY DEF IsCopying
<1>3. n \in Nat /\ bufs[g].len \in Nat
  BY <1>1, Fields DEF Heap
<1>4. bufs'[g] = bufs[g] /\ memory'[bufs[g].ptr] = memory[bufs[g].ptr]
  BY <1>1, <1>2, GrewElsewhere DEF Kept
<1>5. Mine(h)' /\ (~bufs'[g].ref => Mine(g)')
  BY <1>1, <1>2, <1>4, GrewMine
<1>6. /\ bufs'[h].len = n + 1
      /\ \A k \in 1..n : memory'[bufs'[h].ptr][k] = memory[bufs[h].ptr][k]
      /\ memory'[bufs'[h].ptr][n + 1] = x
  BY <1>1 DEF Grew
<1>7. ASSUME NEW k \in 1..(i + 1)
      PROVE  memory'[bufs'[h].ptr][n - i + k] = memory[bufs[g].ptr][k]
  <2>1. CASE k = i + 1
    <3>1. n - i + k = n + 1
      BY <2>1, <1>3
    <3> QED
      BY <2>1, <3>1, <1>6
  <2>2. CASE k # i + 1
    <3>1. k \in 1..i /\ n - i + k \in 1..n
      BY <2>2, <1>2, <1>3
    <3> QED
      BY <3>1, <1>2, <1>6
  <2> QED
    BY <2>1, <2>2
<1>8. /\ i + 1 <= bufs'[g].len /\ i + 1 <= bufs'[h].len
      /\ bufs'[h].len - (i + 1) = n - i
  BY <1>1, <1>2, <1>3, <1>4, <1>6
<1>9. \A k \in 1..(i + 1) :
        memory'[bufs'[h].ptr][bufs'[h].len - (i + 1) + k] = memory'[bufs'[g].ptr][k]
  BY <1>4, <1>7, <1>8
<1> QED
  BY <1>1, <1>2, <1>5, <1>8, <1>9 DEF IsCopying, Copies

LEMMA ConcatItemInv ==
  ASSUME Inv, ConcatItem
  PROVE  Inv'
<1>1. PICK h \in Handle, g \in Handle, i \in Nat : IsCopying(h, g, i)
  BY DEF Inv, CopyOK, ConcatItem
<1>2. Heap' /\ aborted' = aborted
  BY <1>1, ConcatItemPushes, GrewHeap
<1>3. CopyOK'
  <2>1. i + 1 \in Nat
    OBVIOUS
  <2> QED
    BY <1>1, <2>1, ConcatItemCopies DEF CopyOK
<1> QED
  BY <1>2, <1>3 DEF Inv

\* The array that was joined on is complete, and goes.
LEMMA FinishConcatFrees ==
  ASSUME Inv, NEW h \in Handle, NEW g \in Handle, NEW i \in Nat, IsCopying(h, g, i), FinishConcat
  PROVE  /\ Heap /\ (~bufs[g].ref => Mine(g)) /\ i = bufs[g].len
         /\ memory' = Freed(g) /\ bufs' = [ bufs EXCEPT ![g] = NewBuf ]
         /\ copying' = NotCopying /\ aborted' = aborted
<1>1. copying = Copies(h, g, i) /\ (~bufs[g].ref => Mine(g)) /\ Heap
  BY DEF IsCopying, Inv
<1>2. copying.i = i /\ copying.to = h /\ copying.from = g
  BY <1>1 DEF Copies
<1> QED
  BY <1>1, <1>2 DEF FinishConcat

LEMMA FinishConcatInv ==
  ASSUME Inv, FinishConcat
  PROVE  Inv'
<1>1. PICK h \in Handle, g \in Handle, i \in Nat : IsCopying(h, g, i)
  BY DEF Inv, CopyOK, FinishConcat
<1>2. Heap' /\ aborted' = aborted /\ copying' = NotCopying
  BY <1>1, FinishConcatFrees, FreedHeap
<1> QED
  BY <1>2 DEF Inv, CopyOK, NotCopying

LEMMA NextInv == Inv /\ [Next]_vars => Inv'
<1> SUFFICES ASSUME Inv, [Next]_vars PROVE Inv'
  OBVIOUS
<1>1. Heap /\ CopyOK /\ aborted \in BOOLEAN
  BY DEF Inv
<1>2. ASSUME NEW h \in Handle, NEW x \in Item, Push(h, x) PROVE Inv'
  <2>1. Idle /\ Mine(h) /\ PushItem(h, x) /\ UNCHANGED << copying, aborted >>
    BY <1>2 DEF Push
  <2>2. Heap'
    BY <1>1, <2>1, PushItemGrew, GrewHeap
  <2> QED
    BY <2>1, <2>2, NoCopying DEF Inv
<1>3. ASSUME NEW h \in Handle, Pop(h) PROVE Inv'
  <2>1. Idle /\ Mine(h) /\ UNCHANGED << copying, aborted >>
    BY <1>3 DEF Pop
  <2>2. bufs[h].len \in Nat
    BY <1>1, Fields DEF Heap
  <2> DEFINE n == bufs[h].len - 1
  <2>3. n \in Nat /\ n <= bufs[h].len /\ Shrunk(h, n)
    BY <1>1, <1>3, <2>1, <2>2, PopShrunk
  <2> HIDE DEF n
  <2>4. Heap'
    BY <1>1, <2>1, <2>3, ShrunkHeap
  <2> QED
    BY <2>1, <2>4, NoCopying DEF Inv
<1>4. ASSUME NEW h \in Handle, PopFirst(h) PROVE Inv'
  <2>1. Idle /\ Mine(h) /\ UNCHANGED << copying, aborted >>
    BY <1>4 DEF PopFirst
  <2>2. bufs[h].len \in Nat
    BY <1>1, Fields DEF Heap
  <2> DEFINE n == bufs[h].len - 1
  <2>3. n \in Nat /\ n <= bufs[h].len /\ Shrunk(h, n)
    BY <1>1, <1>4, <2>1, <2>2, PopFirstShrunk
  <2> HIDE DEF n
  <2>4. Heap'
    BY <1>1, <2>1, <2>3, ShrunkHeap
  <2> QED
    BY <2>1, <2>4, NoCopying DEF Inv
<1>5. ASSUME NEW h \in Handle, Clear(h) PROVE Inv'
  <2>1. Idle /\ Mine(h) /\ UNCHANGED << copying, aborted >>
    BY <1>5 DEF Clear
  <2>2. 0 \in Nat /\ 0 <= bufs[h].len
    <3>1. bufs[h].len \in Nat
      BY <1>1, Fields DEF Heap
    <3> QED
      BY <3>1
  <2>3. Heap'
    BY <1>1, <1>5, <2>1, <2>2, ClearShrunk, ShrunkHeap
  <2> QED
    BY <2>1, <2>3, NoCopying DEF Inv
<1>6. ASSUME NEW h \in Handle, Free(h) PROVE Inv'
  BY <1>1, <1>6, FreedHeap, NoCopying DEF Free, Inv
<1>7. ASSUME NEW h \in Handle, NEW v \in Handle, View(h, v) PROVE Inv'
  <2>1. Heap'
    BY <1>1, <1>7, ViewShows
  <2> QED
    BY <1>7, <2>1, NoCopying DEF View, Inv
<1>8. ASSUME NEW v \in Handle, ViewArray(v) PROVE Inv'
  <2>1. Heap'
    BY <1>1, <1>8, ViewArrayShows
  <2> QED
    BY <1>8, <2>1, NoCopying DEF ViewArray, Inv
<1>9. ASSUME NEW h \in Handle, NEW g \in Handle, Move(h, g) PROVE Inv'
  BY <1>1, <1>9, MovedHeap, NoCopying DEF Move, Inv
<1>10. CASE UNCHANGED vars
  <2>1. UNCHANGED << bufs, memory, copying, aborted >>
    BY <1>10 DEF vars
  <2>2. CopyOK'
    BY <1>1, <2>1 DEF CopyOK, IsCopying, Mine, Viewed, NotCopying, Copies
  <2> QED
    BY <1>1, <2>1, <2>2, Untouched DEF Inv
<1> QED
  BY <1>2, <1>3, <1>4, <1>5, <1>6, <1>7, <1>8, <1>9, <1>10,
     AbortInv, StartConcatInv, ConcatItemInv, FinishConcatInv DEF Next

\* The invariant the other theorems rest on: blocks, owners and views agree, and while
\* BUF_CONCAT runs, what it has pushed is what it has read.
THEOREM InvHolds == Spec => []Inv
<1>1. Init => Inv
  BY InitInv
<1>2. Inv /\ [Next]_vars => Inv'
  BY NextInv
<1> QED
  BY <1>1, <1>2, PTL DEF Spec

\* Every block of buf.h has one owner, and nobody looks at a block that is gone.
THEOREM BlocksOwnedOnceHolds == Spec => []BlocksOwnedOnce
<1>1. Inv => BlocksOwnedOnce
  <2> SUFFICES ASSUME Inv PROVE BlocksOwnedOnce
    OBVIOUS
  <2>1. Typed /\ Shaped /\ Owned /\ Unshared /\ NothingLost /\ Filled
    BY DEF Inv, Heap
  <2>2. ASSUME NEW a \in DOMAIN memory \ {StaticAddress}
        PROVE  \E h \in Handle : /\ ~bufs[h].ref /\ bufs[h].ptr = a
                                 /\ \A g \in Handle \ {h} : bufs[g].ptr = a => bufs[g].ref
    <3>1. PICK h \in Handle : Owns(h) /\ bufs[h].ptr = a
      BY <2>1 DEF NothingLost
    <3>2. ASSUME NEW g \in Handle \ {h}, bufs[g].ptr = a PROVE bufs[g].ref
      BY <2>1, <3>1, <3>2 DEF Unshared, Owns
    <3> QED
      BY <3>1, <3>2 DEF Owns
  <2>3. ASSUME NEW h \in Handle
        PROVE  /\ bufs[h].len <= bufs[h].cap
               /\ bufs[h].cap > 0 => bufs[h].ptr \in DOMAIN memory
               /\ ~bufs[h].ref /\ bufs[h].ptr # NULL =>
                     Holds(h) /\ DOMAIN memory[bufs[h].ptr] = 1..bufs[h].cap
               /\ \A i \in 1..bufs[h].len : memory[bufs[h].ptr][i] \in Item
    <3>1. bufs[h].len \in Nat /\ bufs[h].cap \in Nat
      BY <2>1, Fields
    <3>2. bufs[h].len <= bufs[h].cap /\ (bufs[h].ptr = NULL => bufs[h].cap = 0)
      BY <2>1 DEF Shaped
    <3>3. bufs[h].ptr # NULL => /\ bufs[h].ptr \in DOMAIN memory
                               /\ \A i \in 1..bufs[h].len : memory[bufs[h].ptr][i] \in Item
      BY <2>1 DEF Filled
    <3>4. bufs[h].cap > 0 => bufs[h].ptr \in DOMAIN memory
      BY <3>1, <3>2, <3>3
    <3>5. \A i \in 1..bufs[h].len : bufs[h].ptr # NULL
      BY <3>1, <3>2
    <3>6. ASSUME ~bufs[h].ref, bufs[h].ptr # NULL
          PROVE  Holds(h) /\ DOMAIN memory[bufs[h].ptr] = 1..bufs[h].cap
      <4>1. /\ bufs[h].ptr \in 1..MaxBlocks /\ bufs[h].ptr \in DOMAIN memory
            /\ memory[bufs[h].ptr] = [ i \in 1..bufs[h].cap |-> memory[bufs[h].ptr][i] ]
        BY <2>1, <3>6 DEF Owned, Owns
      <4>2. bufs[h].ptr # StaticAddress
        BY <4>1, BlocksAssumption DEF StaticAddress
      <4> QED
        BY <4>1, <4>2 DEF Holds
    <3> QED
      BY <3>2, <3>3, <3>4, <3>5, <3>6
  <2> QED
    BY <2>2, <2>3 DEF BlocksOwnedOnce
<1> QED
  BY <1>1, InvHolds, PTL

--------------------------------------------------------------------------------
(* Bufs implement lists.                                                        *)

Row(h) == [ i \in 1..Shown(h) |-> memory[bufs[h].ptr][i] ]

IsRow(h) ==
    /\ Shown(h) \in Nat
    /\ Row(h) \in Seq(Item) /\ Len(Row(h)) = Shown(h)
    /\ \A i \in 1..Shown(h) : Row(h)[i] = memory[bufs[h].ptr][i]
Rows == \A h \in Handle : IsRow(h)

LEMMA ContentsAreRows ==
  /\ Contents = [ h \in Handle |-> Row(h) ]
  /\ Contents' = [ h \in Handle |-> Row(h)' ]
BY DEF Contents, Row

LEMMA ShownIdle ==
  /\ Idle => \A v \in Handle : Shown(v) = bufs[v].len
  /\ copying' = NotCopying => \A v \in Handle : Shown(v)' = bufs'[v].len
BY DEF Idle, Shown, NotCopying

LEMMA ShownCopying ==
  ASSUME NEW h \in Handle, NEW g, NEW i, copying = Copies(h, g, i)
  PROVE  Shown(h) = bufs[h].len - i /\ \A v : v # h => Shown(v) = bufs[v].len
<1>1. copying.on = TRUE /\ copying.to = h /\ copying.i = i
  BY DEF Copies
<1>2. copying # NotCopying
  BY <1>1 DEF NotCopying
<1> QED
  BY <1>1, <1>2 DEF Shown

LEMMA RowsHold == Inv => Rows
<1> SUFFICES ASSUME Inv, NEW h \in Handle PROVE IsRow(h)
  BY DEF Rows
<1>1. bufs[h].len \in Nat /\ (bufs[h].ptr = NULL => bufs[h].len = 0)
  BY Fields, LenFits DEF Inv, Heap
<1>2. Shown(h) \in Nat /\ Shown(h) <= bufs[h].len
  <2>1. CASE copying = NotCopying
    BY <1>1, <2>1 DEF Shown
  <2>2. ASSUME NEW to \in Handle, NEW from \in Handle, NEW i \in Nat, IsCopying(to, from, i)
        PROVE  Shown(h) \in Nat /\ Shown(h) <= bufs[h].len
    <3>1. CASE h = to
      <4>1. Shown(h) = bufs[h].len - i /\ i <= bufs[h].len
        BY <2>2, <3>1, ShownCopying DEF IsCopying
      <4> QED
        BY <1>1, <4>1
    <3>2. CASE h # to
      <4>1. Shown(h) = bufs[h].len
        BY <2>2, <3>2, ShownCopying DEF IsCopying
      <4> QED
        BY <1>1, <4>1
    <3> QED
      BY <3>1, <3>2
  <2> QED
    BY <2>1, <2>2 DEF Inv, CopyOK
<1> DEFINE n == Shown(h)
<1>3. \A i \in 1..n : memory[bufs[h].ptr][i] \in Item
  <2> TAKE i \in 1..n
  <2>1. i \in 1..bufs[h].len /\ bufs[h].ptr # NULL
    BY <1>1, <1>2
  <2> QED
    BY <2>1 DEF Inv, Heap, Filled
<1>4. Row(h) = [ i \in 1..n |-> memory[bufs[h].ptr][i] ]
  BY DEF Row
<1>5. Row(h) \in Seq(Item) /\ Len(Row(h)) = n
        /\ \A i \in 1..n : Row(h)[i] = memory[bufs[h].ptr][i]
  <2>1. n \in Nat
    BY <1>2
  <2> HIDE DEF n
  <2>2. Row(h) \in [ 1..n -> Item ]
    BY <1>3, <1>4
  <2>3. Row(h) \in Seq(Item)
    BY <2>1, <2>2
  <2>4. Len(Row(h)) = n
    BY <2>1, <2>2, <2>3, LenProperties
  <2> QED
    BY <1>4, <2>3, <2>4
<1> QED
  BY <1>2, <1>5 DEF IsRow

\* What is left alone shows what it did.
LEMMA KeptRow ==
  ASSUME Heap, NEW g \in Handle, Rows, Rows', Kept(g), Shown(g)' = Shown(g),
         Shown(g) <= bufs[g].len
  PROVE  Row(g)' = Row(g)
<1>1. /\ Row(g) \in Seq(Item) /\ Len(Row(g)) = Shown(g) /\ Shown(g) \in Nat
      /\ \A i \in 1..Shown(g) : Row(g)[i] = memory[bufs[g].ptr][i]
  BY DEF Rows, IsRow
<1>2. /\ Row(g)' \in Seq(Item) /\ Len(Row(g)') = Shown(g)'
      /\ \A i \in 1..Shown(g)' : Row(g)'[i] = memory'[bufs'[g].ptr][i]
  BY DEF Rows, IsRow
<1>3. bufs[g].len \in Nat /\ (bufs[g].ptr = NULL => bufs[g].len = 0)
  BY Fields, LenFits DEF Heap
<1>4. ASSUME NEW i \in 1..Shown(g) PROVE Row(g)'[i] = Row(g)[i]
  <2>1. bufs[g].ptr # NULL
    BY <1>1, <1>3
  <2>2. memory'[bufs'[g].ptr] = memory[bufs[g].ptr]
    BY <2>1 DEF Kept
  <2> QED
    BY <1>1, <1>2, <2>2
<1> QED
  BY <1>1, <1>2, <1>4, SeqEqual

\* The same for all the others, when nothing is being concatenated.
LEMMA OtherRows ==
  ASSUME Heap, NEW h \in Handle, Rows, Rows', Idle, copying' = NotCopying, OthersKept(h)
  PROVE  \A g \in Handle \ {h} : Row(g)' = Row(g)
<1> TAKE g \in Handle \ {h}
<1>1. Kept(g)
  BY DEF OthersKept
<1>2. Shown(g) = bufs[g].len /\ Shown(g)' = bufs'[g].len
  BY ShownIdle
<1>3. bufs'[g] = bufs[g] /\ bufs[g].len \in Nat
  BY <1>1, Fields DEF Kept, Heap
<1>4. Shown(g)' = Shown(g) /\ Shown(g) <= bufs[g].len
  BY <1>2, <1>3
<1> QED
  BY <1>1, <1>4, KeptRow

\* A step that changes what one variable shows, and no more.
LEMMA OneRow ==
  ASSUME NEW h \in Handle, NEW X, Row(h)' = X, \A g \in Handle \ {h} : Row(g)' = Row(g)
  PROVE  Contents' = [ Contents EXCEPT ![h] = X ]
<1> DEFINE new == [ Contents EXCEPT ![h] = X ]
<1>1. \A g \in Handle : Contents[g] = Row(g) /\ Contents'[g] = Row(g)'
  BY ContentsAreRows
<1>2. new = [ g \in Handle |-> IF g = h THEN X ELSE Row(g) ]
  BY ContentsAreRows
<1>3. Contents' = [ g \in Handle |-> Row(g)' ]
  BY ContentsAreRows
<1> QED
  BY <1>2, <1>3

LEMMA PushRefines ==
  ASSUME Inv, Rows, Rows', NEW h \in Handle, NEW x \in Item, Push(h, x)
  PROVE  TheLists!Push(h, x)
<1> DEFINE n == bufs[h].len
<1>1. Heap /\ Idle /\ Mine(h) /\ PushItem(h, x) /\ copying' = NotCopying
  BY DEF Inv, Push, Idle
<1>2. Grew(h, x)
  BY <1>1, PushItemGrew
<1>3. n \in Nat /\ Shown(h) = n /\ Shown(h)' = n + 1
  <2>1. bufs'[h].len = n + 1
    BY <1>2 DEF Grew
  <2> QED
    BY <1>1, <2>1, ShownIdle, Fields DEF Heap
<1> HIDE DEF n
<1>4. /\ Row(h) \in Seq(Item) /\ Len(Row(h)) = n
      /\ \A i \in 1..n : Row(h)[i] = memory[bufs[h].ptr][i]
  BY <1>3 DEF Rows, IsRow
<1>5. /\ Row(h)' \in Seq(Item) /\ Len(Row(h)') = n + 1
      /\ \A i \in 1..(n + 1) : Row(h)'[i] = memory'[bufs'[h].ptr][i]
  BY <1>3 DEF Rows, IsRow
<1>6. /\ \A i \in 1..n : memory'[bufs'[h].ptr][i] = memory[bufs[h].ptr][i]
      /\ memory'[bufs'[h].ptr][n + 1] = x
  BY <1>2 DEF Grew, n
<1> DEFINE t == Append(Row(h), x)
<1>7. /\ t \in Seq(Item) /\ Len(t) = n + 1
      /\ \A i \in 1..n : t[i] = Row(h)[i]
      /\ t[n + 1] = x
  BY <1>4, PushOne
<1> HIDE DEF t
<1>8. ASSUME NEW i \in 1..(n + 1) PROVE Row(h)'[i] = t[i]
  <2>1. CASE i = n + 1
    BY <2>1, <1>5, <1>6, <1>7
  <2>2. CASE i \in 1..n
    <3>1. Row(h)'[i] = memory'[bufs'[h].ptr][i]
      BY <1>5
    <3>2. memory'[bufs'[h].ptr][i] = Row(h)[i]
      BY <2>2, <1>4, <1>6
    <3>3. t[i] = Row(h)[i]
      BY <2>2, <1>7
    <3> QED
      BY <3>1, <3>2, <3>3
  <2>3. i = n + 1 \/ i \in 1..n
    BY <1>3
  <2> QED
    BY <2>1, <2>2, <2>3
<1>9. Row(h)' = t
  BY <1>5, <1>7, <1>8, SeqEqual
<1>10. \A g \in Handle \ {h} : Row(g)' = Row(g)
  BY <1>1, <1>2, GrewElsewhere, OtherRows DEF OthersKept
<1>11. Contents' = [ Contents EXCEPT ![h] = Append(Row(h), x) ]
  BY <1>9, <1>10, OneRow DEF t
<1> QED
  BY <1>11, ContentsAreRows DEF TheLists!Push

\* The variable shows the first n of its items, which nobody has touched.
LEMMA PrefixRow ==
  ASSUME Inv, Rows, Rows', NEW h \in Handle, Idle, copying' = NotCopying, NEW n \in Nat,
         n <= bufs[h].len, bufs'[h].len = n, bufs'[h].ptr = bufs[h].ptr, memory' = memory
  PROVE  Row(h)' = SubSeq(Row(h), 1, n)
<1> DEFINE m == bufs[h].len
           t == SubSeq(Row(h), 1, n)
<1>1. m \in Nat /\ Shown(h) = m /\ Shown(h)' = n
  BY ShownIdle, Fields DEF Inv, Heap
<1>2. /\ Row(h) \in Seq(Item) /\ Len(Row(h)) = m
      /\ \A i \in 1..m : Row(h)[i] = memory[bufs[h].ptr][i]
  BY <1>1 DEF Rows, IsRow
<1>3. /\ Row(h)' \in Seq(Item) /\ Len(Row(h)') = n
      /\ \A i \in 1..n : Row(h)'[i] = memory[bufs[h].ptr][i]
  BY <1>1 DEF Rows, IsRow
<1>4. \A i \in 1..n : i \in 1..m
  BY <1>1
<1>5. t \in Seq(Item) /\ Len(t) = n /\ \A i \in 1..n : t[i] = Row(h)[i]
  <2> HIDE DEF m
  <2>1. \A i \in 1..n : Row(h)[i] \in Item
    BY <1>2, <1>4, ElementOfSeq
  <2>2. /\ t \in Seq(Item)
        /\ Len(t) = IF 1 <= n THEN n - 1 + 1 ELSE 0
        /\ \A i \in 1..(n - 1 + 1) : t[i] = Row(h)[1 + i - 1]
    BY <1>2, <2>1, SubSeqProperties
  <2> HIDE DEF t
  <2>3. Len(t) = n
    BY <2>2
  <2>4. ASSUME NEW i \in 1..n PROVE t[i] = Row(h)[i]
    <3>1. i \in 1..(n - 1 + 1) /\ 1 + i - 1 = i
      OBVIOUS
    <3> QED
      BY <2>2, <3>1
  <2> QED
    BY <2>2, <2>3, <2>4
<1> HIDE DEF t, m
<1>6. \A i \in 1..n : Row(h)'[i] = t[i]
  BY <1>2, <1>3, <1>4, <1>5
<1>7. Row(h)' = t
  BY <1>3, <1>5, <1>6, SeqEqual
<1> QED
  BY <1>7 DEF t

LEMMA PopRefines ==
  ASSUME Inv, Rows, Rows', NEW h \in Handle, Pop(h)
  PROVE  TheLists!Pop(h)
<1> DEFINE n == bufs[h].len - 1
<1>1. Heap /\ Idle /\ Mine(h) /\ copying' = NotCopying /\ memory' = memory /\ bufs[h].len > 0
  BY DEF Inv, Pop, Idle
<1>2. bufs[h].len \in Nat /\ n \in Nat /\ n <= bufs[h].len /\ Shrunk(h, n)
  <2>1. bufs[h].len \in Nat
    BY <1>1, Fields DEF Heap
  <2>2. n \in Nat /\ Shrunk(h, n)
    BY <1>1, PopShrunk
  <2>3. n <= bufs[h].len
    BY <2>1
  <2> QED
    BY <2>1, <2>2, <2>3
<1>3. Len(Row(h)) = bufs[h].len
  BY <1>1, ShownIdle DEF Rows, IsRow
<1>4. Len(Row(h)) - 1 = n /\ Row(h) # <<>>
  BY <1>1, <1>2, <1>3
<1> HIDE DEF n
<1>5. bufs'[h].len = n /\ bufs'[h].ptr = bufs[h].ptr /\ OthersKept(h)
  BY <1>1, <1>2, ShrunkFields, ShrunkElsewhere
<1>6. Row(h)' = SubSeq(Row(h), 1, n)
  BY <1>1, <1>2, <1>5, PrefixRow
<1>7. \A g \in Handle \ {h} : Row(g)' = Row(g)
  BY <1>1, <1>5, OtherRows
<1>8. Contents' = [ Contents EXCEPT ![h] = SubSeq(Row(h), 1, Len(Row(h)) - 1) ]
  BY <1>4, <1>6, <1>7, OneRow
<1> QED
  BY <1>4, <1>8, ContentsAreRows DEF TheLists!Pop

LEMMA PopFirstRefines ==
  ASSUME Inv, Rows, Rows', NEW h \in Handle, PopFirst(h)
  PROVE  TheLists!PopFirst(h)
<1> DEFINE m == bufs[h].len
           p == bufs[h].ptr
           t == Tail(Row(h))
<1>1. Heap /\ Idle /\ Mine(h) /\ copying' = NotCopying /\ m > 0
  BY DEF Inv, PopFirst, Idle
<1>2. m \in Nat /\ bufs[h].cap \in Nat /\ m <= bufs[h].cap /\ p # NULL
  <2>1. m \in Nat /\ bufs[h].cap \in Nat
    BY <1>1, Fields DEF Heap
  <2>2. m <= bufs[h].cap /\ (p = NULL => m = 0)
    BY <1>1, LenFits
  <2> QED
    BY <1>1, <2>1, <2>2
<1>3. m - 1 \in Nat /\ Shrunk(h, m - 1)
  BY <1>1, PopFirstShrunk
<1>4. bufs'[h].len = m - 1 /\ bufs'[h].ptr = p /\ OthersKept(h)
  <2> DEFINE n == m - 1
  <2>1. n \in Nat /\ Shrunk(h, n)
    BY <1>3
  <2> HIDE DEF n
  <2>2. bufs'[h].len = n /\ bufs'[h].ptr = p /\ OthersKept(h)
    BY <1>1, <2>1, ShrunkFields, ShrunkElsewhere
  <2> QED
    BY <2>2 DEF n
<1>5. Shown(h) = m /\ Shown(h)' = m - 1
  BY <1>1, <1>4, ShownIdle
<1>6. p \in DOMAIN memory /\ DOMAIN memory[p] = 1..bufs[h].cap
  BY <1>1, <1>2, MineBlock
<1>7. \A i \in 1..(m - 1) : memory'[p][i] = memory[p][i + 1]
  <2>1. memory' = [ memory EXCEPT ![p] =
                      [ i \in DOMAIN memory[p] |-> IF i < m THEN memory[p][i + 1] ELSE memory[p][i] ] ]
    BY DEF PopFirst
  <2>2. memory'[p] = [ i \in 1..bufs[h].cap |-> IF i < m THEN memory[p][i + 1] ELSE memory[p][i] ]
    BY <2>1, <1>6
  <2>3. \A i \in 1..(m - 1) : i \in 1..bufs[h].cap /\ i < m
    BY <1>2
  <2> HIDE DEF m, p
  <2> QED
    BY <2>2, <2>3
<1>8. /\ Row(h) \in Seq(Item) /\ Len(Row(h)) = m
      /\ \A i \in 1..m : Row(h)[i] = memory[p][i]
  BY <1>5 DEF Rows, IsRow
<1>9. /\ Row(h)' \in Seq(Item) /\ Len(Row(h)') = m - 1
      /\ \A i \in 1..(m - 1) : Row(h)'[i] = memory'[p][i]
  BY <1>4, <1>5 DEF Rows, IsRow
<1>10. Row(h) # <<>>
  BY <1>1, <1>2, <1>8
<1>11. t \in Seq(Item) /\ Len(t) = m - 1 /\ \A i \in 1..(m - 1) : t[i] = Row(h)[i + 1]
  BY <1>8, <1>10, HeadTailProperties
<1> HIDE DEF t, p
<1>12. ASSUME NEW i \in 1..(m - 1) PROVE Row(h)'[i] = t[i]
  <2>1. i + 1 \in 1..m
    BY <1>2
  <2> HIDE DEF m
  <2>2. Row(h)'[i] = memory[p][i + 1]
    BY <1>7, <1>9
  <2> QED
    BY <2>1, <2>2, <1>8, <1>11
<1>13. Row(h)' = t
  BY <1>9, <1>11, <1>12, SeqEqual
<1>14. \A g \in Handle \ {h} : Row(g)' = Row(g)
  BY <1>1, <1>4, OtherRows
<1>15. Contents' = [ Contents EXCEPT ![h] = Tail(Row(h)) ]
  BY <1>13, <1>14, OneRow DEF t
<1> QED
  BY <1>10, <1>15, ContentsAreRows DEF TheLists!PopFirst

\* A variable with nothing in it shows the empty list.
LEMMA EmptyRow ==
  /\ Rows => \A h \in Handle : Shown(h) = 0 => Row(h) = <<>>
  /\ Rows' => \A h \in Handle : Shown(h)' = 0 => Row(h)' = <<>>
BY EmptySeq DEF Rows, IsRow

LEMMA ClearRefines ==
  ASSUME Inv, Rows, Rows', NEW h \in Handle, Clear(h) \/ Free(h)
  PROVE  TheLists!Clear(h)
<1>1. Heap /\ Idle /\ copying' = NotCopying
  BY DEF Inv, Clear, Free, Idle
<1>2. bufs'[h].len = 0 /\ OthersKept(h)
  <2>1. CASE Clear(h)
    <3>1. Mine(h) /\ 0 \in Nat
      BY <2>1 DEF Clear
    <3>2. Shrunk(h, 0)
      BY <1>1, <2>1, <3>1, ClearShrunk
    <3>3. bufs'[h].len = 0
      BY <1>1, <3>1, <3>2, ShrunkFields
    <3>4. OthersKept(h)
      BY <1>1, <3>1, <3>2, ShrunkElsewhere
    <3> QED
      BY <3>3, <3>4
  <2>2. CASE Free(h)
    <3>1. (~bufs[h].ref => Mine(h)) /\ memory' = Freed(h) /\ bufs' = [ bufs EXCEPT ![h] = NewBuf ]
      BY <2>2 DEF Free
    <3>2. bufs'[h] = NewBuf /\ OthersKept(h)
      BY <1>1, <3>1, FreedElsewhere DEF OthersKept
    <3> QED
      BY <3>2 DEF NewBuf
  <2> QED
    BY <2>1, <2>2
<1>3. Row(h)' = <<>>
  BY <1>1, <1>2, ShownIdle, EmptyRow
<1>4. \A g \in Handle \ {h} : Row(g)' = Row(g)
  BY <1>1, <1>2, OtherRows
<1>5. Contents' = [ Contents EXCEPT ![h] = <<>> ]
  BY <1>3, <1>4, OneRow
<1> QED
  BY <1>5 DEF TheLists!Clear

\* Two variables that look at the same items show the same list.
LEMMA SameRow ==
  ASSUME Rows, Rows', NEW h \in Handle, NEW g \in Handle, Shown(g)' = Shown(h),
         \A i \in 1..Shown(h) : memory'[bufs'[g].ptr][i] = memory[bufs[h].ptr][i]
  PROVE  Row(g)' = Row(h)
<1> DEFINE n == Shown(h)
<1>1. /\ Row(h) \in Seq(Item) /\ Len(Row(h)) = n
      /\ \A i \in 1..n : Row(h)[i] = memory[bufs[h].ptr][i]
  BY DEF Rows, IsRow
<1>2. /\ Row(g)' \in Seq(Item) /\ Len(Row(g)') = n
      /\ \A i \in 1..n : Row(g)'[i] = memory'[bufs'[g].ptr][i]
  BY DEF Rows, IsRow
<1>3. \A i \in 1..n : Row(g)'[i] = Row(h)[i]
  BY <1>1, <1>2
<1> HIDE DEF n
<1> QED
  BY <1>1, <1>2, <1>3, SeqEqual

LEMMA ViewRefines ==
  ASSUME Inv, Rows, Rows', NEW h \in Handle, NEW v \in Handle, View(h, v)
  PROVE  h # v /\ TheLists!View(h, v)
<1>1. Heap /\ Idle /\ copying' = NotCopying /\ h # v /\ Unused(v) /\ memory' = memory
  BY DEF Inv, View, Idle
<1>2. OthersKept(v)
  BY <1>1, ViewShows
<1>3. bufs'[v].ptr = bufs[h].ptr /\ bufs'[v].len = bufs[h].len /\ bufs[v].len = 0
  BY <1>1 DEF View, BufRef, Heap, Typed, Unused, NewBuf
<1>4. Row(v) = <<>> /\ Shown(v)' = Shown(h)
  BY <1>1, <1>3, ShownIdle, EmptyRow
<1>5. Row(v)' = Row(h)
  BY <1>1, <1>3, <1>4, SameRow
<1>6. \A g \in Handle \ {v} : Row(g)' = Row(g)
  BY <1>1, <1>2, OtherRows
<1>7. Contents' = [ Contents EXCEPT ![v] = Row(h) ]
  BY <1>5, <1>6, OneRow
<1> QED
  BY <1>1, <1>4, <1>7, ContentsAreRows DEF TheLists!View

LEMMA ViewArrayRefines ==
  ASSUME Inv, Rows, Rows', NEW v \in Handle, ViewArray(v)
  PROVE  TheLists!ListArray(v)
<1> DEFINE n == Len(Array)
<1>1. Heap /\ Idle /\ copying' = NotCopying /\ Unused(v) /\ memory' = memory
  BY DEF Inv, ViewArray, Idle
<1>2. OthersKept(v)
  BY <1>1, ViewArrayShows
<1>3. bufs'[v].ptr = StaticAddress /\ bufs'[v].len = n /\ bufs[v].len = 0
  BY <1>1 DEF ViewArray, BufRef, Heap, Typed, Unused, NewBuf
<1>4. Row(v) = <<>> /\ Shown(v)' = n
  BY <1>1, <1>3, ShownIdle, EmptyRow
<1>5. \A i \in 1..n : memory[StaticAddress][i] = Array[i]
  BY <1>1 DEF Heap, Typed, StaticBlock
<1>6. /\ Row(v)' \in Seq(Item) /\ Len(Row(v)') = n
      /\ \A i \in 1..n : Row(v)'[i] = Array[i]
  BY <1>1, <1>3, <1>4, <1>5 DEF Rows, IsRow
<1>7. Row(v)' = Array
  BY <1>6, ArrayAssumption, SeqEqual
<1>8. \A g \in Handle \ {v} : Row(g)' = Row(g)
  BY <1>1, <1>2, OtherRows
<1>9. Contents' = [ Contents EXCEPT ![v] = Array ]
  BY <1>7, <1>8, OneRow
<1> QED
  BY <1>4, <1>9, ContentsAreRows DEF TheLists!ListArray

LEMMA TwoRows ==
  ASSUME NEW h \in Handle, NEW g \in Handle, h # g, NEW X, NEW Y, Row(h)' = X, Row(g)' = Y,
         \A v \in Handle \ {h, g} : Row(v)' = Row(v)
  PROVE  Contents' = [ Contents EXCEPT ![h] = X, ![g] = Y ]
<1> DEFINE new == [ Contents EXCEPT ![h] = X, ![g] = Y ]
<1>1. new = [ v \in Handle |-> IF v = g THEN Y ELSE IF v = h THEN X ELSE Row(v) ]
  BY ContentsAreRows
<1>2. Contents' = [ v \in Handle |-> Row(v)' ]
  BY ContentsAreRows
<1> QED
  BY <1>1, <1>2

LEMMA MoveRefines ==
  ASSUME Inv, Rows, Rows', NEW h \in Handle, NEW g \in Handle, Move(h, g)
  PROVE  h # g /\ TheLists!Move(h, g)
<1>1. /\ Heap /\ Idle /\ copying' = NotCopying /\ h # g /\ Unused(g) /\ memory' = memory
      /\ bufs' = [ bufs EXCEPT ![g] = bufs[h], ![h] = NewBuf ]
  BY DEF Inv, Move, Idle
<1>2. /\ bufs'[g] = bufs[h] /\ bufs'[h] = NewBuf
      /\ \A v \in Handle \ {h, g} : bufs'[v] = bufs[v]
  BY <1>1 DEF Heap, Typed
<1>3. bufs'[h].len = 0 /\ bufs[g].len = 0
  BY <1>1, <1>2 DEF Unused, NewBuf
<1>4. Row(g) = <<>> /\ Row(h)' = <<>> /\ Shown(g)' = Shown(h)
  <2>1. Shown(g)' = bufs'[g].len /\ Shown(h)' = 0 /\ Shown(g) = 0 /\ Shown(h) = bufs[h].len
    BY <1>1, <1>3, ShownIdle
  <2>2. Shown(g)' = Shown(h)
    BY <1>2, <2>1
  <2> QED
    BY <2>1, <2>2, EmptyRow
<1>5. Row(g)' = Row(h)
  BY <1>1, <1>2, <1>4, SameRow
<1>6. ASSUME NEW v \in Handle \ {h, g} PROVE Row(v)' = Row(v)
  <2>1. Kept(v) /\ bufs'[v] = bufs[v]
    BY <1>1, <1>2 DEF Kept
  <2>2. Shown(v) = bufs[v].len /\ Shown(v)' = Shown(v) /\ bufs[v].len \in Nat
    BY <1>1, <2>1, ShownIdle, Fields DEF Heap
  <2>3. Shown(v) <= bufs[v].len
    BY <2>2
  <2> QED
    BY <1>1, <2>1, <2>2, <2>3, KeptRow
<1>7. Contents' = [ Contents EXCEPT ![g] = Row(h), ![h] = <<>> ]
  BY <1>1, <1>4, <1>5, <1>6, TwoRows
<1> QED
  BY <1>1, <1>4, <1>7, ContentsAreRows DEF TheLists!Move

\* The lists do not see BUF_CONCAT begin, nor its single steps, nor an abort.
LEMMA StartConcatStutters ==
  ASSUME Inv, NEW h \in Handle, NEW g \in Handle, StartConcat(h, g)
  PROVE  Contents' = Contents
<1>1. Idle /\ UNCHANGED << bufs, memory >> /\ copying' = Copies(h, g, 0)
  BY DEF StartConcat
<1>2. ASSUME NEW v \in Handle PROVE Shown(v)' = Shown(v)
  <2>1. bufs[v].len \in Nat /\ Shown(v) = bufs[v].len
    BY <1>1, ShownIdle, Fields DEF Inv, Heap
  <2>2. Shown(v)' = bufs[v].len - 0 \/ Shown(v)' = bufs[v].len
    BY <1>1 DEF Shown, Copies
  <2> QED
    BY <2>1, <2>2
<1>3. \A v \in Handle : Row(v)' = Row(v)
  BY <1>1, <1>2 DEF Row
<1> QED
  BY <1>3, ContentsAreRows

LEMMA UnseenStutters ==
  ASSUME UNCHANGED << bufs, memory, copying >>
  PROVE  Contents' = Contents
BY DEF Contents, Shown, NotCopying

LEMMA ConcatItemStutters ==
  ASSUME Inv, Rows, Rows', ConcatItem
  PROVE  Contents' = Contents
<1>1. PICK h \in Handle, g \in Handle, i \in Nat : IsCopying(h, g, i)
  BY DEF Inv, CopyOK, ConcatItem
<1> DEFINE n == bufs[h].len
           x == memory[bufs[g].ptr][i + 1]
<1>2. /\ Heap /\ Mine(h) /\ x \in Item /\ Grew(h, x) /\ copying' = Copies(h, g, i + 1)
      /\ copying = Copies(h, g, i) /\ i <= n
  BY <1>1, ConcatItemPushes DEF IsCopying
<1>3. n \in Nat /\ bufs'[h].len = n + 1
      /\ \A k \in 1..n : memory'[bufs'[h].ptr][k] = memory[bufs[h].ptr][k]
  <2>1. n \in Nat
    BY <1>2, Fields DEF Heap
  <2> QED
    BY <1>2, <2>1 DEF Grew
<1>4. Shown(h) = n - i /\ \A v \in Handle \ {h} : Shown(v) = bufs[v].len
  BY <1>2, ShownCopying
<1>5. Shown(h)' = bufs'[h].len - (i + 1) /\ \A v \in Handle \ {h} : Shown(v)' = bufs'[v].len
  <2>1. copying'.on = TRUE /\ copying'.to = h /\ copying'.i = i + 1
    BY <1>2 DEF Copies
  <2>2. copying' # NotCopying
    BY <2>1 DEF NotCopying
  <2> QED
    BY <2>1, <2>2 DEF Shown, NotCopying
<1>6. Shown(h)' = Shown(h) /\ \A k \in 1..Shown(h) : k \in 1..n
  BY <1>2, <1>3, <1>4, <1>5
<1>7. Row(h)' = Row(h)
  BY <1>3, <1>6, SameRow
<1>8. ASSUME NEW v \in Handle \ {h} PROVE Row(v)' = Row(v)
  <2>1. Kept(v) /\ bufs'[v] = bufs[v]
    BY <1>2, GrewElsewhere DEF Kept
  <2>2. Shown(v) = bufs[v].len /\ Shown(v)' = Shown(v) /\ bufs[v].len \in Nat
    BY <1>2, <1>4, <1>5, <2>1, Fields DEF Heap
  <2>3. Shown(v) <= bufs[v].len
    BY <2>2
  <2> QED
    BY <1>2, <2>1, <2>2, <2>3, KeptRow
<1> QED
  BY <1>7, <1>8, ContentsAreRows

\* All at once, when the copying is over: what has been copied is what is freed.
LEMMA FinishConcatRefines ==
  ASSUME Inv, Rows, Rows', FinishConcat
  PROVE  \E h \in Handle : \E g \in Handle \ {h} : TheLists!Concat(h, g)
<1>1. PICK h \in Handle, g \in Handle, i \in Nat : IsCopying(h, g, i)
  BY DEF Inv, CopyOK, FinishConcat
<1> DEFINE n == bufs[h].len
           p == bufs[h].ptr
           q == bufs[g].ptr
           t == Row(h) \o Row(g)
<1>2. /\ Heap /\ (~bufs[g].ref => Mine(g)) /\ i = bufs[g].len
      /\ memory' = Freed(g) /\ bufs' = [ bufs EXCEPT ![g] = NewBuf ] /\ copying' = NotCopying
  BY <1>1, FinishConcatFrees
<1>3. /\ copying = Copies(h, g, i) /\ h # g /\ i <= n
      /\ \A k \in 1..i : memory[p][n - i + k] = memory[q][k]
  BY <1>1 DEF IsCopying
<1>4. bufs'[g].len = 0 /\ \A v \in Handle \ {g} : Kept(v)
  <2>1. bufs'[g] = NewBuf /\ \A v \in Handle \ {g} : Kept(v)
    BY <1>2, FreedElsewhere
  <2> QED
    BY <2>1 DEF NewBuf
<1>5. n \in Nat /\ (p = NULL => n = 0)
  BY <1>2, Fields, LenFits DEF Heap
<1>6. Shown(h) = n - i /\ \A v \in Handle \ {h} : Shown(v) = bufs[v].len
  BY <1>3, ShownCopying
<1>7. \A v \in Handle : Shown(v)' = bufs'[v].len
  BY <1>2, ShownIdle
<1>8. bufs'[h] = bufs[h] /\ (p # NULL => memory'[p] = memory[p])
  BY <1>3, <1>4 DEF Kept
<1>9. Shown(h)' = n /\ Shown(g) = i /\ Shown(g)' = 0
  BY <1>2, <1>3, <1>4, <1>6, <1>7, <1>8
<1>10. /\ Row(h) \in Seq(Item) /\ Len(Row(h)) = n - i
       /\ \A k \in 1..(n - i) : Row(h)[k] = memory[p][k]
  BY <1>6 DEF Rows, IsRow
<1>11. /\ Row(g) \in Seq(Item) /\ Len(Row(g)) = i
       /\ \A k \in 1..i : Row(g)[k] = memory[q][k]
  BY <1>9 DEF Rows, IsRow
<1>12. /\ Row(h)' \in Seq(Item) /\ Len(Row(h)') = n
       /\ \A k \in 1..n : Row(h)'[k] = memory'[p][k]
  BY <1>8, <1>9 DEF Rows, IsRow
<1> HIDE DEF n, p, q
<1>13. /\ t \in Seq(Item) /\ Len(t) = (n - i) + i
       /\ \A k \in 1..((n - i) + i) : t[k] = IF k <= n - i THEN Row(h)[k] ELSE Row(g)[k - (n - i)]
  BY <1>10, <1>11, ConcatProperties
<1> HIDE DEF t
<1>14. (n - i) + i = n
  BY <1>5
<1>15. ASSUME NEW k \in 1..n PROVE Row(h)'[k] = t[k]
  <2>1. memory'[p] = memory[p]
    BY <1>5, <1>8
  <2>2. CASE k <= n - i
    <3>1. k \in 1..(n - i)
      BY <2>2, <1>3, <1>5
    <3>2. t[k] = Row(h)[k]
      BY <2>2, <1>13, <1>14
    <3> QED
      BY <2>1, <3>1, <3>2, <1>10, <1>12
  <2>3. CASE ~(k <= n - i)
    <3> DEFINE j == k - (n - i)
    <3>1. j \in 1..i /\ n - i + j = k
      BY <2>3, <1>3, <1>5
    <3>2. t[k] = Row(g)[j]
      BY <2>3, <1>13, <1>14
    <3> HIDE DEF j
    <3>3. Row(g)[j] = memory[p][k]
      BY <3>1, <1>3, <1>11
    <3> QED
      BY <2>1, <3>2, <3>3, <1>12
  <2> QED
    BY <2>2, <2>3
<1>16. Row(h)' = t
  BY <1>12, <1>13, <1>14, <1>15, SeqEqual
<1>17. Row(g)' = <<>>
  BY <1>9, EmptyRow
<1>18. ASSUME NEW v \in Handle \ {h, g} PROVE Row(v)' = Row(v)
  <2>1. Kept(v) /\ bufs'[v] = bufs[v]
    BY <1>4 DEF Kept
  <2>2. Shown(v) = bufs[v].len /\ Shown(v)' = Shown(v) /\ bufs[v].len \in Nat
    BY <1>2, <1>6, <1>7, <2>1, Fields DEF Heap
  <2>3. Shown(v) <= bufs[v].len
    BY <2>2
  <2> QED
    BY <1>2, <2>1, <2>2, <2>3, KeptRow
<1>19. Contents' = [ Contents EXCEPT ![h] = Row(h) \o Row(g), ![g] = <<>> ]
  BY <1>3, <1>16, <1>17, <1>18, TwoRows DEF t
<1>20. TheLists!Concat(h, g)
  BY <1>3, <1>19, ContentsAreRows DEF TheLists!Concat
<1> QED
  BY <1>3, <1>20

LEMMA InitRefines == Init => TheLists!Init
<1> SUFFICES ASSUME Init PROVE TheLists!Init
  OBVIOUS
<1>1. Rows /\ Idle
  BY InitInv, RowsHold DEF Init, Idle
<1>2. \A h \in Handle : bufs[h].len = 0
  BY DEF Init, NewBuf
<1>3. \A h \in Handle : Row(h) = <<>>
  BY <1>1, <1>2, ShownIdle, EmptyRow
<1> QED
  BY <1>3, ContentsAreRows DEF TheLists!Init

LEMMA NextRefines ==
  ASSUME Inv, Rows, Rows', [Next]_vars
  PROVE  [TheLists!Next]_Contents
<1>1. ASSUME NEW h \in Handle, NEW x \in Item, Push(h, x) PROVE TheLists!Next
  BY <1>1, PushRefines DEF TheLists!Next
<1>2. ASSUME NEW h \in Handle, Pop(h) \/ PopFirst(h) \/ Clear(h) \/ Free(h) PROVE TheLists!Next
  BY <1>2, PopRefines, PopFirstRefines, ClearRefines DEF TheLists!Next
<1>3. ASSUME NEW h \in Handle, NEW g \in Handle, View(h, g) \/ Move(h, g) PROVE TheLists!Next
  <2>1. CASE View(h, g)
    BY <2>1, ViewRefines DEF TheLists!Next
  <2>2. CASE Move(h, g)
    BY <2>2, MoveRefines DEF TheLists!Next
  <2> QED
    BY <1>3, <2>1, <2>2
<1>4. ASSUME NEW v \in Handle, ViewArray(v) PROVE TheLists!Next
  BY <1>4, ViewArrayRefines DEF TheLists!Next
<1>5. ASSUME FinishConcat PROVE TheLists!Next
  BY <1>5, FinishConcatRefines DEF TheLists!Next
<1>6. ASSUME NEW h \in Handle, Abort(h) PROVE Contents' = Contents
  BY <1>6, UnseenStutters DEF Abort
<1>7. CASE UNCHANGED vars
  BY <1>7, UnseenStutters DEF vars
<1> QED
  BY <1>1, <1>2, <1>3, <1>4, <1>5, <1>6, <1>7, StartConcatStutters, ConcatItemStutters DEF Next

\* A buf is a list: whatever realloc does and whatever is moved, viewed, joined or freed,
\* the users of buf.h see operations on lists that never touch each other.
THEOREM BufImplementsListHolds == Spec => BufImplementsList
<1>1. Init => TheLists!Init
  BY InitRefines
<1>2. Inv => Rows
  BY RowsHold
<1>3. Inv /\ Rows /\ Rows' /\ [Next]_vars => [TheLists!Next]_Contents
  BY NextRefines
<1> QED
  BY <1>1, <1>2, <1>3, InvHolds, PTL DEF Spec, BufImplementsList, TheLists!Spec

================================================================================
