------------------------------ MODULE ArenaProofs ------------------------------
(***************************************************************************)
(* Whatever the sizes, the layout and the backend: allocations of an arena *)
(* never overlap, and freeing it gives back every block.                   *)
(***************************************************************************)
EXTENDS Arena, SequenceLemmas

TypeOK ==
    /\ backend \in Backends
    /\ heap \in [ DOMAIN heap -> Nat \ {0} ]
    /\ DOMAIN heap \subseteq Nat \ {0}
    /\ top \in Nat \ {0}
    /\ status \in Statuses
    /\ arena \in Nat /\ begin \in Nat /\ end \in Nat /\ cursor \in Nat
    /\ regions \in [ DOMAIN regions -> RegionHeader ]
    /\ request \in Nat /\ (status = "allocating" => request \in Sizes)
    /\ given \in Seq(Block)

\* The blocks of the backend lie in memory, apart, and under WASM below its top.
HeapOK ==
    /\ \A a \in DOMAIN heap : a + heap[a] <= Memory + 1
    /\ \A a, b \in DOMAIN heap : a # b => a + heap[a] <= b \/ b + heap[b] <= a
    /\ backend = "WASM_HEAPBASE" => \A a \in DOMAIN heap : a + heap[a] <= top
    /\ backend # "WASM_HEAPBASE" => top = HeapBase

\* The blocks are the arena and its regions, each of the size its header says.
RegionsOK ==
    /\ NULL \notin DOMAIN regions /\ arena \notin DOMAIN regions
    /\ DOMAIN heap = DOMAIN regions \cup ({arena} \ {NULL})
    /\ arena # NULL => heap[arena] = ArenaSize
    /\ \A r \in DOMAIN regions : /\ heap[r] = HeaderSize + regions[r].capacity
                                 /\ regions[r].size <= regions[r].capacity
    /\ backend = "WASM_HEAPBASE" /\ arena # NULL => arena = HeapBase
    /\ status = "none" => DOMAIN regions = {} /\ arena = NULL /\ top = HeapBase
    /\ status \in { "ready", "allocating", "freeing" } => arena # NULL

\* c[1], ..., c[n] are the regions there are, linked in this order.
IsChain(c, n, first) ==
    /\ c \in [ 1..n -> DOMAIN regions ]
    /\ \A r \in DOMAIN regions : \E i \in 1..n : c[i] = r
    /\ \A i, j \in 1..n : c[i] = c[j] => i = j
    /\ \A i \in 1..n : regions[c[i]].next = IF i = n THEN NULL ELSE c[i + 1]
    /\ first = IF n = 0 THEN NULL ELSE c[1]

IsChainTo(c, n, first, last) ==
    IsChain(c, n, first) /\ last = IF n = 0 THEN NULL ELSE c[n]

Chained == \E n \in Nat : \E c \in [ 1..n -> DOMAIN regions ] : IsChainTo(c, n, begin, end)
Dangling == \E n \in Nat : \E c \in [ 1..n -> DOMAIN regions ] : IsChain(c, n, cursor)

ChainOK ==
    /\ status \in { "ready", "allocating" } => Chained
    /\ status = "allocating" => end # NULL
    /\ status = "freeing" => Dangling

Apart == \A i, j \in 1..Len(given) : i # j => AreApart(given[i], given[j])

GivenOK ==
    /\ status \in { "none", "freeing" } => given = <<>>
    /\ \A i \in 1..Len(given) : \E r \in DOMAIN regions : LiesIn(given[i], r)
    /\ Apart

Inv == TypeOK /\ HeapOK /\ RegionsOK /\ ChainOK /\ GivenOK

--------------------------------------------------------------------------------

\* A region is never larger than the memory it lies in.
LEMMA RegionFits ==
  ASSUME TypeOK, HeapOK, RegionsOK, NEW r \in DOMAIN regions
  PROVE  /\ r \in Nat \ {0} /\ r \in DOMAIN heap
         /\ regions[r].size \in Nat /\ regions[r].capacity \in Nat /\ regions[r].next \in Nat
         /\ regions[r].size <= regions[r].capacity
         /\ HeaderSize + regions[r].capacity <= Memory
         /\ r + HeaderSize + regions[r].capacity <= Memory + 1
         /\ heap[r] = HeaderSize + regions[r].capacity /\ heap[r] \in Nat
<1>1. r \in DOMAIN heap /\ r \in Nat \ {0}
  BY DEF TypeOK, RegionsOK
<1>2. regions[r] \in RegionHeader
  BY DEF TypeOK
<1>3. heap[r] = HeaderSize + regions[r].capacity /\ regions[r].size <= regions[r].capacity
  BY DEF RegionsOK
<1>4. r + heap[r] <= Memory + 1
  BY <1>1 DEF HeapOK
<1>5. regions[r].size \in Nat /\ regions[r].capacity \in Nat /\ regions[r].next \in Nat
  BY <1>2 DEF RegionHeader
<1>6. HeaderSize \in Nat /\ Memory \in Nat
  BY LayoutAssumption
<1> QED
  BY <1>1, <1>3, <1>4, <1>5, <1>6

\* What lies in one block lies before what lies in a later one.
LEMMA LaterBlocks ==
  ASSUME NEW a \in Nat, NEW m \in Nat, NEW b \in Nat, NEW n \in Nat,
         NEW s \in Nat, NEW t \in Nat,
         s <= a + m, a + m <= b, b <= t
  PROVE  s <= t
OBVIOUS

\* What taking a block does to the heap.
LEMMA TakeOne ==
  ASSUME TypeOK, HeapOK, NEW n \in Nat \ {0}, NEW a \in Places(n), Take(a, n),
         UNCHANGED backend
  PROVE  /\ a \in Nat \ {0} /\ a \notin DOMAIN heap
         /\ DOMAIN heap' = DOMAIN heap \cup {a}
         /\ heap'[a] = n /\ \A b \in DOMAIN heap : heap'[b] = heap[b]
         /\ heap' \in [ DOMAIN heap' -> Nat \ {0} ]
         /\ top' \in Nat \ {0}
         /\ HeapOK'
         /\ backend = "WASM_HEAPBASE" => a = top
<1>1. a \in Nat \ {0} /\ a + n <= Memory + 1 /\ (backend = "WASM_HEAPBASE" => a = top)
  BY SMTT(30), LayoutAssumption DEF Places, TypeOK, HeapBase
<1>2. \A b \in DOMAIN heap : b \in Nat \ {0} /\ heap[b] \in Nat \ {0}
  BY DEF TypeOK
<1>3. \A b \in DOMAIN heap : a + n <= b \/ b + heap[b] <= a
  <2>1. CASE backend = "WASM_HEAPBASE"
    BY <2>1, <1>1 DEF HeapOK
  <2>2. CASE backend # "WASM_HEAPBASE"
    BY <2>2 DEF Places, IsFree
  <2> QED
    BY <2>1, <2>2
<1>4. a \notin DOMAIN heap
  <2> SUFFICES ASSUME a \in DOMAIN heap PROVE FALSE
    OBVIOUS
  <2>1. a + n <= a \/ a + heap[a] <= a
    BY <1>3
  <2> QED
    BY <2>1, <1>1, <1>2
<1>5. /\ DOMAIN heap' = DOMAIN heap \cup {a}
      /\ heap'[a] = n /\ \A b \in DOMAIN heap : heap'[b] = heap[b]
  BY <1>4 DEF Take
<1>6. heap' \in [ DOMAIN heap' -> Nat \ {0} ]
  BY <1>2 DEF Take
<1>7. top' \in Nat \ {0}
  BY <1>1 DEF Take, TypeOK
<1>8. HeapOK'
  <2>1. \A b \in DOMAIN heap' : b + heap'[b] <= Memory + 1
    BY <1>1, <1>5 DEF HeapOK
  <2>2. \A b, c \in DOMAIN heap' : b # c => b + heap'[b] <= c \/ c + heap'[c] <= b
    BY <1>3, <1>5 DEF HeapOK
  <2>3. backend' = "WASM_HEAPBASE" => \A b \in DOMAIN heap' : b + heap'[b] <= top'
    <3> SUFFICES ASSUME backend' = "WASM_HEAPBASE", NEW b \in DOMAIN heap'
                 PROVE  b + heap'[b] <= top'
      OBVIOUS
    <3>1. a = top /\ top' = a + n
      BY <1>1 DEF Take
    <3>2. CASE b = a
      BY <3>1, <3>2, <1>1, <1>5
    <3>3. CASE b # a
      <4>1. b + heap[b] <= top /\ heap'[b] = heap[b]
        BY <3>3, <1>5 DEF HeapOK
      <4> QED
        BY <4>1, <3>1, <3>3, <1>1, <1>2, <1>5
    <3> QED
      BY <3>2, <3>3
  <2>4. backend' # "WASM_HEAPBASE" => top' = HeapBase
    BY DEF Take, HeapOK
  <2> QED
    BY <2>1, <2>2, <2>3, <2>4 DEF HeapOK
<1> QED
  BY <1>1, <1>4, <1>5, <1>6, <1>7, <1>8

\* What giving a whole block back does to it.
LEMMA GiveBackOne ==
  ASSUME TypeOK, HeapOK, NEW a \in DOMAIN heap, GiveBack(a, heap[a]),
         ~IsInvalidFree(a, heap[a]), UNCHANGED backend
  PROVE  /\ DOMAIN heap' = DOMAIN heap \ {a}
         /\ \A b \in DOMAIN heap' : heap'[b] = heap[b]
         /\ heap' \in [ DOMAIN heap' -> Nat \ {0} ]
         /\ top' \in Nat \ {0}
         /\ HeapOK'
         /\ backend = "WASM_HEAPBASE" => top' = a
<1>1. \A b \in DOMAIN heap : b \in Nat \ {0} /\ heap[b] \in Nat \ {0}
  BY DEF TypeOK
<1>2. heap' = Without(heap, a)
  BY <1>1 DEF GiveBack, Keeps
<1>3. DOMAIN heap' = DOMAIN heap \ {a} /\ \A b \in DOMAIN heap' : heap'[b] = heap[b]
  BY <1>2 DEF Without
<1>4. heap' \in [ DOMAIN heap' -> Nat \ {0} ]
  BY <1>1, <1>2 DEF Without
<1>5. top' \in Nat \ {0} /\ (backend = "WASM_HEAPBASE" => top' = a)
  BY <1>1 DEF GiveBack, TypeOK
<1>6. HeapOK'
  <2>1. backend' = "WASM_HEAPBASE" => \A b \in DOMAIN heap' : b + heap'[b] <= top'
    <3> SUFFICES ASSUME backend' = "WASM_HEAPBASE", NEW b \in DOMAIN heap'
                 PROVE  b + heap'[b] <= top'
      OBVIOUS
    <3>1. top = a + heap[a] /\ top' = a
      BY <1>5 DEF IsInvalidFree
    <3>2. b + heap[b] <= top /\ (b + heap[b] <= a \/ a + heap[a] <= b)
      BY <1>3 DEF HeapOK
    <3> QED
      BY <3>1, <3>2, <1>1, <1>3
  <2>2. backend' # "WASM_HEAPBASE" => top' = HeapBase
    BY DEF GiveBack, HeapOK
  <2>3. \A b \in DOMAIN heap' : b + heap'[b] <= Memory + 1
    BY <1>3 DEF HeapOK
  <2>4. \A b, c \in DOMAIN heap' : b # c => b + heap'[b] <= c \/ c + heap'[c] <= b
    BY <1>3 DEF HeapOK
  <2> QED
    BY <2>1, <2>2, <2>3, <2>4 DEF HeapOK
<1> QED
  BY <1>3, <1>4, <1>5, <1>6

LEMMA InitInv == Init => Inv
<1> SUFFICES ASSUME Init PROVE Inv
  OBVIOUS
<1>1. /\ DOMAIN heap = {} /\ DOMAIN regions = {}
      /\ heap \in [ DOMAIN heap -> Nat \ {0} ] /\ regions \in [ DOMAIN regions -> RegionHeader ]
      /\ given \in Seq(Block) /\ Len(given) = 0
  BY DEF Init
<1>2. TypeOK
  BY <1>1 DEF Init, TypeOK, Statuses, NULL, HeapBase
<1>3. HeapOK /\ RegionsOK
  BY <1>1 DEF Init, HeapOK, RegionsOK, NULL
<1>4. ChainOK /\ GivenOK
  BY <1>1 DEF Init, ChainOK, GivenOK, Apart
<1> QED
  BY <1>2, <1>3, <1>4 DEF Inv

LEMMA ArenaNewInv == ASSUME Inv, ArenaNew PROVE Inv'
<1> USE DEF Inv
<1>1. PICK a \in Places(ArenaSize) : Take(a, ArenaSize) /\ arena' = a
  BY DEF ArenaNew
<1>2. /\ a \in Nat \ {0} /\ a \notin DOMAIN heap
      /\ DOMAIN heap' = DOMAIN heap \cup {a}
      /\ heap'[a] = ArenaSize
      /\ heap' \in [ DOMAIN heap' -> Nat \ {0} ] /\ top' \in Nat \ {0} /\ HeapOK'
      /\ backend = "WASM_HEAPBASE" => a = top
  BY <1>1, TakeOne, LayoutAssumption DEF ArenaNew
<1>3. DOMAIN regions = {} /\ arena = NULL /\ top = HeapBase /\ regions' = regions
  BY DEF ArenaNew, RegionsOK
<1>4. DOMAIN heap = {}
  BY <1>3 DEF RegionsOK
<1>5. TypeOK'
  BY <1>1, <1>2, <1>4 DEF ArenaNew, TypeOK, NULL, Statuses
<1>6. RegionsOK'
  BY <1>1, <1>2, <1>3, <1>4 DEF ArenaNew, RegionsOK, NULL
<1>7. ChainOK'
  <2>1. DOMAIN regions' = {} /\ begin' = NULL /\ end' = NULL
    BY <1>3 DEF ArenaNew
  <2> DEFINE c == [ i \in {} |-> 0 ]
  <2>2. 1..0 = {} /\ c \in [ 1..0 -> DOMAIN regions' ]
    OBVIOUS
  <2>3. IsChainTo(c, 0, begin, end)'
    BY <2>1, <2>2 DEF IsChainTo, IsChain
  <2>4. Chained'
    BY <2>2, <2>3 DEF Chained
  <2> QED
    BY <2>4 DEF ChainOK, ArenaNew
<1>8. GivenOK'
  BY DEF ArenaNew, GivenOK, Apart
<1> QED
  BY <1>2, <1>5, <1>6, <1>7, <1>8

LEMMA AllocFirstInv == ASSUME Inv, NEW size \in Sizes, AllocFirst(size) PROVE Inv'
<1> USE DEF Inv
<1> DEFINE capacity == AtLeast(DefaultCapacity, size)
           total == HeaderSize + capacity
<1>1. capacity \in Nat /\ total \in Nat \ {0} /\ total <= SizeMax /\ size \in Nat
  BY LayoutAssumption, RequestsFit DEF AtLeast
<1>2. Plus(HeaderSize, capacity) = total
  BY <1>1, LayoutAssumption DEF Plus
<1> HIDE DEF capacity
<1>3. PICK r \in Places(total) : /\ Take(r, total) /\ regions' = WithRegion(r, capacity)
                                 /\ begin' = r /\ end' = r
  BY <1>2 DEF AllocFirst, capacity
<1>4. /\ r \in Nat \ {0} /\ r \notin DOMAIN heap
      /\ DOMAIN heap' = DOMAIN heap \cup {r}
      /\ heap'[r] = total /\ \A b \in DOMAIN heap : heap'[b] = heap[b]
      /\ heap' \in [ DOMAIN heap' -> Nat \ {0} ] /\ top' \in Nat \ {0} /\ HeapOK'
  <2>1. UNCHANGED backend
    BY DEF AllocFirst, StartAlloc
  <2> QED
    BY <1>1, <1>3, <2>1, TakeOne
<1>5. status = "ready" /\ end = NULL /\ arena # NULL
  BY DEF AllocFirst, StartAlloc, RegionsOK
<1>6. DOMAIN regions = {}
  <2>1. PICK n \in Nat : \E c \in [ 1..n -> DOMAIN regions ] : IsChainTo(c, n, begin, end)
    BY <1>5 DEF ChainOK, Chained
  <2>2. PICK c \in [ 1..n -> DOMAIN regions ] : IsChainTo(c, n, begin, end)
    BY <2>1
  <2>3. n = 0
    <3> SUFFICES ASSUME n # 0 PROVE FALSE
      OBVIOUS
    <3>1. n \in 1..n /\ end = c[n]
      BY <2>2 DEF IsChainTo
    <3> QED
      BY <3>1, <1>5 DEF RegionsOK
  <2> QED
    BY <2>2, <2>3 DEF IsChainTo, IsChain
<1>7. /\ DOMAIN regions' = {r}
      /\ regions'[r] = [ next |-> NULL, size |-> 0, capacity |-> capacity ]
  BY <1>3, <1>6 DEF WithRegion
<1>8. TypeOK'
  <2>1. regions' \in [ DOMAIN regions' -> RegionHeader ]
    BY <1>1, <1>3, <1>6 DEF WithRegion, RegionHeader, NULL
  <2>2. DOMAIN heap' \subseteq Nat \ {0}
    BY <1>4 DEF TypeOK
  <2> QED
    BY <1>1, <1>3, <1>4, <2>1, <2>2 DEF AllocFirst, StartAlloc, TypeOK, Statuses
<1>9. RegionsOK'
  BY <1>1, <1>4, <1>5, <1>6, <1>7 DEF AllocFirst, StartAlloc, RegionsOK, NULL
<1>10. ChainOK'
  <2> DEFINE c == [ i \in 1..1 |-> r ]
  <2>1. c \in [ 1..1 -> DOMAIN regions' ] /\ c[1] = r
    BY <1>7
  <2>2. IsChainTo(c, 1, begin, end)'
    BY <2>1, <1>3, <1>7 DEF IsChainTo, IsChain
  <2>3. Chained'
    BY <2>1, <2>2 DEF Chained
  <2> QED
    BY <2>3, <1>3, <1>4 DEF ChainOK, AllocFirst, StartAlloc, NULL
<1>11. GivenOK'
  <2>1. Len(given) = 0
    <3> SUFFICES ASSUME Len(given) # 0 PROVE FALSE
      OBVIOUS
    <3>1. 1 \in 1..Len(given)
      BY DEF TypeOK
    <3> QED
      BY <3>1, <1>6 DEF GivenOK
  <2> QED
    BY <2>1 DEF AllocFirst, StartAlloc, GivenOK, Apart
<1> QED
  BY <1>4, <1>8, <1>9, <1>10, <1>11

LEMMA AllocMoreInv == ASSUME Inv, NEW size \in Sizes, AllocMore(size) PROVE Inv'
<1> USE DEF Inv
<1>1. /\ status = "ready" /\ status' = "allocating" /\ end # NULL /\ request' = size
      /\ UNCHANGED << backend, heap, top, arena, begin, end, regions, cursor, given >>
  BY DEF AllocMore, StartAlloc
<1>2. TypeOK'
  BY <1>1, LayoutAssumption DEF TypeOK, Statuses
<1>3. HeapOK' /\ RegionsOK'
  BY <1>1 DEF HeapOK, RegionsOK
<1>4. ChainOK'
  BY <1>1 DEF ChainOK, Chained, IsChainTo, IsChain
<1>5. GivenOK'
  BY <1>1 DEF GivenOK, Apart, LiesIn, AreApart
<1> QED
  BY <1>2, <1>3, <1>4, <1>5

\* In the middle of an allocation end is the last region, and nothing wraps around.
LEMMA LastRegion ==
  ASSUME Inv, status = "allocating"
  PROVE  /\ end \in DOMAIN regions /\ regions[end].next = NULL
         /\ Plus(regions[end].size, request) = regions[end].size + request
         /\ GrownCapacity \in Nat /\ HeaderSize + GrownCapacity \in Nat \ {0}
         /\ Plus(HeaderSize, GrownCapacity) = HeaderSize + GrownCapacity
<1> USE DEF Inv
<1>1. PICK n \in Nat : \E c \in [ 1..n -> DOMAIN regions ] : IsChainTo(c, n, begin, end)
  BY DEF ChainOK, Chained
<1>2. PICK c \in [ 1..n -> DOMAIN regions ] : IsChainTo(c, n, begin, end)
  BY <1>1
<1>3. n # 0 /\ n \in 1..n /\ end = c[n]
  BY <1>2 DEF IsChainTo, ChainOK
<1>4. end \in DOMAIN regions /\ regions[end].next = NULL
  BY <1>2, <1>3 DEF IsChainTo, IsChain
<1>5. /\ regions[end].size \in Nat /\ regions[end].capacity \in Nat
      /\ regions[end].size <= regions[end].capacity
      /\ HeaderSize + regions[end].capacity <= Memory
  BY <1>4, RegionFits
<1>6. request \in Sizes /\ request \in Nat /\ request + HeaderSize + 2 * Memory <= SizeMax
  BY RequestsFit DEF TypeOK
<1> DEFINE s == regions[end].size
           k == regions[end].capacity
<1> HIDE DEF s, k
<1>7. Plus(s, request) = s + request
  BY <1>5, <1>6, LayoutAssumption DEF Plus, s, k
<1>8. Plus(k, k) = k + k
  BY <1>5, <1>6, LayoutAssumption DEF Plus, k
<1>9. GrownCapacity = IF k + k < request THEN request ELSE k + k
  BY <1>8 DEF GrownCapacity, AtLeast, k
<1>10. GrownCapacity \in Nat /\ HeaderSize + GrownCapacity <= SizeMax
  <2>1. /\ k \in Nat /\ k <= Memory /\ k + k \in Nat /\ k + k <= 2 * Memory
        /\ HeaderSize \in Nat /\ Memory \in Nat /\ SizeMax \in Nat
    BY <1>5, LayoutAssumption DEF k
  <2>2. CASE k + k < request
    BY <2>1, <2>2, <1>6, <1>9
  <2>3. CASE ~(k + k < request)
    BY <2>1, <2>3, <1>6, <1>9
  <2> QED
    BY <2>2, <2>3
<1>11. Plus(HeaderSize, GrownCapacity) = HeaderSize + GrownCapacity
  BY <1>10, LayoutAssumption DEF Plus
<1> QED
  BY <1>4, <1>7, <1>10, <1>11, LayoutAssumption DEF s

LEMMA NextRegionInv == ASSUME Inv, NextRegion PROVE Inv'
<1> USE DEF Inv
<1> DEFINE capacity == GrownCapacity
           total == HeaderSize + capacity
<1>1. status = "allocating" /\ UNCHANGED << backend, status, arena, begin, request, cursor, given >>
  BY DEF NextRegion
<1>2. /\ end \in DOMAIN regions /\ regions[end].next = NULL
      /\ capacity \in Nat /\ total \in Nat \ {0} /\ Plus(HeaderSize, capacity) = total
  BY <1>1, LastRegion
<1> HIDE DEF capacity
<1>3. PICK r \in Places(total) : /\ Take(r, total)
                                 /\ regions' = [ WithRegion(r, capacity) EXCEPT ![end].next = r ]
                                 /\ end' = r
  BY <1>2 DEF NextRegion, capacity
<1>4. /\ r \in Nat \ {0} /\ r \notin DOMAIN heap
      /\ DOMAIN heap' = DOMAIN heap \cup {r}
      /\ heap'[r] = total /\ \A b \in DOMAIN heap : heap'[b] = heap[b]
      /\ heap' \in [ DOMAIN heap' -> Nat \ {0} ] /\ top' \in Nat \ {0} /\ HeapOK'
      /\ backend = "WASM_HEAPBASE" => r = top
  BY <1>1, <1>2, <1>3, TakeOne
<1>5. r \notin DOMAIN regions /\ r # end /\ r # arena /\ arena # NULL
  BY <1>1, <1>2, <1>4 DEF RegionsOK, NULL
<1>6. /\ DOMAIN regions' = DOMAIN regions \cup {r}
      /\ regions'[r] = [ next |-> NULL, size |-> 0, capacity |-> capacity ]
      /\ regions'[end] = [ regions[end] EXCEPT !.next = r ]
      /\ \A b \in DOMAIN regions \ {end} : regions'[b] = regions[b]
  BY <1>2, <1>3, <1>5 DEF WithRegion
<1>7. \A b \in DOMAIN regions : regions[b] \in RegionHeader
  BY DEF TypeOK
<1>8. /\ \A b \in DOMAIN regions : /\ regions'[b].size = regions[b].size
                                   /\ regions'[b].capacity = regions[b].capacity
      /\ regions'[end].next = r
  BY <1>2, <1>6, <1>7 DEF RegionHeader
<1>9. TypeOK'
  <2>1. \A b \in DOMAIN regions' : regions'[b] \in RegionHeader
    BY <1>2, <1>4, <1>6, <1>7 DEF RegionHeader, NULL
  <2>2. regions' = [ b \in DOMAIN regions' |-> regions'[b] ]
    BY <1>3 DEF WithRegion
  <2>3. regions' \in [ DOMAIN regions' -> RegionHeader ]
    BY <2>1, <2>2
  <2>4. DOMAIN heap' \subseteq Nat \ {0}
    BY <1>4 DEF TypeOK
  <2> QED
    BY <1>1, <1>3, <1>4, <2>3, <2>4 DEF TypeOK
<1>10. RegionsOK'
  <2>1. NULL \notin DOMAIN regions' /\ arena' \notin DOMAIN regions'
    BY <1>1, <1>4, <1>5, <1>6 DEF RegionsOK, NULL
  <2>2. DOMAIN heap' = DOMAIN regions' \cup ({arena'} \ {NULL})
    BY <1>1, <1>4, <1>6 DEF RegionsOK
  <2>3. heap'[arena'] = ArenaSize
    BY <1>1, <1>4, <1>5 DEF RegionsOK
  <2>4. \A b \in DOMAIN regions' : /\ heap'[b] = HeaderSize + regions'[b].capacity
                                   /\ regions'[b].size <= regions'[b].capacity
    BY <1>2, <1>4, <1>6, <1>8 DEF RegionsOK
  <2> QED
    BY <2>1, <2>2, <2>3, <2>4, <1>1 DEF RegionsOK
<1>11. ChainOK'
  <2>1. PICK n \in Nat : \E c \in [ 1..n -> DOMAIN regions ] : IsChainTo(c, n, begin, end)
    BY <1>1 DEF ChainOK, Chained
  <2>2. PICK c \in [ 1..n -> DOMAIN regions ] : IsChainTo(c, n, begin, end)
    BY <2>1
  <2>3. n # 0 /\ n \in 1..n /\ end = c[n] /\ begin = c[1]
    BY <1>1, <2>2 DEF IsChainTo, IsChain, ChainOK
  <2> DEFINE d == [ i \in 1..(n + 1) |-> IF i = n + 1 THEN r ELSE c[i] ]
  <2>4. /\ d \in [ 1..(n + 1) -> DOMAIN regions' ]
        /\ d[n + 1] = r /\ \A i \in 1..n : d[i] = c[i]
    BY <1>6
  <2>5. /\ \A b \in DOMAIN regions : \E i \in 1..n : c[i] = b
        /\ \A i, j \in 1..n : c[i] = c[j] => i = j
        /\ \A i \in 1..n : regions[c[i]].next = IF i = n THEN NULL ELSE c[i + 1]
    BY <2>2 DEF IsChainTo, IsChain
  <2> HIDE DEF d
  <2>6. \A b \in DOMAIN regions' : \E i \in 1..(n + 1) : d[i] = b
    <3> TAKE b \in DOMAIN regions'
    <3>1. CASE b = r
      BY <3>1, <2>4
    <3>2. CASE b \in DOMAIN regions
      BY <3>2, <2>4, <2>5
    <3> QED
      BY <3>1, <3>2, <1>6
  <2>7. \A i, j \in 1..(n + 1) : d[i] = d[j] => i = j
    <3>1. \A i \in 1..n : d[i] # r
      BY <1>5, <2>4
    <3> QED
      BY <3>1, <2>4, <2>5
  <2>8. \A i \in 1..(n + 1) : regions'[d[i]].next = IF i = n + 1 THEN NULL ELSE d[i + 1]
    <3> TAKE i \in 1..(n + 1)
    <3>1. CASE i = n + 1
      BY <3>1, <2>4, <1>6
    <3>2. CASE i = n
      BY <3>2, <2>3, <2>4, <1>8
    <3>3. CASE i \in 1..n /\ i # n
      <4>1. c[i] # end /\ c[i] \in DOMAIN regions /\ i + 1 \in 1..n
        BY <3>3, <2>3, <2>5
      <4>2. regions'[c[i]] = regions[c[i]]
        BY <4>1, <1>6
      <4> QED
        BY <3>3, <4>1, <4>2, <2>4, <2>5
    <3> QED
      BY <3>1, <3>2, <3>3
  <2>9. IsChainTo(d, n + 1, begin, end)'
    BY SMTT(30), <1>1, <1>3, <2>3, <2>4, <2>6, <2>7, <2>8 DEF IsChainTo, IsChain
  <2>10. Chained'
    BY <2>4, <2>9 DEF Chained
  <2> QED
    BY <2>10, <1>1, <1>3, <1>4 DEF ChainOK, NULL
<1>12. GivenOK'
  <2>1. ASSUME NEW i \in 1..Len(given) PROVE \E b \in DOMAIN regions' : LiesIn(given[i], b)'
    <3>1. PICK b \in DOMAIN regions : LiesIn(given[i], b)
      BY DEF GivenOK
    <3> QED
      BY <3>1, <1>1, <1>6, <1>8 DEF LiesIn
  <2> QED
    BY <2>1, <1>1 DEF GivenOK, Apart, AreApart, LiesIn
<1> QED
  BY <1>4, <1>9, <1>10, <1>11, <1>12

LEMMA BumpInv == ASSUME Inv, Bump PROVE Inv'
<1> USE DEF Inv
<1> DEFINE bumped == [ start |-> end + HeaderSize + regions[end].size, length |-> request ]
<1>1. /\ status = "allocating" /\ status' = "ready"
      /\ given' = Append(given, bumped)
      /\ regions' = [ regions EXCEPT ![end].size = Plus(@, request) ]
      /\ ~IsFull
      /\ UNCHANGED << backend, heap, top, arena, begin, end, request, cursor >>
  BY DEF Bump
<1>2. /\ end \in DOMAIN regions
      /\ Plus(regions[end].size, request) = regions[end].size + request
  BY <1>1, LastRegion
<1>3. /\ end \in Nat \ {0} /\ end \in DOMAIN heap
      /\ regions[end].size \in Nat /\ regions[end].capacity \in Nat /\ request \in Nat
      /\ regions[end].size + request <= regions[end].capacity
  <2>1. /\ end \in Nat \ {0} /\ end \in DOMAIN heap
        /\ regions[end].size \in Nat /\ regions[end].capacity \in Nat
    BY <1>2, RegionFits
  <2>2. request \in Nat
    BY DEF TypeOK
  <2>3. ~(regions[end].size + request > regions[end].capacity)
    BY <1>1, <1>2 DEF IsFull
  <2> QED
    BY <2>1, <2>2, <2>3
<1>4. \A r \in DOMAIN regions : regions[r] \in RegionHeader
  BY DEF TypeOK
<1>5. /\ DOMAIN regions' = DOMAIN regions
      /\ regions'[end] = [ regions[end] EXCEPT !.size = regions[end].size + request ]
      /\ \A r \in DOMAIN regions \ {end} : regions'[r] = regions[r]
  BY <1>1, <1>2
<1>6. /\ \A r \in DOMAIN regions : /\ regions'[r] \in RegionHeader
                                   /\ regions'[r].next = regions[r].next
                                   /\ regions'[r].capacity = regions[r].capacity
                                   /\ regions[r].size \in Nat
                                   /\ regions[r].size <= regions'[r].size
      /\ regions'[end].size = regions[end].size + request
  BY <1>2, <1>3, <1>4, <1>5 DEF RegionHeader
<1>7. PICK block \in Block : block = bumped
  <2>1. bumped \in Block
    BY <1>3, LayoutAssumption DEF Block
  <2> QED
    BY <2>1
<1> HIDE DEF bumped
<1>8. given' \in Seq(Block) /\ Len(given') = Len(given) + 1 /\ Len(given) \in Nat
      /\ given'[Len(given) + 1] = block /\ \A i \in 1..Len(given) : given'[i] = given[i]
  BY <1>1, <1>7, PushOne DEF TypeOK
<1>9. TypeOK'
  <2>1. regions' = [ r \in DOMAIN regions' |-> regions'[r] ]
    BY <1>1, <1>2
  <2>2. regions' \in [ DOMAIN regions' -> RegionHeader ]
    BY <2>1, <1>5, <1>6
  <2> QED
    BY <2>2, <1>1, <1>8 DEF TypeOK, Statuses
<1>10. HeapOK'
  BY <1>1 DEF HeapOK
<1>11. RegionsOK'
  <2>1. \A r \in DOMAIN regions' : /\ heap'[r] = HeaderSize + regions'[r].capacity
                                   /\ regions'[r].size <= regions'[r].capacity
    BY <1>1, <1>2, <1>3, <1>5, <1>6 DEF RegionsOK
  <2> QED
    BY <2>1, <1>1, <1>5 DEF RegionsOK
<1>12. ChainOK'
  <2>1. PICK n \in Nat : \E c \in [ 1..n -> DOMAIN regions ] : IsChainTo(c, n, begin, end)
    BY <1>1 DEF ChainOK, Chained
  <2>2. PICK c \in [ 1..n -> DOMAIN regions ] : IsChainTo(c, n, begin, end)
    BY <2>1
  <2>3. IsChainTo(c, n, begin, end)'
    BY <2>2, <1>1, <1>5, <1>6 DEF IsChainTo, IsChain
  <2>4. Chained'
    BY <2>2, <2>3, <1>5 DEF Chained
  <2> QED
    BY <2>4, <1>1 DEF ChainOK
<1>13. ASSUME NEW i \in 1..Len(given), NEW r \in DOMAIN regions, LiesIn(given[i], r)
       PROVE  LiesIn(given[i], r)'
  <2>1. given[i] \in Block /\ r \in Nat /\ given'[i] = given[i]
    BY <1>8, RegionFits DEF TypeOK
  <2>2. regions[r].size \in Nat /\ regions'[r].size \in Nat /\ regions[r].size <= regions'[r].size
    BY <1>6 DEF RegionHeader
  <2>3. given[i].start \in Nat /\ given[i].length \in Nat
    BY <2>1 DEF Block
  <2>4. /\ r + HeaderSize <= given[i].start
        /\ given[i].start + given[i].length <= r + HeaderSize + regions[r].size
    BY <1>13 DEF LiesIn
  <2>5. HeaderSize \in Nat
    BY LayoutAssumption
  <2>6. given[i].start + given[i].length <= r + HeaderSize + regions'[r].size
    BY SMTT(30), <2>1, <2>2, <2>3, <2>4, <2>5
  <2> QED
    BY <2>1, <2>4, <2>6 DEF LiesIn
<1>14. /\ end + HeaderSize <= block.start
       /\ block.start + block.length <= end + HeaderSize + regions'[end].size
  BY <1>1, <1>2, <1>3, <1>6, <1>7, LayoutAssumption DEF bumped
<1>15. ASSUME NEW i \in 1..Len(given) PROVE AreApart(given[i], block)
  <2>1. PICK r \in DOMAIN regions : LiesIn(given[i], r)
    BY DEF GivenOK
  <2>2. given[i] \in Block
    BY DEF TypeOK
  <2>3. /\ given[i].start \in Nat /\ given[i].length \in Nat
        /\ block.start = end + HeaderSize + regions[end].size /\ block.length = request
    BY <2>2, <1>7 DEF Block, bumped
  <2>4. CASE r = end
    BY <2>1, <2>3, <2>4, <1>3, LayoutAssumption DEF LiesIn, AreApart
  <2>5. CASE r # end
    <3>1. r \in DOMAIN heap /\ r \in Nat /\ regions[r].size \in Nat /\ regions[r].capacity \in Nat
          /\ regions[r].size <= regions[r].capacity /\ heap[r] = HeaderSize + regions[r].capacity
      BY RegionFits
    <3>2. heap[end] = HeaderSize + regions[end].capacity
      BY <1>2 DEF RegionsOK
    <3>3. r + heap[r] <= end \/ end + heap[end] <= r
      BY <3>1, <1>3, <2>5 DEF HeapOK
    <3>4. HeaderSize \in Nat
      BY LayoutAssumption
    <3>5. given[i].start + given[i].length <= r + heap[r] /\ r <= given[i].start
      BY SMTT(30), <2>1, <2>3, <3>1, <3>4 DEF LiesIn
    <3>6. /\ end \in Nat /\ regions[end].size \in Nat /\ regions[end].capacity \in Nat
          /\ heap[end] \in Nat /\ heap[r] \in Nat
      BY <1>2, RegionFits
    <3>7. /\ request \in Nat /\ block.start \in Nat /\ block.length \in Nat
          /\ given[i].start + given[i].length \in Nat /\ block.start + block.length \in Nat
      <4>1. block.start \in Nat /\ block.length \in Nat
        BY DEF Block
      <4>2. block.start + block.length \in Nat
        BY <4>1
      <4>3. given[i].start + given[i].length \in Nat
        <5>1. given[i].start \in Nat /\ given[i].length \in Nat
          BY <2>3
        <5> QED
          BY <5>1
      <4> QED
        BY <4>1, <4>2, <4>3, <1>3
    <3>8. end <= block.start
      BY <2>3, <3>4, <3>6
    <3>9. block.start + block.length <= end + heap[end]
      <4>1. PICK e \in Nat, h \in Nat, z \in Nat, q \in Nat, k \in Nat :
                /\ e = end /\ h = HeaderSize /\ z = regions[end].size
                /\ q = request /\ k = regions[end].capacity
        BY <3>4, <3>6, <3>7
      <4>2. z + q <= k
        BY <4>1, <1>3
      <4>3. e + h + z + q <= e + (h + k)
        BY <4>2
      <4> QED
        BY <4>1, <4>3, <2>3, <3>2
    <3>10. CASE r + heap[r] <= end
      BY <3>10, <3>1, <3>5, <3>6, <3>7, <3>8, <2>3, LaterBlocks DEF AreApart
    <3>11. CASE end + heap[end] <= r
      BY SMTT(30), <3>11, <3>1, <3>5, <3>6, <3>7, <3>9, <2>3, LaterBlocks DEF AreApart
    <3> QED
      BY <3>3, <3>10, <3>11
  <2> QED
    BY <2>4, <2>5
<1>16. GivenOK'
  <2>1. ASSUME NEW i \in 1..Len(given') PROVE \E r \in DOMAIN regions' : LiesIn(given[i], r)'
    <3>1. CASE i = Len(given) + 1
      <4>1. given'[i] = block /\ end \in DOMAIN regions'
        BY <3>1, <1>2, <1>5, <1>8
      <4> QED
        BY <4>1, <1>14 DEF LiesIn
    <3>2. CASE i \in 1..Len(given)
      <4>1. PICK r \in DOMAIN regions : LiesIn(given[i], r)
        BY <3>2 DEF GivenOK
      <4> QED
        BY <4>1, <3>2, <1>5, <1>13
    <3> QED
      BY <3>1, <3>2, <1>8
  <2>2. ASSUME NEW i \in 1..Len(given'), NEW j \in 1..Len(given'), i # j
        PROVE  AreApart(given'[i], given'[j])
    <3>1. CASE i \in 1..Len(given) /\ j \in 1..Len(given)
      BY <3>1, <2>2, <1>8 DEF GivenOK, Apart
    <3>2. CASE i \in 1..Len(given) /\ j = Len(given) + 1
      BY <3>2, <1>8, <1>15
    <3>3. CASE i = Len(given) + 1 /\ j \in 1..Len(given)
      BY <3>3, <1>8, <1>15 DEF AreApart
    <3> QED
      BY <2>2, <3>1, <3>2, <3>3, <1>8
  <2> QED
    BY <1>1, <2>1, <2>2 DEF GivenOK, Apart
<1> QED
  BY <1>9, <1>10, <1>11, <1>12, <1>16

LEMMA AllocationFailsInv == ASSUME Inv, AllocationFails PROVE Inv'
<1> USE DEF Inv
<1>1. /\ status' = "no memory"
      /\ UNCHANGED << backend, heap, top, arena, begin, end, regions, request, cursor, given >>
  BY DEF AllocationFails
<1> QED
  BY <1>1 DEF TypeOK, Statuses, HeapOK, RegionsOK, ChainOK, GivenOK, Apart, LiesIn, AreApart

LEMMA ThrowsInv == ASSUME Inv, Throws PROVE Inv'
<1> USE DEF Inv
<1>1. /\ status' = "invalid free"
      /\ UNCHANGED << backend, heap, top, arena, begin, end, regions, request, cursor, given >>
  BY DEF Throws
<1> QED
  BY <1>1 DEF TypeOK, Statuses, HeapOK, RegionsOK, ChainOK, GivenOK, Apart, LiesIn, AreApart

LEMMA StartFreeInv == ASSUME Inv, StartFree PROVE Inv'
<1> USE DEF Inv
<1>1. /\ status = "ready" /\ status' = "freeing" /\ cursor' = begin /\ given' = <<>>
      /\ UNCHANGED << backend, heap, top, arena, begin, end, regions, request >>
  BY DEF StartFree
<1>2. TypeOK' /\ HeapOK' /\ RegionsOK' /\ GivenOK'
  BY <1>1 DEF TypeOK, Statuses, HeapOK, RegionsOK, GivenOK, Apart
<1>3. ChainOK'
  <2>1. Dangling'
    BY <1>1 DEF ChainOK, Chained, IsChainTo, IsChain, Dangling
  <2> QED
    BY <2>1, <1>1 DEF ChainOK
<1> QED
  BY <1>2, <1>3

LEMMA FreeRegionInv == ASSUME Inv, FreeRegion PROVE Inv'
<1> USE DEF Inv
<1>1. /\ status = "freeing" /\ cursor # NULL /\ cursor' = regions[cursor].next
      /\ regions' = Without(regions, cursor)
      /\ UNCHANGED << backend, status, arena, begin, end, request, given >>
  BY DEF FreeRegion
<1>2. PICK n \in Nat : \E c \in [ 1..n -> DOMAIN regions ] : IsChain(c, n, cursor)
  BY <1>1 DEF ChainOK, Dangling
<1>3. PICK c \in [ 1..n -> DOMAIN regions ] : IsChain(c, n, cursor)
  BY <1>2
<1>4. n # 0 /\ n \in 1..n /\ 1 \in 1..n /\ cursor = c[1]
  BY <1>1, <1>3 DEF IsChain
<1>5. cursor \in DOMAIN regions /\ cursor \in DOMAIN heap /\ cursor # arena
  BY <1>4 DEF RegionsOK
<1>6. RegionSize(cursor) = heap[cursor]
  <2>1. /\ regions[cursor].capacity \in Nat /\ HeaderSize + regions[cursor].capacity <= Memory
        /\ heap[cursor] = HeaderSize + regions[cursor].capacity
    BY <1>5, RegionFits
  <2> QED
    BY <2>1, RequestsFit, LayoutAssumption DEF RegionSize, Plus
<1>7. /\ DOMAIN heap' = DOMAIN heap \ {cursor}
      /\ \A b \in DOMAIN heap' : heap'[b] = heap[b]
      /\ heap' \in [ DOMAIN heap' -> Nat \ {0} ] /\ top' \in Nat \ {0} /\ HeapOK'
  <2>1. GiveBack(cursor, heap[cursor]) /\ ~IsInvalidFree(cursor, heap[cursor]) /\ UNCHANGED backend
    BY <1>6 DEF FreeRegion
  <2> QED
    BY <1>5, <2>1, GiveBackOne
<1>8. /\ DOMAIN regions' = DOMAIN regions \ {cursor}
      /\ \A r \in DOMAIN regions' : regions'[r] = regions[r]
      /\ regions' \in [ DOMAIN regions' -> RegionHeader ]
  BY <1>1 DEF Without, TypeOK
<1>9. cursor' \in Nat
  BY <1>1, <1>5, RegionFits
<1>10. TypeOK'
  <2>1. DOMAIN heap' \subseteq Nat \ {0}
    BY <1>7 DEF TypeOK
  <2> QED
    BY <2>1, <1>1, <1>7, <1>8, <1>9 DEF TypeOK
<1>11. RegionsOK'
  <2>1. DOMAIN heap' = DOMAIN regions' \cup ({arena'} \ {NULL})
    BY <1>1, <1>5, <1>7, <1>8 DEF RegionsOK
  <2>2. arena' # NULL => heap'[arena'] = ArenaSize
    BY <2>1, <1>1, <1>7 DEF RegionsOK
  <2>3. \A r \in DOMAIN regions' : /\ heap'[r] = HeaderSize + regions'[r].capacity
                                   /\ regions'[r].size <= regions'[r].capacity
    BY <2>1, <1>7, <1>8 DEF RegionsOK
  <2> QED
    BY <2>1, <2>2, <2>3, <1>1, <1>8 DEF RegionsOK
<1>12. ChainOK'
  <2> DEFINE d == [ i \in 1..(n - 1) |-> c[i + 1] ]
  <2>1. /\ \A r \in DOMAIN regions : \E i \in 1..n : c[i] = r
        /\ \A i, j \in 1..n : c[i] = c[j] => i = j
        /\ \A i \in 1..n : regions[c[i]].next = IF i = n THEN NULL ELSE c[i + 1]
    BY <1>3 DEF IsChain
  <2>2. n - 1 \in Nat /\ \A i \in 1..(n - 1) : i + 1 \in 1..n /\ i + 1 # 1
    BY <1>4
  <2>3. \A i \in 1..(n - 1) : c[i + 1] \in DOMAIN regions' /\ c[i + 1] # cursor
    BY <2>1, <2>2, <1>4, <1>8
  <2>4. d \in [ 1..(n - 1) -> DOMAIN regions' ] /\ \A i \in 1..(n - 1) : d[i] = c[i + 1]
    BY <2>3
  <2> HIDE DEF d
  <2>5. \A r \in DOMAIN regions' : \E i \in 1..(n - 1) : d[i] = r
    <3> TAKE r \in DOMAIN regions'
    <3>1. PICK i \in 1..n : c[i] = r
      BY <2>1, <1>8
    <3>2. i # 1
      BY <3>1, <1>4, <1>8
    <3>3. i - 1 \in 1..(n - 1) /\ (i - 1) + 1 = i
      BY <3>2
    <3> QED
      BY <3>1, <3>3, <2>4
  <2>6. \A i, j \in 1..(n - 1) : d[i] = d[j] => i = j
    <3> TAKE i, j \in 1..(n - 1)
    <3> HAVE d[i] = d[j]
    <3>1. i + 1 = j + 1
      BY <2>1, <2>2, <2>4
    <3> QED
      BY <3>1
  <2>7. \A i \in 1..(n - 1) : regions'[d[i]].next = IF i = n - 1 THEN NULL ELSE d[i + 1]
    <3> TAKE i \in 1..(n - 1)
    <3>1. regions'[d[i]].next = regions[c[i + 1]].next
      BY <2>3, <2>4, <1>8
    <3>2. regions[c[i + 1]].next = IF i + 1 = n THEN NULL ELSE c[(i + 1) + 1]
      BY <2>1, <2>2
    <3>3. i # n - 1 => d[i + 1] = c[(i + 1) + 1]
      BY <2>4
    <3> QED
      BY <3>1, <3>2, <3>3
  <2>8. cursor' = IF n - 1 = 0 THEN NULL ELSE d[1]
    <3>1. cursor' = IF 1 = n THEN NULL ELSE c[1 + 1]
      BY <2>1, <1>1, <1>4
    <3>2. n # 1 => d[1] = c[1 + 1]
      BY <2>4, <1>4
    <3> QED
      BY <3>1, <3>2, <1>4
  <2>9. IsChain(d, n - 1, cursor)'
    BY <2>4, <2>5, <2>6, <2>7, <2>8 DEF IsChain
  <2>10. Dangling'
    BY <2>2, <2>4, <2>9 DEF Dangling
  <2> QED
    BY <2>10, <1>1 DEF ChainOK
<1>13. GivenOK'
  BY <1>1 DEF GivenOK, Apart
<1> QED
  BY <1>7, <1>10, <1>11, <1>12, <1>13

LEMMA FreeArenaInv == ASSUME Inv, FreeArena PROVE Inv'
<1> USE DEF Inv
<1>1. /\ status = "freeing" /\ cursor = NULL /\ status' = "none"
      /\ arena' = NULL /\ begin' = NULL /\ end' = NULL
      /\ UNCHANGED << backend, regions, request, cursor, given >>
  BY DEF FreeArena
<1>2. PICK n \in Nat : \E c \in [ 1..n -> DOMAIN regions ] : IsChain(c, n, cursor)
  BY <1>1 DEF ChainOK, Dangling
<1>3. PICK c \in [ 1..n -> DOMAIN regions ] : IsChain(c, n, cursor)
  BY <1>2
<1>4. DOMAIN regions = {}
  <2>1. n = 0
    <3> SUFFICES ASSUME n # 0 PROVE FALSE
      OBVIOUS
    <3>1. 1 \in 1..n /\ c[1] = NULL
      BY <1>1, <1>3 DEF IsChain
    <3> QED
      BY <3>1 DEF RegionsOK
  <2>2. \A r \in DOMAIN regions : \E i \in 1..n : c[i] = r
    BY <1>3 DEF IsChain
  <2>3. 1..n = {}
    BY <2>1
  <2> QED
    BY <2>2, <2>3
<1>5. arena # NULL /\ DOMAIN heap = {arena} /\ arena \in DOMAIN heap /\ heap[arena] = ArenaSize
  BY <1>1, <1>4 DEF RegionsOK
<1>6. /\ DOMAIN heap' = DOMAIN heap \ {arena}
      /\ heap' \in [ DOMAIN heap' -> Nat \ {0} ] /\ top' \in Nat \ {0} /\ HeapOK'
      /\ backend = "WASM_HEAPBASE" => top' = arena
  <2>1. GiveBack(arena, heap[arena]) /\ ~IsInvalidFree(arena, heap[arena]) /\ UNCHANGED backend
    BY <1>5 DEF FreeArena
  <2> QED
    BY <1>5, <2>1, GiveBackOne
<1>7. top' = HeapBase
  BY <1>1, <1>5, <1>6 DEF RegionsOK, HeapOK
<1>8. DOMAIN heap' = {} /\ DOMAIN regions' = {}
  BY <1>1, <1>4, <1>5, <1>6
<1>9. TypeOK'
  BY <1>1, <1>6, <1>8 DEF TypeOK, Statuses, NULL
<1>10. RegionsOK' /\ ChainOK' /\ GivenOK'
  BY <1>1, <1>7, <1>8 DEF RegionsOK, ChainOK, GivenOK, Apart, NULL
<1> QED
  BY <1>6, <1>9, <1>10

THEOREM InvHolds == Spec => []Inv
<1>1. Init => Inv
  BY InitInv
<1>2. Inv /\ [Next]_vars => Inv'
  <2> SUFFICES ASSUME Inv, [Next]_vars PROVE Inv'
    OBVIOUS
  <2>1. CASE UNCHANGED vars
    <3>1. UNCHANGED << backend, heap, top, status, arena, begin, end, regions, request, cursor, given >>
      BY <2>1 DEF vars
    <3>2. TypeOK' /\ HeapOK' /\ RegionsOK'
      BY <3>1 DEF Inv, TypeOK, HeapOK, RegionsOK
    <3>3. ChainOK'
      <4>1. Chained => Chained'
        BY <3>1 DEF Chained, IsChainTo, IsChain
      <4>2. \A n, c : IsChain(c, n, cursor) => IsChain(c, n, cursor)'
        BY <3>1 DEF IsChain
      <4>3. Dangling => Dangling'
        BY <3>1, <4>2 DEF Dangling
      <4> QED
        BY <3>1, <4>1, <4>3 DEF Inv, ChainOK
    <3>4. GivenOK'
      BY <3>1 DEF Inv, GivenOK, Apart, LiesIn, AreApart
    <3> QED
      BY <3>2, <3>3, <3>4 DEF Inv
  <2> QED
    BY <2>1, ArenaNewInv, AllocFirstInv, AllocMoreInv, NextRegionInv, BumpInv,
       AllocationFailsInv, StartFreeInv, FreeRegionInv, FreeArenaInv, ThrowsInv DEF Next
<1> QED
  BY <1>1, <1>2, PTL DEF Spec

(***************************************************************************)
(* arena_alloc never hands out a byte twice, nor one that is not its own.  *)
(***************************************************************************)
THEOREM AllocationsApartHolds == Spec => []AllocationsApart
<1>1. Inv => AllocationsApart
  <2> SUFFICES ASSUME Inv PROVE AllocationsApart
    OBVIOUS
  <2>1. ASSUME NEW i \in 1..Len(given)
        PROVE  \E r \in DOMAIN regions \cap DOMAIN heap :
                 LiesIn(given[i], r) /\ given[i].start + given[i].length <= r + heap[r]
    <3>1. PICK r \in DOMAIN regions : LiesIn(given[i], r)
      BY DEF Inv, GivenOK
    <3>2. /\ r \in Nat /\ r \in DOMAIN heap /\ heap[r] = HeaderSize + regions[r].capacity
          /\ regions[r].size \in Nat /\ regions[r].capacity \in Nat
          /\ regions[r].size <= regions[r].capacity
      BY RegionFits DEF Inv
    <3>3. given[i] \in Block
      BY DEF Inv, TypeOK
    <3>4. given[i].start \in Nat /\ given[i].length \in Nat
      BY <3>3 DEF Block
    <3>5. given[i].start + given[i].length <= r + HeaderSize + regions[r].size
      BY <3>1 DEF LiesIn
    <3>6. HeaderSize \in Nat
      BY LayoutAssumption
    <3>7. given[i].start + given[i].length <= r + heap[r]
      BY SMTT(30), <3>2, <3>4, <3>5, <3>6
    <3> QED
      BY <3>1, <3>2, <3>7
  <2> QED
    BY <2>1 DEF Inv, GivenOK, Apart, AllocationsApart
<1> QED
  BY <1>1, InvHolds, PTL

(***************************************************************************)
(* arena_free gives back every block, and the heap of WASM is as it was.   *)
(***************************************************************************)
THEOREM ArenaGivesBackAllHolds == Spec => []ArenaGivesBackAll
<1>1. Inv => ArenaGivesBackAll
  BY DEF Inv, RegionsOK, ArenaGivesBackAll
<1> QED
  BY <1>1, InvHolds, PTL

================================================================================
