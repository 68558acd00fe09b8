---------------------------------- MODULE Arena ----------------------------------
(***************************************************************************)
(* deps/arena/src/arena.c: a chain of regions that hands out memory piece  *)
(* by piece and gives all of it back at once, over any of the four places  *)
(* it can be built to take its regions from.  An address is a number, NULL *)
(* is 0, and a RegionHeader is found by the address it is stored at.       *)
(***************************************************************************)
EXTENDS Integers, Sequences

CONSTANTS Backends,          \* the ARENA_BACKEND_ macros the code may be built with
          HeaderSize,        \* sizeof(RegionHeader)
          ArenaSize,         \* sizeof(Arena)
          DefaultCapacity,   \* REGION_DEFAULT_CAPACITY
          Memory,            \* the last address there is
          SizeMax,           \* SIZE_MAX
          Sizes,             \* the sizes arena_alloc is called with
          MaxAllocations     \* bound: allocations of one arena

ASSUME BackendsAssumption ==
    Backends \subseteq { "LIBC_MALLOC", "LINUX_MMAP", "WIN32_VIRTUALALLOC", "WASM_HEAPBASE" }
ASSUME LayoutAssumption ==
    /\ HeaderSize \in Nat \ {0} /\ ArenaSize \in Nat \ {0} /\ DefaultCapacity \in Nat \ {0}
    /\ Memory \in Nat /\ SizeMax \in Nat /\ Sizes \subseteq Nat /\ MaxAllocations \in Nat

(***************************************************************************)
(* No sum of sizes comes near SIZE_MAX.  Without it the test of            *)
(* arena.c:117 wraps around and lets a request through that does not fit.  *)
(***************************************************************************)
ASSUME RequestsFit ==
    /\ DefaultCapacity + HeaderSize + 2 * Memory <= SizeMax
    /\ \A n \in Sizes : n + HeaderSize + 2 * Memory <= SizeMax

VARIABLES backend,    \* the macro this program was built with
          heap,       \* what the backend has given out: the length of the block at an address
          top,        \* HEAP32[0] of the WASM backend
          status,     \* which function runs, and how the program ended
          arena,      \* the Arena, and its two fields
          begin, end,
          regions,    \* the RegionHeader at an address
          request,    \* size, a parameter of arena_alloc
          cursor,     \* region, a local of arena_free
          given       \* what arena_alloc has returned since arena_new

vars == << backend, heap, top, status, arena, begin, end, regions, request, cursor, given >>

NULL == 0
HeapBase == 1

Plus(a, b) == IF a + b > SizeMax THEN a + b - (SizeMax + 1) ELSE a + b      \* size_t

RegionHeader == [ next : Nat, size : Nat, capacity : Nat ]
Block == [ start : Nat, length : Nat ]
Statuses == { "none", "ready", "allocating", "freeing", "invalid free", "no memory" }

--------------------------------------------------------------------------------

(***************************************************************************)
(* The backends.  malloc, mmap and VirtualAlloc give out any block of free *)
(* addresses, or nothing; the heap of WASM grows from its base up to       *)
(* HEAP32[1], its last address, and shrinks only from the top.             *)
(***************************************************************************)
IsFree(a, n) == \A b \in DOMAIN heap : a + n <= b \/ b + heap[b] <= a

Places(n) ==
    IF backend = "WASM_HEAPBASE"
    THEN { a \in {top} : a + n <= Memory + 1 }
    ELSE { a \in HeapBase..Memory : a + n <= Memory + 1 /\ IsFree(a, n) }

Refuses(n) == backend = "WASM_HEAPBASE" => Places(n) = {}

\* The block of n at a is the caller's; only WASM keeps HEAP32[0].
Take(a, n) ==
    /\ heap' = [ b \in DOMAIN heap \cup {a} |-> IF b = a THEN n ELSE heap[b] ]
    /\ top' = IF backend = "WASM_HEAPBASE" THEN a + n ELSE top

Without(blocks, a) == [ b \in DOMAIN blocks \ {a} |-> blocks[b] ]

\* What is left of a block: munmap takes as much as it is told, the others all of it.
Keeps(a, n) == backend = "LINUX_MMAP" /\ heap[a] > n

IsInvalidFree(a, n) == backend = "WASM_HEAPBASE" /\ top # a + n

GiveBack(a, n) ==
    /\ heap' = IF Keeps(a, n)
               THEN [ b \in (DOMAIN heap \ {a}) \cup {a + n} |->
                        IF b = a + n THEN heap[a] - n ELSE heap[b] ]
               ELSE Without(heap, a)
    /\ top' = IF backend = "WASM_HEAPBASE" THEN a ELSE top

--------------------------------------------------------------------------------

Init ==
    /\ backend \in Backends
    /\ heap = <<>> /\ top = HeapBase
    /\ status = "none"
    /\ arena = NULL /\ begin = NULL /\ end = NULL
    /\ regions = <<>>
    /\ request = 0 /\ cursor = NULL
    /\ given = <<>>

ArenaNew ==
    /\ status = "none"
    /\ \E a \in Places(ArenaSize) : Take(a, ArenaSize) /\ arena' = a
    /\ begin' = NULL /\ end' = NULL
    /\ status' = "ready"
    /\ UNCHANGED << backend, regions, request, cursor, given >>

AtLeast(capacity, size) == IF capacity < size THEN size ELSE capacity

WithRegion(r, capacity) ==
    [ b \in DOMAIN regions \cup {r} |->
        IF b = r THEN [ next |-> NULL, size |-> 0, capacity |-> capacity ] ELSE regions[b] ]

\* arena_alloc, up to its loop.
StartAlloc(size) ==
    /\ status = "ready"
    /\ Len(given) < MaxAllocations
    /\ status' = "allocating" /\ request' = size
    /\ UNCHANGED << backend, arena, cursor, given >>

AllocFirst(size) ==
    LET capacity == AtLeast(DefaultCapacity, size) IN
    /\ end = NULL
    /\ StartAlloc(size)
    /\ \E r \in Places(Plus(HeaderSize, capacity)) :
        /\ Take(r, Plus(HeaderSize, capacity))
        /\ regions' = WithRegion(r, capacity)
        /\ begin' = r /\ end' = r

AllocMore(size) ==
    /\ end # NULL
    /\ StartAlloc(size)
    /\ UNCHANGED << heap, top, begin, end, regions >>

IsFull == Plus(regions[end].size, request) > regions[end].capacity
GrownCapacity == AtLeast(Plus(regions[end].capacity, regions[end].capacity), request)

\* Mutant: the new region is not linked to the last one.
NextRegionUnlinked ==
    /\ status = "allocating" /\ IsFull
    /\ \E r \in Places(Plus(HeaderSize, GrownCapacity)) :
        /\ Take(r, Plus(HeaderSize, GrownCapacity))
        /\ regions' = WithRegion(r, GrownCapacity)
        /\ end' = r
    /\ UNCHANGED << backend, status, arena, begin, request, cursor, given >>

\* One turn of the loop.  A last region gets a next one; the end moves on to it.
NextRegion ==
    /\ status = "allocating" /\ IsFull
    /\ \E r \in IF regions[end].next = NULL THEN Places(Plus(HeaderSize, GrownCapacity))
                                            ELSE { regions[end].next } :
        /\ IF regions[end].next = NULL
           THEN /\ Take(r, Plus(HeaderSize, GrownCapacity))
                /\ regions' = [ WithRegion(r, GrownCapacity) EXCEPT ![end].next = r ]
           ELSE UNCHANGED << heap, top, regions >>
        /\ end' = r
    /\ UNCHANGED << backend, status, arena, begin, request, cursor, given >>

\* Mutant: an allocation that just fills the region does not count.
BumpUnlessFull ==
    /\ status = "allocating" /\ ~IsFull
    /\ given' = Append(given, [ start |-> end + HeaderSize + regions[end].size,
                                length |-> request ])
    /\ regions' = [ regions EXCEPT ![end].size =
                        IF Plus(@, request) < regions[end].capacity THEN Plus(@, request) ELSE @ ]
    /\ status' = "ready"
    /\ UNCHANGED << backend, heap, top, arena, begin, end, request, cursor >>

Bump ==
    /\ status = "allocating" /\ ~IsFull
    /\ given' = Append(given, [ start |-> end + HeaderSize + regions[end].size,
                                length |-> request ])
    /\ regions' = [ regions EXCEPT ![end].size = Plus(@, request) ]
    /\ status' = "ready"
    /\ UNCHANGED << backend, heap, top, arena, begin, end, request, cursor >>

\* The NULL, or MAP_FAILED, of the backend is written to; WASM throws.
AllocationFails ==
    /\ \/ status = "none" /\ Refuses(ArenaSize)
       \/ /\ status = "ready" /\ end = NULL /\ Len(given) < MaxAllocations
          /\ \E size \in Sizes : Refuses(Plus(HeaderSize, AtLeast(DefaultCapacity, size)))
       \/ /\ status = "allocating" /\ IsFull /\ regions[end].next = NULL
          /\ Refuses(Plus(HeaderSize, GrownCapacity))
    /\ status' = "no memory"
    /\ UNCHANGED << backend, heap, top, arena, begin, end, regions, request, cursor, given >>

--------------------------------------------------------------------------------

\* arena_free; from here on nobody uses what was allocated.
StartFree ==
    /\ status = "ready"
    /\ status' = "freeing" /\ cursor' = begin /\ given' = <<>>
    /\ UNCHANGED << backend, heap, top, arena, begin, end, regions, request >>

RegionSize(r) == Plus(HeaderSize, regions[r].capacity)

\* The size is read from the region, and the next region before this one is gone.
FreeRegion ==
    /\ status = "freeing" /\ cursor # NULL
    /\ ~IsInvalidFree(cursor, RegionSize(cursor))
    /\ GiveBack(cursor, RegionSize(cursor))
    /\ regions' = Without(regions, cursor)
    /\ cursor' = regions[cursor].next
    /\ UNCHANGED << backend, status, arena, begin, end, request, given >>

FreeArena ==
    /\ status = "freeing" /\ cursor = NULL
    /\ ~IsInvalidFree(arena, ArenaSize)
    /\ GiveBack(arena, ArenaSize)
    /\ arena' = NULL /\ begin' = NULL /\ end' = NULL
    /\ status' = "none"
    /\ UNCHANGED << backend, regions, request, cursor, given >>

\* throw 'invalid free'
Throws ==
    /\ status = "freeing"
    /\ IF cursor # NULL THEN IsInvalidFree(cursor, RegionSize(cursor))
                        ELSE IsInvalidFree(arena, ArenaSize)
    /\ status' = "invalid free"
    /\ UNCHANGED << backend, heap, top, arena, begin, end, regions, request, cursor, given >>

Next ==
    \/ ArenaNew
    \/ \E size \in Sizes : AllocFirst(size) \/ AllocMore(size)
    \/ NextRegion \/ Bump
    \/ AllocationFails
    \/ StartFree \/ FreeRegion \/ FreeArena \/ Throws

Spec == Init /\ [][Next]_vars

--------------------------------------------------------------------------------

LiesIn(block, r) ==
    /\ r + HeaderSize <= block.start
    /\ block.start + block.length <= r + HeaderSize + regions[r].size

AreApart(a, b) == a.start + a.length <= b.start \/ b.start + b.length <= a.start

(***************************************************************************)
(* Whatever arena_alloc returned lies behind the header and before the end *)
(* of a block the arena owns, and shares no byte with another allocation:  *)
(* through doubled regions, oversized requests and regions that are left   *)
(* half empty.                                                             *)
(***************************************************************************)
AllocationsApart ==
    /\ \A i \in 1..Len(given) : \E r \in DOMAIN regions \cap DOMAIN heap :
        /\ LiesIn(given[i], r)
        /\ given[i].start + given[i].length <= r + heap[r]
    /\ \A i, j \in 1..Len(given) : i # j => AreApart(given[i], given[j])

(***************************************************************************)
(* When arena_free returns, the backend has every block back, of the size  *)
(* it gave out: no region is forgotten on the way along the chain, and     *)
(* munmap is told the length of each.                                      *)
(***************************************************************************)
ArenaGivesBackAll == status = "none" => DOMAIN heap = {} /\ top = HeapBase

(***************************************************************************)
(* The assertion of arena.c:71 and 153: WASM's heap is shrunk only from    *)
(* the top.  arena_free starts with the region that was taken first.       *)
(***************************************************************************)
NoInvalidFree == status # "invalid free"

================================================================================
