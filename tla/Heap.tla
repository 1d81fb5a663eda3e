------------------------------- MODULE Heap -------------------------------
(***************************************************************************)
(* The kernel heap of mm/heap.c: a doubly linked list of blocks, first     *)
(* fit, split on allocation, merged with its neighbours on release, grown  *)
(* page by page at its end.                                                *)
(*                                                                         *)
(* A header lives in the memory in front of the block it describes, and    *)
(* its magic number is never cleared: a pointer that was freed still finds *)
(* its old header, also when a merge made it part of another block.  hdr   *)
(* maps addresses to the headers there, as long as something may read      *)
(* them.  Addresses and sizes are counted in words.                        *)
(*                                                                         *)
(* Abstracted: the contents of the blocks, the frames behind the pages of  *)
(* the heap (the memory component), and kmalloc_aligned, a kmalloc whose   *)
(* result is rounded up and which nothing calls.                           *)
(***************************************************************************)
EXTENDS Integers, FiniteSets

CONSTANTS
    HEADER,        \* sizeof(block_header_t): 20 bytes, 5 words
    ALIGN,         \* the granularity of sizes: 8 bytes, 2 words
    PAGE_SIZE,     \* in words
    HEAP_START,
    Requests,      \* the sizes callers ask for
    MaxPages,      \* BOUND: how far the heap grows
    MaxStale       \* BOUND: how many freed pointers a careless caller keeps

ASSUME HeapAssumption ==
    /\ HEADER \in Nat \ {0} /\ ALIGN \in Nat \ {0}
    /\ PAGE_SIZE \in Nat /\ PAGE_SIZE > HEADER + ALIGN
    /\ HEAP_START \in Nat \ {0}
    /\ Requests \subseteq Nat \ {0}
    /\ MaxPages \in Nat \ {0} /\ MaxStale \in Nat

NULL == 0

VARIABLES
    hdr,        \* address -> the header there
    heap_brk,   \* the end of the heap
    live,       \* the pointers callers hold, with the sizes they asked for
    stale       \* the pointers callers freed and still may free again

vars == <<hdr, heap_brk, live, stale>>

Limit     == HEAP_START + MaxPages * PAGE_SIZE
heap_head == HEAP_START

RoundUp(n, unit) == ((n + unit - 1) \div unit) * unit

TypeOK ==
    /\ DOMAIN hdr \subseteq HEAP_START .. Limit
    /\ \A a \in DOMAIN hdr :
         /\ hdr[a].size \in 0 .. Limit - HEAP_START
         /\ hdr[a].free \in BOOLEAN
         /\ {hdr[a].next, hdr[a].prev} \subseteq (HEAP_START .. Limit) \cup {NULL}
    /\ heap_brk \in HEAP_START .. Limit
    /\ \A l \in live : l[1] - HEADER \in DOMAIN hdr /\ l[2] \in Requests
    /\ \A p \in stale : p - HEADER \in DOMAIN hdr
    /\ Cardinality(stale) <= MaxStale

\* heap_init.
Init ==
    /\ heap_brk = HEAP_START + PAGE_SIZE
    /\ hdr = [a \in {HEAP_START} |->
                [size |-> PAGE_SIZE - HEADER, free |-> TRUE, next |-> NULL, prev |-> NULL]]
    /\ live = {}
    /\ stale = {}

-----------------------------------------------------------------------------
(* The list.  These operators take the headers h as a parameter, because   *)
(* an operation goes through several values of them.                       *)

\* The blocks on the list in the order of the walk from heap_head, then NULL.
Walk(h) ==
    LET w[n \in 0 .. Cardinality(DOMAIN h)] ==
          IF n = 0 THEN heap_head
          ELSE LET b == w[n-1] IN IF b = NULL THEN NULL ELSE h[b].next
    IN  w

Blocks(h) == LET w == Walk(h) IN {w[n] : n \in DOMAIN w} \ {NULL}

\* h with header b added or replaced.
Put(h, b, header) == [a \in DOMAIN h \cup {b} |-> IF a = b THEN header ELSE h[a]]

SetPrev(h, b, p) == IF b = NULL THEN h ELSE [h EXCEPT ![b].prev = p]

\* The two halves of coalesce.
MergeNext_NoHeader(h, b) ==
    LET n == h[b].next
    IN  IF n # NULL /\ h[n].free
        THEN SetPrev([h EXCEPT ![b].size = @ + h[n].size, ![b].next = h[n].next], h[n].next, b)
        ELSE h
MergeNext_UsedToo(h, b) ==
    LET n == h[b].next
    IN  IF n # NULL
        THEN SetPrev([h EXCEPT ![b].size = @ + HEADER + h[n].size, ![b].next = h[n].next],
                     h[n].next, b)
        ELSE h
MergeNext(h, b) ==
    LET n == h[b].next
    IN  IF n # NULL /\ h[n].free
        THEN SetPrev([h EXCEPT ![b].size = @ + HEADER + h[n].size, ![b].next = h[n].next],
                     h[n].next, b)
        ELSE h

MergePrev_Skipped(h, b) == h
MergePrev(h, b) ==
    LET p == h[b].prev
    IN  IF p # NULL /\ h[p].free
        THEN SetPrev([h EXCEPT ![p].size = @ + HEADER + h[b].size, ![p].next = h[b].next],
                     h[b].next, p)
        ELSE h

coalesce(h, b) == MergePrev(MergeNext(h, b), b)

-----------------------------------------------------------------------------
(* kmalloc.                                                                *)

Fits_AnySize(h, b, n) == h[b].free
Fits(h, b, n) == h[b].free /\ h[b].size >= n

\* The first block of the walk that fits, or NULL.
FirstFit(h, n) ==
    LET w == Walk(h)
        F == {i \in DOMAIN w : w[i] # NULL /\ Fits(h, w[i], n)}
    IN  IF F = {} THEN NULL ELSE w[CHOOSE i \in F : \A j \in F : i <= j]

CanSplit(h, b, n) == h[b].size >= n + HEADER + ALIGN

\* Block b is taken for n words; what is left becomes a free block.
TakeBlock(h, b, n) ==
    IF ~CanSplit(h, b, n) THEN [h EXCEPT ![b].free = FALSE]
    ELSE LET s == b + HEADER + n
         IN  Put(SetPrev([h EXCEPT ![b].size = n, ![b].next = s, ![b].free = FALSE],
                         h[b].next, s),
                 s, [size |-> h[b].size - n - HEADER, free |-> TRUE,
                     next |-> h[b].next, prev |-> b])

\* The pages heap_expand adds for a request of n words.
Growth(n) == RoundUp(n + HEADER + PAGE_SIZE, PAGE_SIZE)

\* The new pages become a block at the end of the list, merged with the last.
Expand(h, n) ==
    LET last == CHOOSE b \in Blocks(h) : h[b].next = NULL
        newb == [size |-> Growth(n) - HEADER, free |-> TRUE, next |-> NULL, prev |-> last]
    IN  coalesce([Put(h, heap_brk, newb) EXCEPT ![last].next = heap_brk], heap_brk)

\* kmalloc(size) applied to the headers h: the headers, the end of the heap and
\* the block it leaves.
Kmalloc(h, size) ==
    LET n  == RoundUp(size, ALIGN)
        b0 == FirstFit(h, n)
        h1 == IF b0 = NULL THEN Expand(h, n) ELSE h
        b  == FirstFit(h1, n)
    IN  [hdr   |-> TakeBlock(h1, b, n),
         brk   |-> IF b0 = NULL THEN heap_brk + Growth(n) ELSE heap_brk,
         block |-> b]

Affordable(h, size) ==
    \/ FirstFit(h, RoundUp(size, ALIGN)) # NULL
    \/ heap_brk + Growth(RoundUp(size, ALIGN)) <= Limit

kmalloc(size) ==
    /\ Affordable(hdr, size)
    /\ LET r == Kmalloc(hdr, size)
       IN  /\ hdr' = r.hdr
           /\ heap_brk' = r.brk
           /\ live' = live \cup {<<r.block + HEADER, size>>}
    /\ UNCHANGED stale

-----------------------------------------------------------------------------
(* kfree and krealloc.                                                     *)

Freed(h, p) == coalesce([h EXCEPT ![p - HEADER].free = TRUE], p - HEADER)

\* h without the headers nothing can read any more: those neither on the list
\* nor in front of a pointer somebody has.
Readable(h, held, kept) ==
    [a \in Blocks(h) \cup {l[1] - HEADER : l \in held} \cup {p - HEADER : p \in kept} |-> h[a]]

\* kfree of a pointer the caller holds, and may keep.
kfree(l) ==
    /\ l \in live
    /\ live' = live \ {l}
    /\ stale' \in {stale, stale \cup {l[1]}} /\ Cardinality(stale') <= MaxStale
    /\ hdr' = Readable(Freed(hdr, l[1]), live', stale')
    /\ UNCHANGED heap_brk

krealloc(l, size) ==
    /\ l \in live
    /\ IF hdr[l[1] - HEADER].size >= size
       THEN /\ live' = (live \ {l}) \cup {<<l[1], size>>}
            /\ UNCHANGED <<hdr, heap_brk>>
       ELSE /\ Affordable(hdr, size)
            /\ LET r == Kmalloc(hdr, size)
               IN  /\ heap_brk' = r.brk
                   /\ live' = (live \ {l}) \cup {<<r.block + HEADER, size>>}
                   /\ hdr' = Readable(Freed(r.hdr, l[1]), live', stale)
    /\ UNCHANGED stale

Next ==
    \/ \E n \in Requests : kmalloc(n)
    \/ \E l \in live : kfree(l) \/ \E n \in Requests : krealloc(l, n)

Spec == Init /\ [][Next]_vars

\* kfree of a pointer that was freed before, in memory not used since.
kfree_again(p) ==
    /\ stale' = stale \ {p}
    /\ hdr' = Readable(Freed(hdr, p), live, stale')
    /\ UNCHANGED <<heap_brk, live>>

\* A caller that may free a pointer twice.
CarelessSpec == Init /\ [][Next \/ \E p \in stale : kfree_again(p)]_vars

-----------------------------------------------------------------------------
(* Properties.                                                             *)

\* The blocks on the list fill the heap from HEAP_START to heap_brk without gap
\* or overlap, and every prev is the inverse of a next, through any sequence of
\* splits, merges and expansions (heap.c:43-54, 64-74, 93-98).
Tiling ==
    \A b \in Blocks(hdr) :
        LET n == hdr[b].next
        IN  /\ n \in DOMAIN hdr \cup {NULL}
            /\ b + HEADER + hdr[b].size = IF n = NULL THEN heap_brk ELSE n
            /\ n # NULL => hdr[n].prev = b

\* No two neighbours are both free, so freed memory does not stay in pieces
\* (coalesce, heap.c:43-54, 98, 116).
Coalesced ==
    \A b \in Blocks(hdr) :
        hdr[b].free /\ hdr[b].next # NULL => ~hdr[hdr[b].next].free

\* The blocks in use are exactly those callers hold, each as large as asked
\* for: nothing is lost, nothing is handed out twice.  The state has its type.
Accounted ==
    /\ TypeOK
    /\ {b \in Blocks(hdr) : ~hdr[b].free} = {l[1] - HEADER : l \in live}
    /\ \A l \in live : hdr[l[1] - HEADER].size >= l[2]
    /\ \A l, k \in live : l[1] = k[1] => l = k

Areas == {<<b + HEADER, hdr[b].size>> : b \in {c \in Blocks(hdr) : ~hdr[c].free}}

Alloc == INSTANCE Allocator WITH areas <- Areas

\* The heap is an allocator of disjoint areas.
ImplementsAllocator == Alloc!AllocSpec

\* heap.c:114 "prevents a double free": a second kfree of the same pointer does
\* not disturb the heap.
DoubleFreeHarmless == Tiling
=============================================================================
